--------------------------- MODULE IpCamSessions ---------------------------
(***************************************************************************)
(* The sessions of the IP cameras and their RTMP channels                  *)
(* (doordvr_ipcammanage_5.cpp with rtmp_ms_7.cpp).                         *)
(*                                                                         *)
(* A manager thread initialises and starts CIpCamManage, changes the       *)
(* configuration of cameras and stops it.  m_mapIpCamStreamQuery maps the  *)
(* key of a stream to its session object; the main stream's start opens    *)
(* the RTMP channel of the camera once, under the lock of the map, and     *)
(* notes that in g_inited_rtmp_channels.                                   *)
(*                                                                         *)
(* A configuration carries a channel number.  A session is inserted under  *)
(* that number, but looked for, to start or destroy it, under the number   *)
(* camera c has by its place, c + IPCCHANNELBEGIN; nothing makes the two   *)
(* agree.  When they do not, sessions are lost: the history variable       *)
(* foreign says under which keys another camera has made a session, and    *)
(* refused of which channels the one call of init failed.                  *)
(*                                                                         *)
(* The number of an enabled camera is that of some camera: with another    *)
(* one StartManageIpCam reads beyond m_IpCamConfig.  The thread class is   *)
(* external: StopThread tells the thread to exit.                          *)
(***************************************************************************)
EXTENDS Integers, Sequences, FiniteSets, SequencesExt

CONSTANTS
  IPCCHANNELBEGIN, MAXIPCNUM,
  Manager,       \* the thread that manages the cameras
  Stored,        \* [Camera -> Config]: the configuration in the store
  Version,       \* what else a configuration may differ in
  Offered,       \* the configurations SetChnConfig is called with
  MaxChanges,    \* calls of SetChnConfig
  Faults, None

Camera == 0 .. MAXIPCNUM - 1
MainKey == {c + IPCCHANNELBEGIN : c \in Camera}
Config ==                       \* channel is 0 in a configuration never stored
  {f \in [on : BOOLEAN, main : BOOLEAN, sub : BOOLEAN,
          channel : MainKey \cup {0}, version : Version] :
     f.on => f.channel \in MainKey}
Key == MainKey \cup {k + MAXIPCNUM : k \in MainKey}
CameraOf(k) == (k - IPCCHANNELBEGIN) % MAXIPCNUM
Logical(c) == c + IPCCHANNELBEGIN - 1     \* the RTMP channel of number c + IPCCHANNELBEGIN

ASSUME SessionsAssumption ==
  /\ IPCCHANNELBEGIN \in Nat \ {0} /\ MAXIPCNUM \in Nat \ {0}
  /\ Version # {} /\ Stored \in [Camera -> Config]
  /\ Offered \subseteq Config /\ MaxChanges \in Nat
  /\ None \notin (Key \cup {Manager}) \X Nat /\ None \notin Int

VARIABLES
  config,     \* [Camera -> Config]: m_IpCamConfig
  session,    \* [Key -> object or None]: m_mapIpCamStreamQuery
  alive,      \* the session objects that exist, pairs <<key, n-th>>
  started,    \* those whose IpCamStart was called
  foreign,    \* the keys under which a camera with another's number made one
  inited,     \* g_inited_rtmp_channels
  refused,    \* the channels whose initialisation failed
  lock,       \* m_lockIpCamStreamQuery is held
  checker,    \* the state of m_CheckVideoStreamThread
  mgr,        \* the manager: step, operation, camera, configuration, keys to start
  made,       \* session objects made so far
  changes,    \* calls of SetChnConfig so far
  ctx, open, aac, header, call, calls, shared, mux, viewers, events  \* RtmpChannel

camVars == <<config, session, alive, started, foreign, made>>
rtmpVars == <<refused, ctx, open, aac, header, call, calls, shared, mux, viewers, events>>
vars == <<camVars, inited, lock, checker, mgr, changes, rtmpVars>>

Rtmp == INSTANCE RtmpChannel
          WITH Channel <- {Logical(c) : c \in Camera}, Named <- {},
               Thread <- {Manager}, Scripts <- [t \in {Manager} |-> <<>>],
               RefBase <- 100, MaxEvents <- 0, MaxViewers <- 0

NoConfig == [on |-> FALSE, main |-> FALSE, sub |-> FALSE, channel |-> 0,
             version |-> CHOOSE v \in Version : TRUE]
Idle == [at |-> "idle", op |-> "none", cam |-> 0, new |-> NoConfig, todo |-> <<>>]

\* The constructor; the configuration is zeroed.
Init ==
  /\ config = [c \in Camera |-> NoConfig]
  /\ session = [k \in Key |-> None]
  /\ alive = {} /\ started = {} /\ foreign = {} /\ inited = {} /\ refused = {}
  /\ lock = FALSE
  /\ checker = "off"
  /\ mgr = [Idle EXCEPT !.op = "boot"]
  /\ made = 0 /\ changes = 0
  /\ Rtmp!Init

Step(at) == mgr' = [mgr EXCEPT !.at = at]

(***************************************************************************)
(* InitManageIpCam, StartManageIpCam, StopManageIpCam, SetChnConfig        *)
(***************************************************************************)
InitManageIpCam ==
  /\ mgr.at = "idle" /\ mgr.op = "boot"
  /\ mgr' = [mgr EXCEPT !.at = "load", !.op = "init"]
  /\ UNCHANGED <<camVars, inited, lock, checker, changes, rtmpVars>>

\* DVR_GetConfig, then CreateIpCamStream, camera by camera
LoadConfig ==
  /\ mgr.at = "load"
  /\ config' = [config EXCEPT ![mgr.cam] = Stored[mgr.cam]]
  /\ Step("createMain")
  /\ UNCHANGED <<session, alive, started, foreign, made, inited, lock, checker,
                 changes, rtmpVars>>

\* The order of std::map.
Keys == [i \in 1 .. 2 * MAXIPCNUM |-> IPCCHANNELBEGIN + i - 1]

\* Every session of the map is started, in the order of the keys, under the lock.
StartManageIpCam ==
  /\ mgr.at = "idle" /\ mgr.op = "none" /\ ~lock
  /\ lock' = TRUE
  /\ mgr' = [mgr EXCEPT !.at = "start", !.op = "start", !.todo = Keys]
  /\ UNCHANGED <<camVars, inited, checker, changes, rtmpVars>>

\* The sessions are stopped and deleted, the thread is told to exit.
StopManageIpCam ==
  /\ mgr.at = "idle" /\ mgr.op = "none" /\ ~lock
  /\ alive' = alive \ {session[k] : k \in Key}
  /\ session' = [k \in Key |-> None]
  /\ checker' = IF checker = "on" THEN "exit" ELSE checker
  /\ UNCHANGED <<config, started, foreign, made, inited, lock, mgr, changes, rtmpVars>>

CheckVideoExits ==
  /\ checker = "exit" /\ checker' = "off"
  /\ UNCHANGED <<camVars, inited, lock, mgr, changes, rtmpVars>>

\* SetChnConfig for one camera: ChangeChnConfig compares the old and the new
\* configuration.
ChangeWith(c, new, reset) ==
  LET old == config[c]  set == [Idle EXCEPT !.op = "set", !.cam = c, !.new = new] IN
  /\ mgr.at = "idle" /\ mgr.op = "none" /\ changes < MaxChanges
  /\ changes' = changes + 1
  /\ \/ /\ old.on /\ ~new.on
        /\ mgr' = [set EXCEPT !.at = "destroy"] /\ UNCHANGED config
     \/ /\ ~old.on /\ new.on
        /\ mgr' = [set EXCEPT !.at = "createMain"]
        /\ config' = [config EXCEPT ![c] = new]
     \/ /\ old.on /\ new.on /\ old # new
        /\ mgr' = [set EXCEPT !.at = reset]
        /\ config' = [config EXCEPT ![c] = new]
     \/ /\ (~old.on /\ ~new.on) \/ old = new
        /\ UNCHANGED <<mgr, config>>
  /\ UNCHANGED <<session, alive, started, foreign, made, inited, lock, checker,
                 rtmpVars>>
\* Mutated form: a changed camera is not destroyed first.
ChangeChnConfig_NoDestroy(c, new) == ChangeWith(c, new, "createMain")
ChangeChnConfig(c, new) == ChangeWith(c, new, "destroy")

(***************************************************************************)
(* DestroyIpCamStream, CreateIpCamStream                                   *)
(***************************************************************************)
\* The keys a camera has by its place, and the keys its number gives it.
KeysOf(c) == <<c + IPCCHANNELBEGIN, c + IPCCHANNELBEGIN + MAXIPCNUM>>
NumberKeys(c) == <<config[c].channel, config[c].channel + MAXIPCNUM>>

DestroyIpCamStream ==
  /\ mgr.at = "destroy" /\ ~lock
  /\ LET keys == ToSet(KeysOf(mgr.cam)) IN
     /\ alive' = alive \ {session[k] : k \in keys}
     /\ session' = [k \in Key |-> IF k \in keys THEN None ELSE session[k]]
  /\ IF mgr.new.on
       THEN Step("createMain") /\ UNCHANGED config
       ELSE /\ config' = [config EXCEPT ![mgr.cam] = mgr.new]
            /\ mgr' = Idle
  /\ UNCHANGED <<started, foreign, made, inited, lock, checker, changes, rtmpVars>>

\* After both streams InitManageIpCam goes on with the next camera, and
\* ChangeChnConfig starts this one.
AfterCreate ==
  IF mgr.op = "init"
    THEN IF mgr.cam < MAXIPCNUM - 1
           THEN [mgr EXCEPT !.at = "load", !.cam = @ + 1] ELSE Idle
    ELSE [mgr EXCEPT !.at = "lock", !.todo = KeysOf(mgr.cam)]

\* std::map::insert does nothing if the key is there.
Create(wanted, k, own, next) ==
  /\ ~lock
  /\ IF config[mgr.cam].on /\ wanted
       THEN /\ made' = made + 1
            /\ alive' = alive \cup {<<k, made>>}
            /\ session' = [session EXCEPT ![k] = IF @ = None THEN <<k, made>> ELSE @]
            /\ foreign' = foreign \cup ({k} \ {own})
       ELSE UNCHANGED <<made, alive, session, foreign>>
  /\ mgr' = next
  /\ UNCHANGED <<config, started, inited, lock, checker, changes, rtmpVars>>

CreateIpCamStream ==
  \/ /\ mgr.at = "createMain"
     /\ Create(config[mgr.cam].main, NumberKeys(mgr.cam)[1], KeysOf(mgr.cam)[1],
               [mgr EXCEPT !.at = "createSub"])
  \/ /\ mgr.at = "createSub"
     /\ Create(config[mgr.cam].sub, NumberKeys(mgr.cam)[2], KeysOf(mgr.cam)[2],
               AfterCreate)

(***************************************************************************)
(* StartIpCamStream                                                        *)
(***************************************************************************)
LockStart ==
  /\ mgr.at = "lock" /\ ~lock /\ lock' = TRUE
  /\ Step("start")
  /\ UNCHANGED <<camVars, inited, checker, changes, rtmpVars>>

\* The first key of the list: its session, if it exists, is started; the main
\* stream goes on to the RTMP channel of the camera whose place the key is.
StartSession ==
  LET k == Head(mgr.todo) IN
  /\ mgr.at = "start" /\ mgr.todo # <<>>
  /\ IF session[k] = None
       THEN mgr' = [mgr EXCEPT !.todo = Tail(@)] /\ UNCHANGED started
       ELSE /\ started' = started \cup {session[k]}
            /\ IF k \in MainKey THEN Step("rtmp")
                                ELSE mgr' = [mgr EXCEPT !.todo = Tail(@)]
  /\ UNCHANGED <<config, session, alive, foreign, made, inited, lock, checker,
                 changes, rtmpVars>>

\* logicalCh; less than 0 if the camera was never stored
LogicalOf(k) == config[CameraOf(k)].channel - 1

\* ms_rtmp_channel_init, unless the channel is in g_inited_rtmp_channels.
InitRtmpUnless(skip) ==
  /\ mgr.at = "rtmp"
  /\ IF skip
       THEN /\ mgr' = [mgr EXCEPT !.at = "start", !.todo = Tail(@)]
            /\ UNCHANGED <<call, calls, shared>>
       ELSE /\ Rtmp!Begin(Manager, LogicalOf(Head(mgr.todo)), "check")
            /\ Step("rtmpWait")
  /\ UNCHANGED <<camVars, inited, lock, checker, changes, refused, ctx, open, aac,
                 header, mux, viewers, events>>
\* Mutated form: one flag for all channels.
InitRtmp_Once == InitRtmpUnless(LogicalOf(Head(mgr.todo)) < 0 \/ inited # {})
InitRtmp ==
  LET ch == LogicalOf(Head(mgr.todo)) IN InitRtmpUnless(ch < 0 \/ ch \in inited)

\* The result of the call is not looked at.
NoteRtmp ==
  /\ mgr.at = "rtmpWait" /\ call[Manager].at = "off"
  /\ inited' = inited \cup {LogicalOf(Head(mgr.todo))}
  /\ mgr' = [mgr EXCEPT !.at = "start", !.todo = Tail(@)]
  /\ UNCHANGED <<camVars, lock, checker, changes, rtmpVars>>

\* Mutated form: the lock is kept.
EndStart_Locked ==
  /\ mgr.at = "start" /\ mgr.todo = <<>>
  /\ mgr' = Idle
  /\ checker' = IF mgr.op = "start" /\ checker = "off" THEN "on" ELSE checker
  /\ UNCHANGED <<camVars, inited, lock, changes, rtmpVars>>
\* StartManageIpCam starts the check thread unless it runs.
EndStart ==
  /\ mgr.at = "start" /\ mgr.todo = <<>>
  /\ lock' = FALSE
  /\ mgr' = Idle
  /\ checker' = IF mgr.op = "start" /\ checker = "off" THEN "on" ELSE checker
  /\ UNCHANGED <<camVars, inited, changes, rtmpVars>>

Working ==
  \/ LoadConfig \/ DestroyIpCamStream \/ CreateIpCamStream \/ LockStart
  \/ StartSession \/ InitRtmp \/ NoteRtmp \/ EndStart

\* A step of a call of init; what the muxer threads do with the channels they
\* are given is RtmpChannel's part.
RtmpStep ==
  /\ Rtmp!ChannelInit(Manager)
  /\ refused' = refused \cup (IF Rtmp!At(Manager, "undo") THEN {call[Manager].ch} ELSE {})
  /\ UNCHANGED <<camVars, inited, lock, checker, mgr, changes>>

Next ==
  \/ InitManageIpCam \/ StartManageIpCam \/ StopManageIpCam
  \/ \E c \in Camera, new \in Offered : ChangeChnConfig(c, new)
  \/ Working \/ RtmpStep \/ CheckVideoExits

\* The manager runs to the end of an operation, and so does a call of init.
Fairness == WF_vars(Working) /\ WF_vars(RtmpStep)

Spec == Init /\ [][Next]_vars
FairSpec == Spec /\ Fairness

(***************************************************************************)
(* Properties                                                              *)
(***************************************************************************)
AtRest == mgr.at = "idle" /\ mgr.op = "none"

\* A session object that exists is in the map under its key, unless a camera
\* with another's number made a session under that key at some time: whatever is
\* changed, no camera that keeps to its place has a session orphaned, by an
\* insertion that did nothing or otherwise.  And none is in the map after its
\* deletion.
NoOrphan ==
  /\ \A x \in alive : session[x[1]] = x \/ x[1] \in foreign
  /\ \A k \in Key : session[k] # None => session[k] \in alive

\* Whatever was enabled, changed, renumbered and disabled before: the RTMP channel
\* that a camera whose main stream was started asks for is open, with one muxer
\* thread, or its one initialisation failed.
StartedIsStreamed ==
  AtRest => \A k \in MainKey :
    session[k] \in started /\ LogicalOf(k) >= 0 =>
      LET ch == LogicalOf(k) IN
        ch \in refused \/ (ctx[ch].start /\ Cardinality({m \in mux : m.ch = ch}) = 1)

\* An operation of the manager comes to its end.
ManagerReturns == ~AtRest /\ mgr.op # "boot" ~> AtRest
=============================================================================
