---------------------------- MODULE IpCamPreview ----------------------------
(***************************************************************************)
(* Preview and snapshots of the IP cameras (doordvr_ipcammanage_5.cpp).    *)
(*                                                                         *)
(* BindVdec gives each channel of a list a decoder: it stops the decoder,  *)
(* creates it again for the channel's codec, hooks IpCamCallback to one of *)
(* the channel's streams and enters the pair in m_mapIpcVdec.  The streams *)
(* call IpCamCb for every frame, which looks the decoder up and feeds it.  *)
(* SnapshotJpegMultiToMem takes one picture of each of its channels out of *)
(* their decoders, through an RGA and a VENC channel of its own, and calls *)
(* BindVdec for the channels that have none.                               *)
(*                                                                         *)
(* The screen's thread binds, RPC threads take snapshots and every stream  *)
(* has a thread: m_mapIpcVdec and m_u8NeedIFrame have no lock, each frame  *)
(* is checked and sent under m_lockIpCamPreviewBuffer of its channel.  The *)
(* media library is external: a decoder stays linked by its number, and a  *)
(* channel of a pool that exists cannot be created again.                  *)
(***************************************************************************)
EXTENDS Integers, SequencesExt

CONSTANTS
  IPCCHANNELBEGIN, MAXIPCNUM,
  Session,              \* the streams that exist, pairs <<channel, "main"|"sub">>
  H265,                 \* the streams that are encoded in H.265
  Binder, BindLists,    \* threads calling BindVdec, and their lists of channels
  Snapper, SnapLists,   \* threads calling SnapshotJpegMultiToMem, and its absChs
  VENC_MAX_CHN_NUM, RGA_MAX_CHN_NUM,
  OtherRga, OtherVenc,  \* channels that other subsystems create too
  Faults, None, Other

ASSUME PreviewAssumption ==
  /\ IPCCHANNELBEGIN \in Nat /\ MAXIPCNUM \in Nat \ {0}
  /\ Session \subseteq (Nat \X {"main", "sub"}) /\ H265 \subseteq Session
  /\ Binder \cap Snapper = {} /\ {None, Other} \cap (Binder \cup Snapper \cup Nat) = {}
  /\ BindLists \in [Binder -> Seq(Seq(Nat))]
  /\ SnapLists \in [Snapper -> Seq(Nat)]
  /\ Faults \subseteq {"venc", "rga", "bindIn", "bindOut", "size"}

Chn    == IPCCHANNELBEGIN .. IPCCHANNELBEGIN + MAXIPCNUM - 1
Index  == 0 .. MAXIPCNUM - 1           \* of m_u8NeedIFrame
Vdec   == 0 .. MAXIPCNUM - 1
Venc   == 0 .. VENC_MAX_CHN_NUM - 1
Rga    == 0 .. RGA_MAX_CHN_NUM - 1
Thread == Binder \cup Snapper

VARIABLES
  hooked,     \* [Session -> BOOLEAN]: IpCamCallback is set
  vdecOf,     \* [Chn -> Vdec or None]: m_mapIpcVdec
  needI,      \* [Index -> BOOLEAN]: m_u8NeedIFrame
  dec,        \* [Vdec -> off or the decoder: codec, first frame]
  frame,      \* [Session -> None or the frame IpCamCb is working on]
  bind,       \* [Thread -> a BindVdec call in progress]
  mixed,      \* history: the last call that began, or one under way, ran beside another
  calls,      \* [Thread -> Nat]: lists bound or channels snapped so far
  pc,         \* [Snapper -> step of the snapshot]
  using,      \* [Snapper -> Vdec or None]: the decoder it takes the picture of
  held,       \* [Snapper -> [venc, rga]]: the channels it has created
  links,      \* [Snapper -> what else it has to give back: the bindings VDEC -> RGA ("in")
              \*  and RGA -> VENC ("out"), the started buffers and the picture]
  undo,       \* [Snapper -> what it still gives back before it returns, in this order]
  venc, rga,  \* the pools: who created each channel
  buf         \* [Snapper -> BOOLEAN]: a picture has come

bindVars == <<hooked, vdecOf, needI, dec, bind, mixed>>
poolVars == <<held, links, venc, rga>>
snapVars == <<pc, using, poolVars, undo, buf>>
vars     == <<bindVars, frame, calls, snapVars>>

Off     == [on |-> FALSE, codec |-> None, first |-> None]
NotBinding == [at |-> "off", list |-> <<>>, i |-> 1, v |-> 0, s |-> None]

Init ==
  /\ hooked = [s \in Session |-> FALSE]
  /\ vdecOf = [c \in Chn |-> None]
  /\ needI  = [i \in Index |-> TRUE]
  /\ dec    = [v \in Vdec |-> Off]
  /\ frame  = [s \in Session |-> None]
  /\ bind   = [t \in Thread |-> NotBinding]
  /\ mixed  = FALSE
  /\ calls  = [t \in Thread |-> 0]
  /\ pc     = [t \in Snapper |-> "next"]
  /\ using  = [t \in Snapper |-> None]
  /\ held   = [t \in Snapper |-> [venc |-> None, rga |-> None]]
  /\ links  = [t \in Snapper |-> {}]
  /\ undo   = [t \in Snapper |-> <<>>]
  /\ venc   = [v \in Venc |-> None]
  /\ rga    = [r \in Rga |-> None]
  /\ buf    = [t \in Snapper |-> FALSE]

(***************************************************************************)
(* BindVdec                                                                *)
(***************************************************************************)
IsValid(c, type) == <<c, type>> \in Session

\* GetEncoderFormat: a stream that does not exist counts as H.264.
EncoderFormat(c, type) == IF <<c, type>> \in H265 THEN "h265" ELSE "h264"

\* Nothing keeps a call from beginning while another one is under way.
Begin(t, list) ==
  /\ bind' = [bind EXCEPT ![t] = [NotBinding EXCEPT !.at = "unhook", !.list = list]]
  /\ mixed' = (\E u \in Thread \ {t} : bind[u].at # "off")

\* A thread asks for a new set of channels on the screen.
CallBindVdec(t) ==
  /\ bind[t].at = "off" /\ calls[t] < Len(BindLists[t])
  /\ Begin(t, BindLists[t][calls[t] + 1])
  /\ calls' = [calls EXCEPT ![t] = @ + 1]
  /\ UNCHANGED <<hooked, vdecOf, needI, dec, frame, snapVars>>

\* Mutated form: the streams stay hooked.
ClearAll_KeepsHooks(t) ==
  /\ bind[t].at = "unhook"
  /\ vdecOf' = [c \in Chn |-> None]
  /\ bind' = [bind EXCEPT ![t].at = "stop"]
  /\ UNCHANGED <<hooked, needI, dec, mixed, frame, calls, snapVars>>

\* ClearAllIpCamVideoStreamCallback, then m_mapIpcVdec.clear().
ClearAll(t) ==
  \/ /\ bind[t].at = "unhook"
     /\ hooked' = [s \in Session |-> FALSE]
     /\ bind' = [bind EXCEPT ![t].at = "clear"]
     /\ UNCHANGED <<vdecOf, needI, dec, mixed, frame, calls, snapVars>>
  \/ /\ bind[t].at = "clear"
     /\ vdecOf' = [c \in Chn |-> None]
     /\ bind' = [bind EXCEPT ![t].at = "stop"]
     /\ UNCHANGED <<hooked, needI, dec, mixed, frame, calls, snapVars>>

\* The stream BindVdec takes for channel c out of a list of n.
StreamFor(c, n) ==
  IF n > 1 /\ IsValid(c, "sub") THEN <<c, "sub">> ELSE <<c, "main">>

\* The decoder is stopped; a channel without a stream is passed over.
StopVdec(t) ==
  LET b == bind[t]  s == StreamFor(b.list[b.i], Len(b.list)) IN
  /\ b.at = "stop"
  /\ \/ /\ b.i > Len(b.list)
        /\ bind' = [bind EXCEPT ![t] = NotBinding]
        /\ UNCHANGED dec
     \/ /\ b.i <= Len(b.list)
        /\ dec' = [dec EXCEPT ![b.v] = Off]
        /\ bind' = [bind EXCEPT ![t] =
             IF s \in Session THEN [b EXCEPT !.at = "create", !.s = s]
                              ELSE [b EXCEPT !.i = @ + 1]]
  /\ UNCHANGED <<hooked, vdecOf, needI, mixed, frame, calls, snapVars>>

\* The decoder is created for the codec of the single channel's main stream,
\* or of a list's sub stream.
CreateVdec(t) ==
  LET b == bind[t]
      format == EncoderFormat(b.list[b.i], IF Len(b.list) = 1 THEN "main" ELSE "sub") IN
  /\ b.at = "create"
  /\ dec' = IF dec[b.v].on THEN dec
            ELSE [dec EXCEPT ![b.v] = [Off EXCEPT !.on = TRUE, !.codec = format]]
  /\ bind' = [bind EXCEPT ![t].at = "needI"]
  /\ UNCHANGED <<hooked, vdecOf, needI, mixed, frame, calls, snapVars>>

\* m_u8NeedIFrame[i] = 1: i is the position in the list.
AskIFrame(t) ==
  /\ bind[t].at = "needI"
  /\ needI' = [needI EXCEPT ![bind[t].i - 1] = TRUE]
  /\ bind' = [bind EXCEPT ![t].at = "hook"]
  /\ UNCHANGED <<hooked, vdecOf, dec, mixed, frame, calls, snapVars>>

\* SetIpCamVideoStreamCallback, then the insertion into m_mapIpcVdec.
Hook(t) ==
  /\ bind[t].at = "hook"
  /\ hooked' = [hooked EXCEPT ![bind[t].s] = TRUE]
  /\ bind' = [bind EXCEPT ![t].at = "insert"]
  /\ UNCHANGED <<vdecOf, needI, dec, mixed, frame, calls, snapVars>>

\* std::map::insert keeps an entry that exists.
InsertThen(t, next) ==
  LET b == bind[t]  c == b.list[b.i] IN
  /\ b.at = "insert"
  /\ vdecOf' = [vdecOf EXCEPT ![c] = IF @ = None THEN b.v ELSE @]
  /\ bind' = [bind EXCEPT ![t] = [b EXCEPT !.at = "stop", !.i = @ + 1, !.v = next]]
  /\ UNCHANGED <<hooked, needI, dec, mixed, frame, calls, snapVars>>
\* Mutated form: vDecChn is not advanced.
Insert_SameVdec(t) == InsertThen(t, bind[t].v)
Insert(t) == InsertThen(t, bind[t].v + 1)

BindVdec(t) ==
  \/ ClearAll(t) \/ StopVdec(t) \/ CreateVdec(t) \/ AskIFrame(t) \/ Hook(t)
  \/ Insert(t)

(***************************************************************************)
(* IpCamCb, on the thread of stream s                                      *)
(***************************************************************************)
IndexOf(c) == c - IPCCHANNELBEGIN

\* A frame, key or not, of a stream that is hooked; the decoder is looked up
\* before the lock is taken.  Without one the frame is dropped.
IpCamCb(s) ==
  /\ hooked[s] /\ frame[s] = None /\ vdecOf[s[1]] # None
  /\ \E key \in BOOLEAN :
       frame' = [frame EXCEPT ![s] =
                   [at |-> "lock", dec |-> vdecOf[s[1]], key |-> key]]
  /\ UNCHANGED <<bindVars, calls, snapVars>>

\* Under the channel's lock: after a binding only a key frame passes.
CheckIFrame(s) ==
  LET i == IndexOf(s[1]) IN
  /\ frame[s] # None /\ frame[s].at = "lock"
  /\ \A o \in Session \ {s} :
       o[1] = s[1] /\ frame[o] # None => frame[o].at = "lock"
  /\ IF needI[i] /\ ~frame[s].key
       THEN frame' = [frame EXCEPT ![s] = None] /\ UNCHANGED needI
       ELSE /\ frame' = [frame EXCEPT ![s].at = "send"]
            /\ needI' = [needI EXCEPT ![i] = FALSE]
  /\ UNCHANGED <<hooked, vdecOf, dec, bind, mixed, calls, snapVars>>

\* Hqt_Dec_VdecEndStream: a decoder that is on takes the frame, and a snapshot
\* that waits for a picture of the decoder gets this one.
SendFrame(s) ==
  LET d == frame[s].dec IN
  /\ frame[s] # None /\ frame[s].at = "send"
  /\ IF dec[d].on
       THEN /\ dec' = [dec EXCEPT ![d].first =
                         IF @ # None THEN @ ELSE IF frame[s].key THEN "I" ELSE "P"]
            /\ buf' = [t \in Snapper |-> buf[t] \/ (pc[t] = "get" /\ using[t] = d)]
       ELSE UNCHANGED <<dec, buf>>
  /\ frame' = [frame EXCEPT ![s] = None]
  /\ UNCHANGED <<hooked, vdecOf, needI, bind, mixed, calls, pc, using, poolVars, undo>>

(***************************************************************************)
(* SnapshotJpegMultiToMem and IpcSnapMemThreadProc_                        *)
(***************************************************************************)
Asked(t) == SnapLists[t][calls[t]]      \* absCh, once it is accepted

\* The next channel; one that is out of range is dropped.  EnsureVdecForAbsCh_
\* binds the channel if it has no decoder and is valid.
EnsureVdec(t) ==
  LET c == SnapLists[t][calls[t] + 1] IN
  /\ pc[t] = "next" /\ calls[t] < Len(SnapLists[t])
  /\ calls' = [calls EXCEPT ![t] = @ + 1]
  /\ pc' = [pc EXCEPT ![t] = IF c \in Chn THEN "askI" ELSE "next"]
  /\ IF c \in Chn /\ vdecOf[c] = None /\ IsValid(c, "main")
       THEN Begin(t, <<c>>)
       ELSE UNCHANGED <<bind, mixed>>
  /\ UNCHANGED <<hooked, vdecOf, needI, dec, frame, using, poolVars, undo, buf>>

\* m_u8NeedIFrame[idx] = 1, without the lock.
SnapAskIFrame(t) ==
  /\ pc[t] = "askI" /\ bind[t].at = "off"
  /\ needI' = [needI EXCEPT ![IndexOf(Asked(t))] = TRUE]
  /\ pc' = [pc EXCEPT ![t] = "lookup"]
  /\ UNCHANGED <<hooked, vdecOf, dec, bind, mixed, frame, calls, using, poolVars, undo, buf>>

\* GetVDecChn; a channel without a decoder is bound once more, valid or not.
LookUp(t) ==
  LET v == vdecOf[Asked(t)] IN
  /\ bind[t].at = "off"
  /\ \/ /\ pc[t] \in {"lookup", "again"} /\ v # None
        /\ using' = [using EXCEPT ![t] = v]
        /\ pc' = [pc EXCEPT ![t] = "size"]
        /\ UNCHANGED <<bind, mixed>>
     \/ /\ pc[t] = "lookup" /\ v = None
        /\ Begin(t, <<Asked(t)>>)
        /\ pc' = [pc EXCEPT ![t] = "again"]
        /\ UNCHANGED using
     \/ /\ pc[t] = "again" /\ v = None
        /\ pc' = [pc EXCEPT ![t] = "next"]
        /\ UNCHANGED <<using, bind, mixed>>
  /\ UNCHANGED <<hooked, vdecOf, needI, dec, frame, calls, poolVars, undo, buf>>

Advance(t, step) == pc' = [pc EXCEPT ![t] = step] /\ UNCHANGED <<using, undo, buf>>

\* The snapshot takes an exit: what it gives back there, in the order of the code.
Exit(t, list) ==
  /\ pc' = [pc EXCEPT ![t] = "undo"] /\ undo' = [undo EXCEPT ![t] = list]
  /\ UNCHANGED <<using, buf>>

\* GetChnSize of the main stream
GetSize(t) ==
  /\ pc[t] = "size"
  /\ \/ IsValid(Asked(t), "main") /\ Advance(t, "venc")
     \/ (~IsValid(Asked(t), "main") \/ "size" \in Faults) /\ Exit(t, <<>>)
  /\ UNCHANGED <<bindVars, frame, calls, poolVars>>

\* The highest encoder that can be created
SnapVenc(t) ==
  /\ pc[t] = "venc"
  /\ \/ \E v \in Venc :
          /\ venc[v] = None /\ \A w \in Venc : w > v => venc[w] # None
          /\ venc' = [venc EXCEPT ![v] = t]
          /\ held' = [held EXCEPT ![t].venc = v]
          /\ Advance(t, "rga")
     \/ /\ "venc" \in Faults \/ \A v \in Venc : venc[v] # None
        /\ Exit(t, <<>>) /\ UNCHANGED <<held, venc>>
  /\ UNCHANGED <<bindVars, frame, calls, links, rga>>

\* The lowest RGA channel that can be created, or the exit with "list".
SnapRgaElse(t, list) ==
  /\ pc[t] = "rga"
  /\ \/ \E r \in Rga :
          /\ rga[r] = None /\ \A q \in Rga : q < r => rga[q] # None
          /\ rga' = [rga EXCEPT ![r] = t]
          /\ held' = [held EXCEPT ![t].rga = r]
          /\ Advance(t, "bindIn")
     \/ /\ "rga" \in Faults \/ \A r \in Rga : rga[r] # None
        /\ Exit(t, list) /\ UNCHANGED <<held, rga>>
  /\ UNCHANGED <<bindVars, frame, calls, links, venc>>
\* Mutated form: the encoder is left behind.
SnapRga_Leaks(t) == SnapRgaElse(t, <<>>)
SnapRga(t) == SnapRgaElse(t, <<"venc">>)

\* VDEC -> RGA, then RGA -> VENC, and the encoder's buffers are started.
Link(t, begin, made, next, list) ==
  /\ pc[t] = begin
  /\ \/ links' = [links EXCEPT ![t] = @ \cup made] /\ Advance(t, next)
     \/ begin \in Faults /\ Exit(t, list) /\ UNCHANGED links
  /\ UNCHANGED <<bindVars, frame, calls, held, venc, rga>>
SnapBind(t) ==
  \/ Link(t, "bindIn", {"in"}, "bindOut", <<"rga", "venc">>)
  \/ Link(t, "bindOut", {"out", "getting"}, "get", <<"in", "rga", "venc">>)

\* RK_MPI_SYS_GetMediaBuffer delivers, and the picture is copied, or lost for want of
\* memory: both exits give back the same ...
GetPicture(t) ==
  /\ pc[t] = "get" /\ buf[t]
  /\ links' = [links EXCEPT ![t] = @ \cup {"picture"}]
  /\ Exit(t, <<"picture", "getting", "out", "in", "rga", "venc">>)
  /\ UNCHANGED <<bindVars, frame, calls, held, venc, rga>>

\* Mutated form: a timeout starts the wait again.
GetTimesOut_Retries(t) ==
  /\ pc[t] = "get" /\ ~buf[t]
  /\ UNCHANGED vars

\* ... or gives up after timeout_ms.
GetTimesOut(t) ==
  /\ pc[t] = "get" /\ ~buf[t]
  /\ Exit(t, <<"getting", "out", "in", "rga", "venc">>)
  /\ UNCHANGED <<bindVars, frame, calls, poolVars>>

\* One of them is given back: a binding undone, a channel of the pools destroyed.
GiveBack(t) ==
  /\ pc[t] = "undo" /\ undo[t] # <<>>
  /\ LET what == Head(undo[t])  h == held[t] IN
     /\ links' = [links EXCEPT ![t] = @ \ {what}]
     /\ venc' = IF what = "venc" THEN [venc EXCEPT ![h.venc] = None] ELSE venc
     /\ rga' = IF what = "rga" THEN [rga EXCEPT ![h.rga] = None] ELSE rga
  /\ undo' = [undo EXCEPT ![t] = Tail(@)]
  /\ UNCHANGED <<bindVars, frame, calls, pc, using, held, buf>>

\* The snapshot of this channel is over.
SnapReturns(t) ==
  /\ pc[t] = "undo" /\ undo[t] = <<>>
  /\ pc' = [pc EXCEPT ![t] = "next"]
  /\ using' = [using EXCEPT ![t] = None] /\ buf' = [buf EXCEPT ![t] = FALSE]
  /\ held' = [held EXCEPT ![t] = [venc |-> None, rga |-> None]]
  /\ UNCHANGED <<bindVars, frame, calls, links, undo, venc, rga>>

Snapshot(t) ==
  \/ EnsureVdec(t) \/ SnapAskIFrame(t) \/ LookUp(t) \/ GetSize(t)
  \/ SnapVenc(t) \/ SnapRga(t) \/ SnapBind(t) \/ GetPicture(t) \/ GetTimesOut(t)
  \/ GiveBack(t) \/ SnapReturns(t)

\* Another subsystem creates or destroys a channel of the pools.
OtherUser ==
  /\ \/ /\ \E r \in OtherRga : /\ rga[r] \in {None, Other}
                               /\ rga' = [rga EXCEPT ![r] =
                                    IF @ = None THEN Other ELSE None]
        /\ UNCHANGED venc
     \/ /\ \E v \in OtherVenc : /\ venc[v] \in {None, Other}
                                /\ venc' = [venc EXCEPT ![v] =
                                     IF @ = None THEN Other ELSE None]
        /\ UNCHANGED rga
  /\ UNCHANGED <<bindVars, frame, calls, pc, using, held, links, undo, buf>>

Done ==
  /\ \A t \in Thread : bind[t].at = "off"
  /\ \A t \in Binder : calls[t] = Len(BindLists[t])
  /\ \A t \in Snapper : pc[t] = "next" /\ calls[t] = Len(SnapLists[t])
  /\ UNCHANGED vars

Next ==
  \/ \E t \in Thread : BindVdec(t)
  \/ \E t \in Binder : CallBindVdec(t)
  \/ \E t \in Snapper : Snapshot(t)
  \/ \E s \in Session : IpCamCb(s) \/ CheckIFrame(s) \/ SendFrame(s)
  \/ OtherUser
  \/ Done

\* Every thread that can run eventually runs, and every wait has a deadline.
\* Nothing makes a camera deliver a frame.
Fairness ==
  /\ \A t \in Thread : WF_vars(BindVdec(t))
  /\ \A t \in Snapper : WF_vars(Snapshot(t))
  /\ \A s \in Session : WF_vars(CheckIFrame(s) \/ SendFrame(s))

Spec == Init /\ [][Next]_vars
FairSpec == Spec /\ Fairness

(***************************************************************************)
(* Properties                                                              *)
(***************************************************************************)
\* No call of BindVdec is under way, and the last one that began had the decoders and
\* the map to itself.
Calm == ~mixed /\ \A t \in Thread : bind[t].at = "off"

\* After a call of BindVdec that no other ran beside no decoder serves two channels,
\* whatever calls that did overlap have left before it.
DecoderServesOne ==
  Calm => \A c, d \in Chn : c # d /\ vdecOf[c] # None => vdecOf[c] # vdecOf[d]

\* After a call of BindVdec that no other ran beside a channel has a decoder that is on
\* exactly if one of its streams, and one only, delivers its frames.
HookedIsBound ==
  Calm => \A c \in Chn :
    LET streams == {s \in Session : s[1] = c /\ hooked[s]} IN
    IF vdecOf[c] = None THEN streams = {}
    ELSE dec[vdecOf[c]].on /\ \E s \in Session : streams = {s}

\* A snapshot that is over has left no channel, binding, buffer or picture behind, on
\* whichever exit and whoever took the channels of the pools meanwhile.  What an exit
\* gives back is there and its own, and no channel is destroyed while it is bound.
Holds(t) ==
  links[t] \cup {x \in {"venc"} : \E v \in Venc : venc[v] = t}
           \cup {x \in {"rga"} : \E r \in Rga : rga[r] = t}
NothingLeaked ==
  \A t \in Snapper :
    /\ pc[t] \in {"next", "askI", "lookup", "again", "size", "venc"} => Holds(t) = {}
    /\ \A v \in Venc : venc[v] = t => held[t].venc = v
    /\ \A r \in Rga : rga[r] = t => held[t].rga = r
    /\ ToSet(undo[t]) \subseteq Holds(t)
    /\ "in" \in links[t] => "rga" \in Holds(t)
    /\ "out" \in links[t] => {"rga", "venc"} \subseteq Holds(t)

\* The snapshot of a channel ends, with or without a picture.
SnapshotReturns == \A t \in Snapper : pc[t] # "next" ~> pc[t] = "next"

\* m_u8NeedIFrame, "after binding again the first frame is an I frame": no
\* decoder is started with another one.
FirstFrameIsI == \A v \in Vdec : dec[v].first # "P"

=============================================================================
