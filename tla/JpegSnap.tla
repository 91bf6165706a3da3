------------------------------ MODULE JpegSnap ------------------------------
(***************************************************************************)
(* The JPEG snapshot engine of doordvr_jpeg_2.cpp.                         *)
(*                                                                         *)
(* A client (an RPC thread serving rk_get_incident_images) calls           *)
(* Doordvr_Snap_Multi_Base64 with a list of channels.  The call allocates  *)
(* one SnapContext per channel, publishes it in g_ctx_by_venc and starts   *)
(* one single_snap_thread on it.  Each thread builds a pipeline            *)
(* VI -> RGA -> VENC out of two pools of hardware channels, waits at most  *)
(* SNAP_TIMEOUT_MS for the encoder's callback and tears the pipeline down. *)
(* The call joins the threads in order and collects what the callbacks     *)
(* left in the contexts.  Doordvr_Snap_StartJpeg builds the same pipeline  *)
(* without a context.                                                      *)
(*                                                                         *)
(* The RK_MPI media library is external: a channel that exists cannot be   *)
(* created again, any call may fail, and VENC_DestroyChn returns once the  *)
(* encoder's callback has returned.  The code relies on the last point: it *)
(* frees a context as soon as the thread that destroyed its encoder has    *)
(* been joined.                                                            *)
(***************************************************************************)
EXTENDS Integers, Sequences

CONSTANTS
  Client,               \* the threads that call Doordvr_Snap_Multi_Base64
  Calls,                \* Calls[c]: the channel lists that client c asks for
  Addr,                 \* the addresses calloc can return for a SnapContext
  Single,               \* the threads that call Doordvr_Snap_StartJpeg
  SingleChan,           \* SingleChan[s]: the channel that s asks for
  SNAP_VENC_BASE, SNAP_VENC_MAX, SNAP_ENCODER_CHANNEL, RGA_MAX_CHN_NUM,
  OtherRga,             \* RGA channels that other subsystems create too
  Faults,               \* the library and system calls that may fail
  MaxFrames,            \* frames an encoder may emit for one request
  None, Other           \* nobody; another subsystem

Fault == {"alloc", "thread", "venc", "regcb", "rga", "bindIn", "bindOut",
          "recv", "frame"}

ASSUME SnapAssumption ==
  /\ RGA_MAX_CHN_NUM \in Nat \ {0}
  /\ SNAP_VENC_BASE \in Nat /\ SNAP_VENC_MAX \in Nat
  /\ SNAP_ENCODER_CHANNEL \in 0 .. SNAP_VENC_MAX - 1
  /\ Calls \in [Client -> Seq(Seq(Nat))]
  /\ SingleChan \in [Single -> Nat]
  /\ MaxFrames \in Nat \ {0}
  /\ Faults \subseteq Fault
  /\ OtherRga \subseteq 0 .. RGA_MAX_CHN_NUM - 1
  /\ Addr \cap Single = {}
  /\ {None, Other} \cap (Addr \cup Single \cup Nat) = {} /\ None # Other
  /\ None \notin [ctx : Addr, pic : Nat \cup {None}]       \* a callback of cb

Session == Addr \cup Single             \* whoever builds a pipeline
Venc == 0 .. SNAP_VENC_MAX - 1
Rga  == 0 .. RGA_MAX_CHN_NUM - 1

VARIABLES
  callno,     \* [Client -> Nat]: calls made so far
  cpc,        \* [Client -> "idle" | "publish" | "create" | "test" | "join"]
  idx,        \* [Client -> Nat]: the loop variable i of the call's loops
  ctxs,       \* [Client -> Seq(Addr)]: the call's ctxs[0 .. ok_threads-1]
  mine,       \* [Client -> BOOLEAN]: outcome of the test before the clear
  results,    \* [Client -> Seq]: the call's results, None or a picture
  live,       \* the contexts that are allocated
  chan,       \* [Addr -> Nat]: ctx->srcChannel
  got, img,   \* [Addr]: ctx->got_one, ctx->b64
  slot,       \* [Venc -> Addr or None]: g_ctx_by_venc
  pc,         \* [Session -> step]: progress of the pipeline
  try,        \* [Session -> Nat]: k of create_rga_round_robin, then the RGA
  venc, rga,  \* the media library: who created each channel
  links,      \* [Session -> SUBSET {"in", "out"}]: VI->RGA and RGA->VENC
  shot,       \* [Session -> Nat]: frames its encoder has emitted
  cb,         \* [Venc -> None or a callback between its table look-up and
              \*          its delivery]
  clash,      \* BOOLEAN: history; two sessions have used one encoder at once
              \* since a call last found the engine idle
  wild,       \* BOOLEAN: history; a context was written to after its end
  void        \* SUBSET Client: history; the calls, the last of each client,
              \* that were under way during a clash, or that started a thread
              \* after a channel that has none

callVars == <<callno, cpc, idx, ctxs, mine, results>>
ctxVars  == <<live, chan, got, img, slot>>
pipeVars == <<pc, try, venc, rga, links>>
cbVars   == <<shot, cb>>
pastVars == <<clash, wild, void>>
vars     == <<callVars, ctxVars, pipeVars, cbVars, pastVars>>

Init ==
  /\ callno  = [c \in Client |-> 0]
  /\ cpc     = [c \in Client |-> "idle"]
  /\ idx     = [c \in Client |-> 1]
  /\ ctxs    = [c \in Client |-> <<>>]
  /\ mine    = [c \in Client |-> FALSE]
  /\ results = [c \in Client |-> <<>>]
  /\ live    = {}
  /\ chan    = [a \in Addr |-> 0]
  /\ got     = [a \in Addr |-> FALSE]
  /\ img     = [a \in Addr |-> None]
  /\ slot    = [v \in Venc |-> None]
  /\ pc      = [s \in Session |-> "none"]
  /\ try     = [s \in Session |-> 0]
  /\ venc    = [v \in Venc |-> None]
  /\ rga     = [r \in Rga |-> None]
  /\ links   = [s \in Session |-> {}]
  /\ shot    = [s \in Session |-> 0]
  /\ cb      = [v \in Venc |-> None]
  /\ clash   = FALSE
  /\ wild    = FALSE
  /\ void    = {}

ChanOf(s) == IF s \in Single THEN SingleChan[s] ELSE chan[s]
VencOf(s) == IF s \in Single THEN SNAP_ENCODER_CHANNEL
                             ELSE SNAP_VENC_BASE + chan[s]

(***************************************************************************)
(* The past of the engine.  g_ctx_by_venc has one entry for an encoder, so *)
(* two sessions that use one encoder at once, which the code does not      *)
(* prevent, spoil each other's answers; they can even make a callback      *)
(* write to a context that was freed, whose memory another call may have   *)
(* been given.  The properties speak of the calls that no clash has met.   *)
(***************************************************************************)
Running == {s \in Single : pc[s] \notin {"none", "exit"}}
Using == live \cup Running                  \* the sessions under way
InUse(v) == \E s \in Using : VencOf(s) = v
Idle == Running = {} /\ \A c \in Client : cpc[c] = "idle"

\* A session begins: met tells whether there is a clash, lost are the calls
\* that lose their place in the answer.
Mark(met, lost) ==
  /\ clash' = met
  /\ void' = void \cup lost \cup {c \in Client : met /\ cpc[c] # "idle"}

(***************************************************************************)
(* Doordvr_Snap_Multi_Base64                                               *)
(***************************************************************************)
Request(c) == Calls[c][callno[c]]       \* the argument channels[0 .. n-1]

NoPictures(channels) == [i \in DOMAIN channels |-> None]      \* calloc

\* The call starts: its three arrays are allocated.
Call(c) ==
  LET channels == Calls[c][callno[c] + 1] IN
  /\ cpc[c] = "idle" /\ callno[c] < Len(Calls[c])
  /\ callno' = [callno EXCEPT ![c] = @ + 1]
  /\ idx' = [idx EXCEPT ![c] = 1]
  /\ ctxs' = [ctxs EXCEPT ![c] = <<>>]
  /\ \/ /\ channels # <<>>
        /\ cpc' = [cpc EXCEPT ![c] = "publish"]
        /\ results' = [results EXCEPT ![c] = NoPictures(channels)]
     \/ /\ channels = <<>> \/ "alloc" \in Faults             \* return -1
        /\ results' = [results EXCEPT ![c] = <<>>]
        /\ UNCHANGED cpc
  /\ clash' = (clash /\ (~Idle \/ wild))
  /\ void' = IF clash' THEN void \cup {c} ELSE void \ {c}
  /\ UNCHANGED <<mine, ctxVars, pipeVars, cbVars, wild>>

\* The loop moves to the next channel, or on to the joins.
NextChannel(c) ==
  IF idx[c] < Len(Request(c))
    THEN /\ idx' = [idx EXCEPT ![c] = @ + 1]
         /\ cpc' = [cpc EXCEPT ![c] = "publish"]
    ELSE /\ idx' = [idx EXCEPT ![c] = 1]
         /\ cpc' = [cpc EXCEPT ![c] = "test"]

\* A channel whose encoder number is out of range gets no thread.
SkipChannel(c) ==
  /\ cpc[c] = "publish" /\ SNAP_VENC_BASE + Request(c)[idx[c]] \notin Venc
  /\ NextChannel(c)
  /\ UNCHANGED <<callno, ctxs, mine, results, ctxVars, pipeVars, cbVars, pastVars>>

\* calloc a context and publish it for the callback, in slot v.
PublishAt(c, v) ==
  LET ch == Request(c)[idx[c]] IN
  /\ cpc[c] = "publish" /\ SNAP_VENC_BASE + ch \in Venc
  /\ \E a \in Addr \ live :
       /\ live' = live \cup {a}
       /\ chan' = [chan EXCEPT ![a] = ch]
       /\ got'  = [got EXCEPT ![a] = FALSE]
       /\ img'  = [img EXCEPT ![a] = None]
       /\ slot' = [slot EXCEPT ![v] = a]
       /\ ctxs' = [ctxs EXCEPT ![c] = Append(@, a)]
       /\ shot' = [shot EXCEPT ![a] = 0]
  /\ cpc' = [cpc EXCEPT ![c] = "create"]
  /\ Mark(clash \/ InUse(SNAP_VENC_BASE + ch),
          IF Len(ctxs[c]) = idx[c] - 1 THEN {} ELSE {c})
  /\ UNCHANGED <<callno, idx, mine, results, pipeVars, cb, wild>>

\* Mutated form: the slot is indexed by the channel, not by its encoder.
Publish_WrongSlot(c) == PublishAt(c, Request(c)[idx[c]])
Publish(c) == PublishAt(c, SNAP_VENC_BASE + Request(c)[idx[c]])

\* pthread_create succeeds: ok_threads++.
CreateThread(c) ==
  /\ cpc[c] = "create"
  /\ pc' = [pc EXCEPT ![ctxs[c][Len(ctxs[c])]] = "venc"]
  /\ NextChannel(c)
  /\ UNCHANGED <<callno, ctxs, mine, results, ctxVars, try, venc, rga, links,
                 cbVars, pastVars>>

\* pthread_create fails: the slot is emptied, whoever it holds by now.
CreateThreadFails(c) ==
  LET a == ctxs[c][Len(ctxs[c])] IN
  /\ cpc[c] = "create" /\ "thread" \in Faults
  /\ slot' = [slot EXCEPT ![SNAP_VENC_BASE + chan[a]] = None]
  /\ live' = live \ {a}
  /\ ctxs' = [ctxs EXCEPT ![c] = SubSeq(@, 1, Len(@) - 1)]
  /\ NextChannel(c)
  /\ UNCHANGED <<callno, mine, results, chan, got, img, pipeVars, cbVars, pastVars>>

\* Mutated form: the thread is not joined.
Join_NoWait(c) ==
  LET a == ctxs[c][idx[c]] IN
  /\ cpc[c] = "test" /\ idx[c] <= Len(ctxs[c])
  /\ mine' = [mine EXCEPT ![c] = slot[SNAP_VENC_BASE + chan[a]] = a]
  /\ cpc' = [cpc EXCEPT ![c] = "join"]
  /\ UNCHANGED <<callno, idx, ctxs, results, ctxVars, pipeVars, cbVars, pastVars>>

\* pthread_join, then the test of the slot.
Join(c) ==
  LET a == ctxs[c][idx[c]] IN
  /\ cpc[c] = "test" /\ idx[c] <= Len(ctxs[c])
  /\ pc[a] = "exit"
  /\ mine' = [mine EXCEPT ![c] = slot[SNAP_VENC_BASE + chan[a]] = a]
  /\ cpc' = [cpc EXCEPT ![c] = "join"]
  /\ UNCHANGED <<callno, idx, ctxs, results, ctxVars, pipeVars, cbVars, pastVars>>

\* Clear the slot, move the picture to results[at], free the context.
CollectAs(c, clear, at) ==
  LET a == ctxs[c][idx[c]] IN
  /\ cpc[c] = "join"
  /\ slot' = IF clear THEN [slot EXCEPT ![SNAP_VENC_BASE + chan[a]] = None]
                      ELSE slot
  /\ results' = [results EXCEPT ![c][at] = img[a]]
  /\ live' = live \ {a}
  /\ pc' = [pc EXCEPT ![a] = "none"]
  /\ idx' = [idx EXCEPT ![c] = @ + 1]
  /\ cpc' = [cpc EXCEPT ![c] = "test"]
  /\ UNCHANGED <<callno, ctxs, mine, chan, got, img, try, venc, rga, links,
                 cbVars, pastVars>>
\* Mutated forms: the slot is not cleared; the results are stored backwards.
Collect_NoClear(c) == CollectAs(c, FALSE, idx[c])
Collect_Backwards(c) == CollectAs(c, mine[c], Len(ctxs[c]) + 1 - idx[c])

\* The slot is cleared if it was ours; the index is the thread's.
Collect(c) == CollectAs(c, mine[c], idx[c])

\* All threads are joined: the call returns its results.
Return(c) ==
  /\ cpc[c] = "test" /\ idx[c] > Len(ctxs[c])
  /\ cpc' = [cpc EXCEPT ![c] = "idle"]
  /\ UNCHANGED <<callno, idx, ctxs, mine, results, ctxVars, pipeVars, cbVars, pastVars>>

(***************************************************************************)
(* single_snap_thread and Doordvr_Snap_StartJpeg: the pipeline             *)
(***************************************************************************)
Goto(s, step) == pc' = [pc EXCEPT ![s] = step]

\* Doordvr_Snap_StartJpeg is called.
StartJpeg(s) ==
  /\ s \in Single /\ pc[s] \in {"none", "exit"}
  /\ Goto(s, "venc")
  /\ shot' = [shot EXCEPT ![s] = 0]
  /\ Mark(clash \/ InUse(SNAP_ENCODER_CHANNEL), {})
  /\ UNCHANGED <<callVars, ctxVars, try, venc, rga, links, cb, wild>>

\* Mutated form: the encoder is destroyed although it was not created.
CreateVenc_Destroys(s) ==
  /\ pc[s] = "venc"
  /\ \/ /\ venc[VencOf(s)] = None
        /\ venc' = [venc EXCEPT ![VencOf(s)] = s]
        /\ Goto(s, "regcb")
     \/ /\ venc[VencOf(s)] # None \/ "venc" \in Faults
        /\ Goto(s, "vencDestroy")
        /\ UNCHANGED venc
  /\ UNCHANGED <<callVars, ctxVars, try, rga, links, cbVars, pastVars>>

CreateVenc(s) ==
  /\ pc[s] = "venc"
  /\ \/ /\ venc[VencOf(s)] = None
        /\ venc' = [venc EXCEPT ![VencOf(s)] = s]
        /\ Goto(s, "regcb")
     \/ /\ venc[VencOf(s)] # None \/ "venc" \in Faults
        /\ Goto(s, "exit")
        /\ UNCHANGED venc
  /\ UNCHANGED <<callVars, ctxVars, try, rga, links, cbVars, pastVars>>

RegisterOutCb(s) ==
  /\ pc[s] = "regcb"
  /\ \/ /\ Goto(s, "rga")
        /\ try' = [try EXCEPT ![s] = 0]
     \/ /\ "regcb" \in Faults
        /\ Goto(s, "vencDestroy")
        /\ UNCHANGED try
  /\ UNCHANGED <<callVars, ctxVars, venc, rga, links, cbVars, pastVars>>

\* One iteration of create_rga_round_robin over n channels.  On success
\* try[s] is the RGA; after the last one fails the thread goes to failed.
CreateRgaOf(s, n, failed) ==
  LET r == (ChanOf(s) + try[s]) % RGA_MAX_CHN_NUM IN
  /\ pc[s] = "rga"
  /\ \/ /\ rga[r] = None
        /\ rga' = [rga EXCEPT ![r] = s]
        /\ try' = [try EXCEPT ![s] = r]
        /\ Goto(s, "bindIn")
     \/ /\ rga[r] # None \/ "rga" \in Faults
        /\ IF try[s] + 1 < n
             THEN try' = [try EXCEPT ![s] = @ + 1] /\ UNCHANGED pc
             ELSE Goto(s, failed) /\ UNCHANGED try
        /\ UNCHANGED rga
  /\ UNCHANGED <<callVars, ctxVars, venc, links, cbVars, pastVars>>

\* Mutated forms: one try too many; the encoder is left behind.
CreateRga_OneMore(s) == CreateRgaOf(s, RGA_MAX_CHN_NUM + 1, "vencDestroy")
CreateRga_Leaks(s) == CreateRgaOf(s, RGA_MAX_CHN_NUM, "exit")
CreateRga(s) == CreateRgaOf(s, RGA_MAX_CHN_NUM, "vencDestroy")

\* RK_MPI_SYS_Bind VI -> RGA
BindIn(s) ==
  /\ pc[s] = "bindIn"
  /\ \/ /\ links' = [links EXCEPT ![s] = @ \cup {"in"}]
        /\ Goto(s, "bindOut")
     \/ /\ "bindIn" \in Faults
        /\ Goto(s, "rgaDestroy")
        /\ UNCHANGED links
  /\ UNCHANGED <<callVars, ctxVars, try, venc, rga, cbVars, pastVars>>

\* RK_MPI_SYS_Bind RGA -> VENC; a failure enters the teardown before the first binding.
BindOut(s) ==
  /\ pc[s] = "bindOut"
  /\ \/ /\ links' = [links EXCEPT ![s] = @ \cup {"out"}]
        /\ Goto(s, "recv")
     \/ /\ "bindOut" \in Faults
        /\ Goto(s, "unbindIn")
        /\ UNCHANGED links
  /\ UNCHANGED <<callVars, ctxVars, try, venc, rga, cbVars, pastVars>>

\* RK_MPI_VENC_StartRecvFrame with s32RecvPicNum = 1
StartRecvFrame(s) ==
  /\ pc[s] = "recv"
  /\ \/ Goto(s, "wait")
     \/ "recv" \in Faults /\ Goto(s, "unbindOut")
  /\ UNCHANGED <<callVars, ctxVars, try, venc, rga, links, cbVars, pastVars>>

\* The wait ends with the picture, ...
Answered(s) ==
  /\ s \in Addr /\ pc[s] = "wait" /\ got[s]
  /\ Goto(s, "unbindOut")
  /\ UNCHANGED <<callVars, ctxVars, try, venc, rga, links, cbVars, pastVars>>

\* Mutated form: the wait has no deadline.
TimedOut_Never(s) ==
  /\ pc[s] = "wait" /\ s \in Single
  /\ Goto(s, "unbindOut")
  /\ UNCHANGED <<callVars, ctxVars, try, venc, rga, links, cbVars, pastVars>>

\* ... or with ETIMEDOUT; StartJpeg always sleeps its second.
TimedOut(s) ==
  /\ pc[s] = "wait" /\ (s \in Addr => ~got[s])
  /\ Goto(s, "unbindOut")
  /\ UNCHANGED <<callVars, ctxVars, try, venc, rga, links, cbVars, pastVars>>

\* The teardown; a step that fails on the way up enters it half-way.
UnBind(s) ==
  /\ \/ /\ pc[s] = "unbindOut"
        /\ links' = [links EXCEPT ![s] = @ \ {"out"}]
        /\ Goto(s, "unbindIn")
     \/ /\ pc[s] = "unbindIn"
        /\ links' = [links EXCEPT ![s] = @ \ {"in"}]
        /\ Goto(s, "rgaDestroy")
  /\ UNCHANGED <<callVars, ctxVars, try, venc, rga, cbVars, pastVars>>

DestroyRga(s) ==
  /\ pc[s] = "rgaDestroy"
  /\ rga' = [rga EXCEPT ![try[s]] = None]
  /\ Goto(s, "vencDestroy")
  /\ UNCHANGED <<callVars, ctxVars, try, venc, links, cbVars, pastVars>>

\* RK_MPI_VENC_DestroyChn waits for a callback that is running.
DestroyVenc(s) ==
  /\ pc[s] = "vencDestroy" /\ cb[VencOf(s)] = None
  /\ venc' = [venc EXCEPT ![VencOf(s)] = None]
  /\ Goto(s, "exit")
  /\ UNCHANGED <<callVars, ctxVars, try, rga, links, cbVars, pastVars>>

Pipeline(s) ==
  \/ CreateVenc(s) \/ RegisterOutCb(s) \/ CreateRga(s) \/ BindIn(s)
  \/ BindOut(s) \/ StartRecvFrame(s) \/ Answered(s) \/ TimedOut(s)
  \/ UnBind(s) \/ DestroyRga(s) \/ DestroyVenc(s)

(***************************************************************************)
(* video_packet_cb, run by the media library's thread of encoder v         *)
(***************************************************************************)
\* A frame of the encoder's source reaches the callback, which looks the
\* context up.  Without a context the frame is released; encoding it may
\* fail ("frame"), which leaves no picture.
PacketCb(v) ==
  /\ cb[v] = None /\ venc[v] # None
  /\ links[venc[v]] = {"in", "out"} /\ pc[venc[v]] \in {"wait", "unbindOut"}
  /\ shot[venc[v]] < MaxFrames
  /\ shot' = [shot EXCEPT ![venc[v]] = @ + 1]
  /\ IF slot[v] = None
       THEN UNCHANGED cb
       ELSE \E p \in {ChanOf(venc[v])} \cup
                     (IF "frame" \in Faults THEN {None} ELSE {}) :
              cb' = [cb EXCEPT ![v] = [ctx |-> slot[v], pic |-> p]]
  /\ UNCHANGED <<callVars, ctxVars, pipeVars, pastVars>>

\* Under ctx->lock, the first frame is kept and any other one freed.  A
\* context that was freed meanwhile is not written to: what that does is
\* undefined, and NoDanglingCallback says when it cannot happen.
Deliver(v) ==
  /\ cb[v] # None
  /\ LET a == cb[v].ctx IN
       IF a \in live /\ ~got[a]
         THEN /\ got' = [got EXCEPT ![a] = TRUE]
              /\ img' = [img EXCEPT ![a] = cb[v].pic]
         ELSE UNCHANGED <<got, img>>
  /\ wild' = (wild \/ cb[v].ctx \notin live)
  /\ cb' = [cb EXCEPT ![v] = None]
  /\ UNCHANGED <<callVars, live, chan, slot, pipeVars, shot, clash, void>>

\* Another subsystem creates or destroys an RGA channel.
OtherUser(r) ==
  /\ \/ rga[r] = None /\ rga' = [rga EXCEPT ![r] = Other]
     \/ rga[r] = Other /\ rga' = [rga EXCEPT ![r] = None]
  /\ UNCHANGED <<callVars, ctxVars, pc, try, venc, links, cbVars, pastVars>>

ClientStep(c) ==
  \/ SkipChannel(c) \/ Publish(c) \/ CreateThread(c) \/ CreateThreadFails(c)
  \/ Join(c) \/ Collect(c) \/ Return(c)

Done == /\ \A c \in Client : cpc[c] = "idle" /\ callno[c] = Len(Calls[c])
        /\ UNCHANGED vars

Next ==
  \/ \E c \in Client : Call(c) \/ ClientStep(c)
  \/ \E s \in Session : Pipeline(s)
  \/ \E s \in Single : StartJpeg(s)
  \/ \E v \in Venc : PacketCb(v) \/ Deliver(v)
  \/ \E r \in OtherRga : OtherUser(r)
  \/ Done

\* Every thread that can run eventually runs, pthread_cond_timedwait ends
\* after SNAP_TIMEOUT_MS and sleep(1) after a second.  Nothing makes a
\* client call, a camera deliver a frame or another subsystem act.
Fairness ==
  /\ \A c \in Client : WF_vars(ClientStep(c))
  /\ \A s \in Session : WF_vars(Pipeline(s))
  /\ \A v \in Venc : WF_vars(Deliver(v))

Spec == Init /\ [][Next]_vars
FairSpec == Spec /\ Fairness

(***************************************************************************)
(* Properties                                                              *)
(***************************************************************************)
VencSteps == {"regcb", "rga", "bindIn", "bindOut", "recv", "wait",
              "unbindOut", "unbindIn", "rgaDestroy", "vencDestroy"}
RgaSteps  == VencSteps \ {"regcb", "rga", "vencDestroy"}
Steps     == VencSteps \cup {"none", "venc", "exit"}

CallTypeOK ==
  /\ callno \in [Client -> Nat]
  /\ cpc \in [Client -> {"idle", "publish", "create", "test", "join"}]
  /\ idx \in [Client -> Nat \ {0}]
  /\ ctxs \in [Client -> Seq(Addr)]
  /\ mine \in [Client -> BOOLEAN]
  /\ results \in [Client -> Seq(Nat \cup {None})]
CtxTypeOK ==
  /\ live \subseteq Addr
  /\ chan \in [Addr -> Nat]
  /\ got \in [Addr -> BOOLEAN]
  /\ img \in [Addr -> Nat \cup {None}]
  /\ slot \in [Venc -> Addr \cup {None}]
PipeTypeOK ==
  /\ pc \in [Session -> Steps]
  /\ try \in [Session -> Rga]
  /\ venc \in [Venc -> Session \cup {None}]
  /\ rga \in [Rga -> Session \cup {None, Other}]
  /\ links \in [Session -> SUBSET {"in", "out"}]
CbTypeOK ==
  /\ shot \in [Session -> 0 .. MaxFrames]
  /\ cb \in [Venc -> [ctx : Addr, pic : Nat \cup {None}] \cup {None}]
PastTypeOK == clash \in BOOLEAN /\ wild \in BOOLEAN /\ void \subseteq Client

\* Every variable has its type; the tries of create_rga_round_robin stay below
\* RGA_MAX_CHN_NUM.
TypeOK == CallTypeOK /\ CtxTypeOK /\ PipeTypeOK /\ CbTypeOK /\ PastTypeOK

\* A thread in the middle of its pipeline still owns the encoder and the RGA
\* channel it created: no other thread's error path, and no thread that
\* failed to create the channel, has destroyed them under it.
OwnsWhatItUses ==
  \A s \in Session :
    /\ pc[s] \in VencSteps => venc[VencOf(s)] = s
    /\ pc[s] \in RgaSteps => rga[try[s]] = s

\* Whatever step fails, the cleanup after it is complete: a hardware channel
\* that exists belongs to a thread that will still destroy it, and a thread
\* that has exited has no binding left.
NothingLeaked ==
  /\ \A v \in Venc : venc[v] # None => pc[venc[v]] \in VencSteps
  /\ \A r \in Rga : rga[r] \notin {None, Other} => pc[rga[r]] \in RgaSteps
  /\ \A s \in Session : pc[s] = "exit" => links[s] = {}

\* g_ctx_by_venc never holds a context that was freed, however the calls that
\* share a slot overwrite and clear each other's entry.
SlotNeverDangling == \A v \in Venc : slot[v] # None => slot[v] \in live

\* Unless two sessions have used one encoder at once, a callback never reaches
\* a context that its call has freed: a late frame, after the wait timed out,
\* still finds its context.
NoDanglingCallback ==
  ~clash => \A v \in Venc : cb[v] # None => cb[v].ctx \in live

\* A picture that a call returns at index i shows the channel the call was
\* asked for at index i, unless the call met a clash or started a thread after
\* a channel that has none: its results are indexed by thread.
ImageMatchesChannel ==
  \A c \in Client \ void : \A i \in DOMAIN results[c] :
    results[c][i] \in {None, Request(c)[i]}

(***************************************************************************)
(* The promise of SnapService, implemented.  A call owns the contexts of   *)
(* its ctxs that it has not collected yet; the picture of such a context   *)
(* is already part of the answer.  What a void call answers is not told.   *)
(***************************************************************************)
Owns(c, k) ==
  /\ cpc[c] # "idle" /\ k \in 1 .. Len(ctxs[c])
  /\ cpc[c] \in {"test", "join"} => k >= idx[c]

Answer(c) ==
  [i \in DOMAIN results[c] |-> IF Owns(c, i) THEN img[ctxs[c][i]]
                                             ELSE results[c][i]]

Service == INSTANCE SnapService WITH
  Encoded   <- {ch \in Nat : SNAP_VENC_BASE + ch \in Venc},
  MayRefuse <- "alloc" \in Faults,
  busy      <- [c \in Client |-> cpc[c] # "idle"],
  answer    <- [c \in Client |-> IF c \in void THEN <<>> ELSE Answer(c)],
  void      <- void

\* What a call returns is what SnapService promises: whatever the callbacks, the threads
\* and the other calls do in between, each picture is taken during the call, once, into
\* the place of its channel, and reaches the caller, unless the call is void.
AnswersAreTaken == Service!Spec

\* A channel whose encoder emitted a frame before its thread gave up is not
\* reported without one: the frame reaches the context of the call, unless two
\* sessions have used one encoder at once.
FrameReachesRequest ==
  ~clash => \A a \in Addr : pc[a] = "exit" /\ shot[a] > 0 => got[a]

\* Every call returns: no thread waits for ever, whatever fails.
CallReturns == \A c \in Client : cpc[c] # "idle" ~> cpc[c] = "idle"
=============================================================================
