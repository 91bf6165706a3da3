---------------------------- MODULE RtmpChannel ----------------------------
(***************************************************************************)
(* The RTMP channels (rtmp_ms_7.cpp).                                      *)
(*                                                                         *)
(* ms_rtmp_channel_init opens a channel: it clears the context, creates an *)
(* FLV muxer, a socket and an RTMP client, waits for the server and starts *)
(* flv_muxer_thread, which pushes the frames of the channel.               *)
(* ms_rtmp_channel_deinit stops the thread, waits for it and destroys what *)
(* init created.  ms_rtmp_stream_event counts the viewers.                 *)
(*                                                                         *)
(* Nothing here is locked: a context is shared by the threads that call    *)
(* init and deinit, by its muxer thread and by the stream events.  Each    *)
(* call of init names what it creates by an identifier of its own, so that *)
(* what is left open, or closed twice, can be told.                        *)
(*                                                                         *)
(* Nothing keeps two calls for one channel apart either, and when they     *)
(* overlap anything can become of that channel.  The history variable      *)
(* shared says of which channels two calls were in progress at once; the   *)
(* properties are about the others, whatever goes on beside them.          *)
(***************************************************************************)
EXTENDS Integers, Sequences, FiniteSets

CONSTANTS
  Channel,        \* the indices of rtmp_ctx
  Named,          \* those ms_rtmp_stream_event knows by a name
  Thread,         \* threads that call init and deinit
  Scripts,        \* [Thread -> the calls it makes, <<"init"|"deinit", channel>>]
  RefBase,        \* the initial value of reference, 100 in the code
  MaxEvents, MaxViewers,
  Faults, None

ASSUME RtmpAssumption ==
  /\ Named \subseteq Channel
  /\ Scripts \in [Thread -> Seq({"init", "deinit"} \X Channel)]
  /\ RefBase \in Nat \ {0} /\ MaxEvents \in Nat /\ MaxViewers \in 0 .. RefBase
  /\ Faults \subseteq {"connect", "refused", "push", "aac"}
  /\ None \notin (Thread \X Nat) \cup Channel

Id == Thread \X Nat                 \* the n-th call of a thread
Kind == {"muxer", "socket", "client"}
Context ==
  [start : BOOLEAN, ref : Nat, muxer : Id \cup {None},
   socket : Id \cup {None}, client : Id \cup {None}, tid : Id \cup {None}]

VARIABLES
  ctx,      \* [Channel -> Context]
  open,     \* pairs <<kind, id>>: the muxers, sockets and clients that exist
  aac,      \* [Channel -> [on, hdr]]: g_aac, initialized and seq_hdr_sent
  header,   \* the clients that have received the AAC sequence header
  call,     \* [Thread -> a call in progress]
  calls,    \* [Thread -> Nat]: calls made so far
  shared,   \* the channels of which two calls were in progress at once
  mux,      \* the muxer threads that run, records [id, ch, at, what]
  viewers,  \* [Channel -> Nat]: PLAY events without a DONE
  events    \* number of events so far

callVars == <<call, calls, shared>>
viewVars == <<viewers, events>>
vars == <<ctx, open, aac, header, callVars, mux, viewVars>>

Zero == [start |-> FALSE, ref |-> 0, muxer |-> None, socket |-> None,
         client |-> None, tid |-> None]
NoCall == [at |-> "off", ch |-> None, tid |-> None, live |-> FALSE]

\* ms_rtmp_context_init
Init ==
  /\ ctx = [c \in Channel |-> Zero]
  /\ open = {}
  /\ aac = [c \in Channel |-> [on |-> FALSE, hdr |-> FALSE]]
  /\ header = {}
  /\ call = [t \in Thread |-> NoCall]
  /\ calls = [t \in Thread |-> 0]
  /\ shared = {}
  /\ mux = {}
  /\ viewers = [c \in Channel |-> 0]
  /\ events = 0

(***************************************************************************)
(* ms_rtmp_channel_init                                                    *)
(***************************************************************************)
At(t, step) == call[t].at = step
Goto(t, step) == call' = [call EXCEPT ![t].at = step]
Return(t) == call' = [call EXCEPT ![t] = NoCall]
Mine(t) == <<t, calls[t]>>
The(t) == ctx[call[t].ch]           \* the context a call is about
Begin(t, ch, step) ==
  /\ call' = [call EXCEPT ![t] = [NoCall EXCEPT !.at = step, !.ch = ch]]
  /\ calls' = [calls EXCEPT ![t] = @ + 1]
  /\ shared' = shared \cup (IF \E u \in Thread : call[u].ch = ch THEN {ch} ELSE {})

\* A channel that has been started is left as it is.
CheckStart(t) ==
  /\ At(t, "check")
  /\ IF The(t).start THEN Return(t) ELSE Goto(t, "clear")
  /\ UNCHANGED <<ctx, open, aac, header, calls, shared, mux, viewVars>>

ClearContext(t) ==
  /\ At(t, "clear")
  /\ ctx' = [ctx EXCEPT ![call[t].ch] = Zero]
  /\ Goto(t, "create")
  /\ UNCHANGED <<open, aac, header, calls, shared, mux, viewVars>>

CreateMuxerAs(t, flag, base) ==
  /\ At(t, "create")
  /\ ctx' = [ctx EXCEPT ![call[t].ch] =
               [@ EXCEPT !.muxer = Mine(t), !.start = flag, !.ref = base]]
  /\ open' = open \cup {<<"muxer", Mine(t)>>}
  /\ Goto(t, "connect")
  /\ UNCHANGED <<aac, header, calls, shared, mux, viewVars>>
\* Mutated forms: viewers are counted from zero; start_rtmp is set at once.
CreateMuxer_FromZero(t) == CreateMuxerAs(t, FALSE, 0)
CreateMuxer_Started(t) == CreateMuxerAs(t, TRUE, RefBase)
CreateMuxer(t) == CreateMuxerAs(t, FALSE, RefBase)

\* socket_connect_host may fail; the client is created all the same.
Connect(t) ==
  /\ At(t, "connect")
  /\ \E ok \in {TRUE} \cup (IF "connect" \in Faults THEN {FALSE} ELSE {}) :
       /\ ctx' = [ctx EXCEPT ![call[t].ch] =
                    [@ EXCEPT !.socket = IF ok THEN Mine(t) ELSE None,
                              !.client = Mine(t)]]
       /\ open' = open \cup {<<"client", Mine(t)>>}
                       \cup (IF ok THEN {<<"socket", Mine(t)>>} ELSE {})
  /\ Goto(t, "handshake")
  /\ UNCHANGED <<aac, header, calls, shared, mux, viewVars>>

\* The client reaches state 4, or the server refuses or closes.
Handshake(t) ==
  /\ At(t, "handshake")
  /\ \/ The(t).socket # None /\ Goto(t, "start")
     \/ (The(t).socket = None \/ "refused" \in Faults) /\ Goto(t, "undo")
  /\ UNCHANGED <<ctx, open, aac, header, calls, shared, mux, viewVars>>

Held(c) == {<<"muxer", c.muxer>>, <<"socket", c.socket>>, <<"client", c.client>>}

\* The pointers stay in the context.
UndoExcept(t, kept) ==
  /\ At(t, "undo")
  /\ open' = open \ {r \in Held(The(t)) : r[1] \notin kept}
  /\ Return(t)
  /\ UNCHANGED <<ctx, aac, header, calls, shared, mux, viewVars>>
\* Mutated form: the muxer is forgotten.
Undo_KeepsMuxer(t) == UndoExcept(t, {"muxer"})
Undo(t) == UndoExcept(t, {})

\* start_rtmp = 1 and pthread_create
StartMuxer(t) ==
  /\ At(t, "start")
  /\ ctx' = [ctx EXCEPT ![call[t].ch] =
               [@ EXCEPT !.start = TRUE, !.tid = Mine(t)]]
  /\ mux' = mux \cup {[id |-> Mine(t), ch |-> call[t].ch, at |-> "top",
                       what |-> None]}
  /\ Return(t)
  /\ UNCHANGED <<open, aac, header, calls, shared, viewVars>>

ChannelInit(t) ==
  \/ CheckStart(t) \/ ClearContext(t) \/ CreateMuxer(t) \/ Connect(t)
  \/ Handshake(t) \/ Undo(t) \/ StartMuxer(t)

(***************************************************************************)
(* ms_rtmp_channel_deinit.  It does not look whether the channel is        *)
(* started: live tells, for the properties only, whether it was.           *)
(***************************************************************************)
StopMuxerWith(t, flag) ==
  /\ At(t, "stop")
  /\ ctx' = [ctx EXCEPT ![call[t].ch].start = flag]
  /\ call' = [call EXCEPT ![t] = [@ EXCEPT !.at = "join", !.tid = The(t).tid,
                                          !.live = The(t).start]]
  /\ UNCHANGED <<open, aac, header, calls, shared, mux, viewVars>>
\* Mutated form: the thread is not told to end.
StopMuxer_Silently(t) == StopMuxerWith(t, TRUE)
StopMuxer(t) == StopMuxerWith(t, FALSE)

\* Mutated form: the thread is detached.
Join_NoWait(t) ==
  /\ At(t, "join") /\ Goto(t, "close")
  /\ UNCHANGED <<ctx, open, aac, header, calls, shared, mux, viewVars>>
\* pthread_join.  To join no thread, or one that was joined before, is
\* undefined; here it returns.
Join(t) ==
  /\ At(t, "join")
  /\ \A m \in mux : m.id # call[t].tid
  /\ Goto(t, "close")
  /\ UNCHANGED <<ctx, open, aac, header, calls, shared, mux, viewVars>>

\* Mutated form: the audio encoder stays open.
CloseAac_Not(t) ==
  /\ At(t, "close") /\ Goto(t, "destroy")
  /\ UNCHANGED <<ctx, open, aac, header, calls, shared, mux, viewVars>>
\* aac_close_if_open
CloseAac(t) ==
  /\ At(t, "close")
  /\ aac' = [aac EXCEPT ![call[t].ch] = [on |-> FALSE, hdr |-> FALSE]]
  /\ Goto(t, "destroy")
  /\ UNCHANGED <<ctx, open, header, calls, shared, mux, viewVars>>

\* The pointers stay in the context, so a second deinit, or one after a failed
\* init, destroys them again.
DestroyAll(t) ==
  /\ At(t, "destroy")
  /\ open' = open \ Held(The(t))
  /\ Return(t)
  /\ UNCHANGED <<ctx, aac, header, calls, shared, mux, viewVars>>

ChannelDeinit(t) == StopMuxer(t) \/ Join(t) \/ CloseAac(t) \/ DestroyAll(t)

\* The next call of a script, whatever became of the calls before it.
CallNext(t) ==
  /\ At(t, "off") /\ calls[t] < Len(Scripts[t])
  /\ LET op == Scripts[t][calls[t] + 1][1]
         ch == Scripts[t][calls[t] + 1][2] IN
       Begin(t, ch, IF op = "init" THEN "check" ELSE "stop")
  /\ UNCHANGED <<ctx, open, aac, header, mux, viewVars>>

(***************************************************************************)
(* flv_muxer_thread                                                        *)
(***************************************************************************)
Go(m, step, what) ==
  mux' = (mux \ {m}) \cup {[m EXCEPT !.at = step, !.what = what]}

\* while (context->start_rtmp): a frame, video or audio, or the end.
TakeFrame(m) ==
  /\ m.at = "top"
  /\ IF ctx[m.ch].start THEN \E kind \in {"video", "audio"} : Go(m, "frame", kind)
                        ELSE mux' = mux \ {m}
  /\ UNCHANGED <<ctx, open, aac, header, callVars, viewVars>>

\* Without a viewer the frame is thrown away.
CheckReference(m) ==
  /\ m.at = "frame"
  /\ IF ctx[m.ch].ref < 1 THEN Go(m, "top", None) ELSE Go(m, m.what, m.what)
  /\ UNCHANGED <<ctx, open, aac, header, callVars, viewVars>>

\* The FLV muxer calls on_flv_packet, which checks start_rtmp.
WriteVideo(m) ==
  /\ m.at = "video"
  /\ IF ctx[m.ch].start THEN Go(m, "push", "video") ELSE Go(m, "top", None)
  /\ UNCHANGED <<ctx, open, aac, header, callVars, viewVars>>

\* The encoder is opened with the first audio frame, and its first packet is
\* the sequence header; a channel that is not started gets no packet.
WriteAudio(m) ==
  /\ m.at = "audio"
  /\ \/ /\ aac' = [aac EXCEPT ![m.ch] =
                     [on |-> TRUE, hdr |-> @.hdr \/ ~ctx[m.ch].start]]
        /\ IF ~ctx[m.ch].start THEN Go(m, "top", None)
           ELSE Go(m, "push", IF aac[m.ch].hdr THEN "raw" ELSE "header")
     \/ /\ "aac" \in Faults /\ ~aac[m.ch].on
        /\ Go(m, "top", None)
        /\ UNCHANGED aac
  /\ UNCHANGED <<ctx, open, header, callVars, viewVars>>

\* The packet is sent, or the connection is lost.  After the header the frame
\* itself is encoded and pushed.
Push(m) ==
  /\ m.at = "push"
  /\ \/ /\ m.what = "header"
        /\ header' = header \cup {ctx[m.ch].client}
        /\ aac' = [aac EXCEPT ![m.ch].hdr = TRUE]
        /\ Go(m, "audio", "audio")
     \/ /\ m.what # "header" \/ "push" \in Faults
        /\ Go(m, "top", None)
        /\ UNCHANGED <<header, aac>>
  /\ UNCHANGED <<ctx, open, callVars, viewVars>>

MuxerThread(m) ==
  TakeFrame(m) \/ CheckReference(m) \/ WriteVideo(m) \/ WriteAudio(m) \/ Push(m)

(***************************************************************************)
(* ms_rtmp_stream_event                                                    *)
(***************************************************************************)
PlayCounting(c, count) ==
  /\ events < MaxEvents /\ viewers[c] < MaxViewers
  /\ events' = events + 1
  /\ viewers' = [viewers EXCEPT ![c] = @ + 1]
  /\ ctx' = [ctx EXCEPT ![c].ref = @ + count]
  /\ UNCHANGED <<open, aac, header, callVars, mux>>
Play(c) == PlayCounting(c, 1)

PlayDone(c) ==
  /\ events < MaxEvents /\ viewers[c] > 0
  /\ events' = events + 1
  /\ viewers' = [viewers EXCEPT ![c] = @ - 1]
  /\ ctx' = [ctx EXCEPT ![c].ref = IF @ > 0 THEN @ - 1 ELSE @]
  /\ UNCHANGED <<open, aac, header, callVars, mux>>

Done ==
  /\ \A t \in Thread : At(t, "off") /\ calls[t] = Len(Scripts[t])
  /\ UNCHANGED vars

Next ==
  \/ \E t \in Thread : CallNext(t) \/ ChannelInit(t) \/ ChannelDeinit(t)
  \/ \E m \in mux : MuxerThread(m)
  \/ \E c \in Named : Play(c) \/ PlayDone(c)
  \/ Done

\* Threads are scheduled, and the server answers or closes the connection.
Fairness ==
  /\ \A t \in Thread : WF_vars(ChannelInit(t)) /\ WF_vars(ChannelDeinit(t))
  /\ \A c \in Channel : WF_vars(\E m \in mux : m.ch = c /\ MuxerThread(m))

Spec == Init /\ [][Next]_vars
FairSpec == Spec /\ Fairness

(***************************************************************************)
(* Properties                                                              *)
(***************************************************************************)
Step == {"off", "check", "clear", "create", "connect", "handshake", "undo",
         "start", "stop", "join", "close", "destroy"}
TypeOK ==
  /\ ctx \in [Channel -> Context]
  /\ open \subseteq Kind \X Id
  /\ aac \in [Channel -> [on : BOOLEAN, hdr : BOOLEAN]]
  /\ header \subseteq Id \cup {None}
  /\ call \in [Thread -> [at : Step, ch : Channel \cup {None},
                         tid : Id \cup {None}, live : BOOLEAN]]
  /\ calls \in [Thread -> Nat]
  /\ shared \subseteq Channel
  /\ mux \subseteq [id : Id, ch : Channel,
                    at : {"top", "frame", "video", "audio", "push"},
                    what : {None, "video", "audio", "header", "raw"}]
  /\ viewers \in [Channel -> Nat]
  /\ events \in Nat

\* No two calls for the channel were ever in progress at once.
Apart(c) == c \notin shared

\* A muxer thread uses the muxer, the socket and the client of its channel
\* only while they exist.
UsesOnlyOpen ==
  \A m \in mux : Apart(m.ch) => LET c == ctx[m.ch] IN
    /\ m.at = "video" => <<"muxer", c.muxer>> \in open
    /\ m.at = "push" => <<"client", c.client>> \in open /\ <<"socket", c.socket>> \in open

\* What a failed init takes back, and what the deinit of a started channel
\* destroys, exists: whatever was opened and closed before, and however often
\* deinit came without an init, neither of them closes anything twice.
Closing(t) ==
  At(t, "undo") \/ (call[t].at \in {"join", "close", "destroy"} /\ call[t].live)
ClosesOnce ==
  \A t \in Thread : Apart(call[t].ch) /\ Closing(t) =>
    \A r \in Held(The(t)) : r[2] # None => r \in open

\* When no call for a channel is in progress, what was made for it and exists
\* is what it uses if it is started, and it has its one muxer thread then:
\* nothing is left behind, of whichever calls that failed or came too often.
For(id) == Scripts[id[1]][id[2]][2]       \* the channel a call was about
InitializedOnce ==
  \A c \in Channel : Apart(c) /\ (\A t \in Thread : call[t].ch # c) =>
    /\ {r \in open : For(r[2]) = c} = IF ctx[c].start THEN Held(ctx[c]) ELSE {}
    /\ {m.id : m \in {n \in mux : n.ch = c}} =
         IF ctx[c].start THEN {ctx[c].tid} ELSE {}

\* A client that is pushed a raw AAC frame has received the sequence header.
HeaderFirst ==
  \A m \in mux : Apart(m.ch) /\ m.at = "push" /\ m.what = "raw" =>
    ctx[m.ch].client \in header

\* As long as somebody watches a started channel its frames are not thrown
\* away, whatever init and the events do in between: the initial reference
\* makes up for the viewers that came before.
WatchedIsFed ==
  \A c \in Channel : Apart(c) /\ ctx[c].start /\ viewers[c] > 0 => ctx[c].ref > 0

\* A call of init or deinit returns.
CallReturns ==
  \A t \in Thread : ~At(t, "off") ~> At(t, "off") \/ ~Apart(call[t].ch)
=============================================================================
