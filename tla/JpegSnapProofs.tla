--------------------------- MODULE JpegSnapProofs ---------------------------
(***************************************************************************)
(* Theorems about JpegSnap, for every set of clients, calls, addresses and *)
(* hardware channels and every choice of the calls that fail.              *)
(***************************************************************************)
EXTENDS JpegSnap, TLAPS

\* The loop variable of a call stays inside the arrays the call indexes.
IndexOK ==
  \A c \in Client :
    /\ callno[c] <= Len(Calls[c])
    /\ cpc[c] # "idle" => callno[c] >= 1
    /\ cpc[c] \in {"publish", "create"} => idx[c] <= Len(Request(c))
    /\ cpc[c] = "create" => Len(ctxs[c]) >= 1
    /\ cpc[c] = "join" => idx[c] <= Len(ctxs[c])

\* A remainder is an index of the pool: (ch + k) % RGA_MAX_CHN_NUM.
LEMMA ModRange ==
  ASSUME NEW x \in Nat, NEW n \in Nat \ {0}
  PROVE  x % n \in 0 .. n - 1
  OBVIOUS

\* Changing an element keeps a sequence a sequence: results[i] = ...
LEMMA SeqExcept ==
  ASSUME NEW S, NEW q \in Seq(S), NEW i, NEW x \in S
  PROVE  [q EXCEPT ![i] = x] \in Seq(S)
<1>1. PICK n \in Nat : q \in [1 .. n -> S]
  BY q \in [1 .. Len(q) -> S], Len(q) \in Nat
<1>2. [q EXCEPT ![i] = x] \in [1 .. n -> S]
  BY <1>1
<1>. QED BY <1>1, <1>2

\* What a call is asked for is a sequence of channel numbers.
LEMMA RequestType ==
  ASSUME SnapAssumption, CallTypeOK, IndexOK, NEW c \in Client, cpc[c] # "idle"
  PROVE  Request(c) \in Seq(Nat)
  BY DEF SnapAssumption, CallTypeOK, IndexOK, Request

\* What a step leaves alone keeps its type.
LEMMA UnchangedTypes ==
  /\ CallTypeOK /\ UNCHANGED callVars => CallTypeOK'
  /\ CtxTypeOK /\ UNCHANGED ctxVars => CtxTypeOK'
  /\ PipeTypeOK /\ UNCHANGED pipeVars => PipeTypeOK'
  /\ CbTypeOK /\ UNCHANGED cbVars => CbTypeOK'
  /\ IndexOK /\ UNCHANGED callVars => IndexOK'
<1>1. CallTypeOK /\ UNCHANGED callVars => CallTypeOK'
  BY DEF CallTypeOK, callVars
<1>2. CtxTypeOK /\ UNCHANGED ctxVars => CtxTypeOK'
  BY DEF CtxTypeOK, ctxVars
<1>3. PipeTypeOK /\ UNCHANGED pipeVars => PipeTypeOK'
  BY DEF PipeTypeOK, pipeVars
<1>4. CbTypeOK /\ UNCHANGED cbVars => CbTypeOK'
  BY DEF CbTypeOK, cbVars
<1>5. IndexOK /\ UNCHANGED callVars => IndexOK'
  BY DEF IndexOK, callVars, Request
<1>. QED BY <1>1, <1>2, <1>3, <1>4, <1>5

\* The static initialisers have the right types.
LEMMA TypeInit == SnapAssumption /\ Init => TypeOK /\ IndexOK
<1> SUFFICES ASSUME SnapAssumption, Init PROVE TypeOK /\ IndexOK
  OBVIOUS
<1>1. CallTypeOK /\ IndexOK
  BY DEF SnapAssumption, Init, CallTypeOK, IndexOK
<1>2. CtxTypeOK
  BY DEF Init, CtxTypeOK
<1>3. PipeTypeOK
  BY DEF SnapAssumption, Init, PipeTypeOK, Steps, VencSteps, Rga
<1>4. CbTypeOK
  BY DEF SnapAssumption, Init, CbTypeOK
<1>5. PastTypeOK
  BY DEF Init, PastTypeOK
<1>. QED BY <1>1, <1>2, <1>3, <1>4, <1>5 DEF TypeOK

\* The types of the program's own variables, without the history.
StateOK == CallTypeOK /\ CtxTypeOK /\ PipeTypeOK /\ CbTypeOK

\* A call starts with arrays of its request's length.
LEMMA TypeCall ==
  ASSUME SnapAssumption, TypeOK, IndexOK, NEW c \in Client, Call(c)
  PROVE  StateOK' /\ IndexOK'
<1> DEFINE channels == Calls[c][callno[c] + 1]
<1>1. channels \in Seq(Nat)
  BY DEF SnapAssumption, TypeOK, CallTypeOK, Call
<1>2. NoPictures(channels) \in Seq(Nat \cup {None})
  BY <1>1 DEF NoPictures
<1>3. CallTypeOK'
  <2>1. results' \in [Client -> Seq(Nat \cup {None})]
    <3>1. <<>> \in Seq(Nat \cup {None})
      OBVIOUS
    <3>2. \E q \in Seq(Nat \cup {None}) : results' = [results EXCEPT ![c] = q]
      BY <1>2, <3>1 DEF Call
    <3>. QED BY <3>2 DEF TypeOK, StateOK, CallTypeOK
  <2>2. ctxs' \in [Client -> Seq(Addr)]
    BY DEF TypeOK, CallTypeOK, Call
  <2>3. callno' \in [Client -> Nat] /\ idx' \in [Client -> Nat \ {0}]
    BY DEF TypeOK, CallTypeOK, Call
  <2>4. mine' = mine
    BY DEF Call
  <2>5. cpc' \in [Client -> {"idle", "publish", "create", "test", "join"}]
    BY DEF TypeOK, CallTypeOK, Call
  <2>. QED BY <2>1, <2>2, <2>3, <2>4, <2>5 DEF TypeOK, StateOK, CallTypeOK
<1>4. CtxTypeOK' /\ PipeTypeOK' /\ CbTypeOK'
  BY UnchangedTypes DEF TypeOK, Call
<1>5. IndexOK'
  <2> SUFFICES ASSUME NEW d \in Client
               PROVE  /\ callno'[d] <= Len(Calls[d])
                      /\ cpc'[d] # "idle" => callno'[d] >= 1
                      /\ cpc'[d] \in {"publish", "create"} =>
                           idx'[d] <= Len(Calls[d][callno'[d]])
                      /\ cpc'[d] = "create" => Len(ctxs'[d]) >= 1
                      /\ cpc'[d] = "join" => idx'[d] <= Len(ctxs'[d])
    BY DEF IndexOK, Request
  <2>1. CASE d = c
    BY <1>1, <2>1 DEF TypeOK, CallTypeOK, IndexOK, Call, SnapAssumption
  <2>2. CASE d # c
    BY <2>2 DEF TypeOK, CallTypeOK, IndexOK, Call, Request
  <2>. QED BY <2>1, <2>2
<1>. QED BY <1>3, <1>4, <1>5 DEF TypeOK, StateOK

\* A call only looks at its own entries: the other calls' indices stand.
LEMMA IndexFrame ==
  ASSUME TypeOK, IndexOK, NEW c \in Client, callno' = callno,
         \A d \in Client \ {c} : /\ cpc'[d] = cpc[d] /\ idx'[d] = idx[d]
                                 /\ ctxs'[d] = ctxs[d],
         cpc'[c] \in {"publish", "create"} => idx'[c] <= Len(Request(c)),
         cpc'[c] = "create" => Len(ctxs'[c]) >= 1,
         cpc'[c] = "join" => idx'[c] <= Len(ctxs'[c]),
         cpc[c] # "idle"
  PROVE  IndexOK'
  BY DEF IndexOK, Request

\* The loop over the channels stays inside the request.
LEMMA NextChannelType ==
  ASSUME TypeOK, IndexOK, NEW c \in Client, callno' = callno,
         cpc[c] \in {"publish", "create"}, NextChannel(c)
  PROVE  /\ idx' \in [Client -> Nat \ {0}]
         /\ cpc' \in [Client -> {"idle", "publish", "create", "test", "join"}]
         /\ cpc'[c] \in {"publish", "test"}
         /\ cpc'[c] = "publish" => idx'[c] <= Len(Request(c))
         /\ \A d \in Client \ {c} : cpc'[d] = cpc[d] /\ idx'[d] = idx[d]
<1>1. Len(Request(c)) \in Nat
  BY RequestType DEF TypeOK
<1>2. idx \in [Client -> Nat \ {0}] /\ idx[c] \in Nat \ {0}
      /\ cpc \in [Client -> {"idle", "publish", "create", "test", "join"}]
  BY DEF TypeOK, CallTypeOK
<1>3. CASE idx[c] < Len(Request(c))
  <2>1. /\ idx' = [idx EXCEPT ![c] = idx[c] + 1]
        /\ cpc' = [cpc EXCEPT ![c] = "publish"]
    BY <1>3 DEF NextChannel
  <2>2. idx'[c] <= Len(Request(c))
    BY <1>1, <1>2, <1>3, <2>1
  <2>. QED BY <1>2, <2>1, <2>2
<1>4. CASE ~(idx[c] < Len(Request(c)))
  <2>1. /\ idx' = [idx EXCEPT ![c] = 1]
        /\ cpc' = [cpc EXCEPT ![c] = "test"]
    BY <1>4 DEF NextChannel
  <2>. QED BY <1>2, <2>1
<1>. QED BY <1>3, <1>4

\* A channel that is passed over changes the loop only.
LEMMA TypeSkip ==
  ASSUME SnapAssumption, TypeOK, IndexOK, NEW c \in Client, SkipChannel(c)
  PROVE  StateOK' /\ IndexOK'
<1>1. CallTypeOK'
  BY NextChannelType DEF TypeOK, CallTypeOK, SkipChannel
<1>2. CtxTypeOK' /\ PipeTypeOK' /\ CbTypeOK'
  BY UnchangedTypes DEF TypeOK, SkipChannel
<1>3. IndexOK'
  BY NextChannelType, IndexFrame DEF SkipChannel
<1>. QED BY <1>1, <1>2, <1>3 DEF TypeOK, StateOK

\* A new context is an address, and its slot an encoder number.
LEMMA TypePublish ==
  ASSUME SnapAssumption, TypeOK, IndexOK, NEW c \in Client, Publish(c)
  PROVE  StateOK' /\ IndexOK'
<1> DEFINE ch == Request(c)[idx[c]]
<1>1. ch \in Nat /\ idx[c] <= Len(Request(c))
  <2>1. cpc[c] = "publish"
    BY DEF Publish, PublishAt
  <2>2. idx[c] <= Len(Request(c)) /\ idx[c] \in Nat \ {0}
    BY <2>1 DEF TypeOK, CallTypeOK, IndexOK
  <2>3. Request(c) \in Seq(Nat)
    BY <2>1, RequestType DEF TypeOK
  <2>. QED BY <2>2, <2>3
<1>2. SNAP_VENC_BASE + ch \in Venc
  BY DEF Publish, PublishAt
<1>3. PICK a \in Addr \ live :
        /\ live' = live \cup {a}
        /\ chan' = [chan EXCEPT ![a] = ch]
        /\ got'  = [got EXCEPT ![a] = FALSE]
        /\ img'  = [img EXCEPT ![a] = None]
        /\ slot' = [slot EXCEPT ![SNAP_VENC_BASE + ch] = a]
        /\ ctxs' = [ctxs EXCEPT ![c] = Append(@, a)]
        /\ shot' = [shot EXCEPT ![a] = 0]
  BY DEF Publish, PublishAt
<1>4. /\ cpc[c] = "publish"
      /\ cpc' = [cpc EXCEPT ![c] = "create"]
      /\ UNCHANGED <<callno, idx, mine, results, pipeVars, cb>>
  BY DEF Publish, PublishAt
<1> HIDE DEF ch
<1>5. CallTypeOK'
  BY <1>3, <1>4 DEF TypeOK, CallTypeOK
<1>6. CtxTypeOK'
  BY <1>1, <1>2, <1>3 DEF TypeOK, CtxTypeOK
<1>7. PipeTypeOK'
  BY <1>4, UnchangedTypes DEF TypeOK
<1>8. CbTypeOK'
  BY <1>3, <1>4 DEF TypeOK, CbTypeOK, Session, SnapAssumption
<1>9. IndexOK'
  <2>1. Len(ctxs'[c]) >= 1
    BY <1>3 DEF TypeOK, CallTypeOK
  <2>2. \A d \in Client \ {c} : /\ cpc'[d] = cpc[d] /\ idx'[d] = idx[d]
                                /\ ctxs'[d] = ctxs[d]
    BY <1>3, <1>4 DEF TypeOK, CallTypeOK
  <2>3. cpc'[c] = "create" /\ idx'[c] = idx[c] /\ callno' = callno
    BY <1>4 DEF TypeOK, CallTypeOK
  <2>. QED BY <1>1, <1>4, <2>1, <2>2, <2>3, IndexFrame
<1>. QED BY <1>5, <1>6, <1>7, <1>8, <1>9 DEF TypeOK, StateOK

\* The context under construction, and the one being joined, are addresses.
LEMMA LastCtx ==
  ASSUME TypeOK, IndexOK, NEW c \in Client, cpc[c] = "create"
  PROVE  Len(ctxs[c]) \in DOMAIN ctxs[c] /\ ctxs[c][Len(ctxs[c])] \in Addr
<1>1. ctxs[c] \in Seq(Addr) /\ Len(ctxs[c]) >= 1
  BY DEF TypeOK, CallTypeOK, IndexOK
<1>. QED BY <1>1

\* The context a call is joining is one of its own.
LEMMA JoinCtx ==
  ASSUME TypeOK, NEW c \in Client, idx[c] <= Len(ctxs[c])
  PROVE  idx[c] \in DOMAIN ctxs[c] /\ ctxs[c][idx[c]] \in Addr
<1>1. ctxs[c] \in Seq(Addr) /\ idx[c] \in Nat \ {0}
  BY DEF TypeOK, CallTypeOK
<1>. QED BY <1>1

\* The outcome of pthread_create, either way.
LEMMA TypeCreate ==
  ASSUME SnapAssumption, TypeOK, IndexOK, NEW c \in Client,
         CreateThread(c) \/ CreateThreadFails(c)
  PROVE  StateOK' /\ IndexOK'
<1> DEFINE a == ctxs[c][Len(ctxs[c])]
<1>1. cpc[c] = "create" /\ callno' = callno /\ NextChannel(c)
  BY DEF CreateThread, CreateThreadFails
<1>2. a \in Addr
  BY <1>1, LastCtx
<1>3. /\ idx' \in [Client -> Nat \ {0}]
      /\ cpc' \in [Client -> {"idle", "publish", "create", "test", "join"}]
      /\ cpc'[c] \in {"publish", "test"}
      /\ cpc'[c] = "publish" => idx'[c] <= Len(Request(c))
      /\ \A d \in Client \ {c} : cpc'[d] = cpc[d] /\ idx'[d] = idx[d]
  BY <1>1, NextChannelType
<1>4. CASE CreateThread(c)
  <2>1. /\ pc' = [pc EXCEPT ![a] = "venc"]
        /\ UNCHANGED <<callno, ctxs, mine, results, ctxVars, try, venc, rga,
                       links, cbVars>>
    BY <1>4 DEF CreateThread, Goto
  <2>2. CallTypeOK'
    BY <1>3, <2>1 DEF TypeOK, CallTypeOK
  <2>3. CtxTypeOK' /\ CbTypeOK'
    BY <2>1, UnchangedTypes DEF TypeOK
  <2>4. PipeTypeOK'
    BY <1>2, <2>1 DEF TypeOK, PipeTypeOK, Steps, Session
  <2>5. IndexOK'
    BY <1>1, <1>3, <2>1, IndexFrame
  <2>. QED BY <2>2, <2>3, <2>4, <2>5 DEF TypeOK, StateOK
<1>5. CASE CreateThreadFails(c)
  <2>1. /\ slot' = [slot EXCEPT ![SNAP_VENC_BASE + chan[a]] = None]
        /\ live' = live \ {a}
        /\ ctxs' = [ctxs EXCEPT ![c] = SubSeq(@, 1, Len(@) - 1)]
        /\ UNCHANGED <<callno, mine, results, chan, got, img, pipeVars, cbVars>>
    BY <1>5 DEF CreateThreadFails
  <2>2. CallTypeOK'
    <3>1. SubSeq(ctxs[c], 1, Len(ctxs[c]) - 1) \in Seq(Addr)
      BY <1>1, LastCtx DEF TypeOK, CallTypeOK
    <3>2. ctxs' \in [Client -> Seq(Addr)]
      BY <2>1, <3>1 DEF TypeOK, CallTypeOK
    <3>. QED BY <1>3, <2>1, <3>2 DEF TypeOK, StateOK, CallTypeOK
  <2>3. CtxTypeOK'
    BY <2>1 DEF TypeOK, CtxTypeOK
  <2>4. PipeTypeOK' /\ CbTypeOK'
    BY <2>1, UnchangedTypes DEF TypeOK
  <2>5. \A d \in Client \ {c} : ctxs'[d] = ctxs[d]
    BY <2>1 DEF TypeOK, CallTypeOK
  <2>6. IndexOK'
    BY <1>1, <1>3, <2>5, IndexFrame
  <2>. QED BY <2>2, <2>3, <2>4, <2>6 DEF TypeOK, StateOK
<1>. QED BY <1>4, <1>5

\* The join loop indexes ctxs and results within their lengths.
LEMMA TypeJoin ==
  ASSUME SnapAssumption, TypeOK, IndexOK, NEW c \in Client,
         Join(c) \/ Collect(c) \/ Return(c)
  PROVE  StateOK' /\ IndexOK'
<1>1. CASE Join(c)
  <2>1. /\ cpc[c] = "test" /\ idx[c] <= Len(ctxs[c])
        /\ mine' = [mine EXCEPT
                      ![c] = slot[SNAP_VENC_BASE + chan[ctxs[c][idx[c]]]]
                               = ctxs[c][idx[c]]]
        /\ cpc' = [cpc EXCEPT ![c] = "join"]
        /\ UNCHANGED <<callno, idx, ctxs, results, ctxVars, pipeVars, cbVars>>
    BY <1>1 DEF Join
  <2>2. CallTypeOK'
    BY <2>1 DEF TypeOK, CallTypeOK
  <2>3. CtxTypeOK' /\ PipeTypeOK' /\ CbTypeOK'
    BY <2>1, UnchangedTypes DEF TypeOK
  <2>4. cpc'[c] = "join" /\ \A d \in Client \ {c} : cpc'[d] = cpc[d]
    BY <2>1 DEF TypeOK, CallTypeOK
  <2>5. IndexOK'
    BY <2>1, <2>4, IndexFrame
  <2>. QED BY <2>2, <2>3, <2>5 DEF TypeOK, StateOK
<1>2. CASE Collect(c)
  <2> DEFINE a == ctxs[c][idx[c]]
  <2>1. /\ cpc[c] = "join"
        /\ slot' = IF mine[c] THEN [slot EXCEPT ![SNAP_VENC_BASE + chan[a]] = None]
                              ELSE slot
        /\ results' = [results EXCEPT ![c][idx[c]] = img[a]]
        /\ live' = live \ {a}
        /\ pc' = [pc EXCEPT ![a] = "none"]
        /\ idx' = [idx EXCEPT ![c] = @ + 1]
        /\ cpc' = [cpc EXCEPT ![c] = "test"]
        /\ UNCHANGED <<callno, ctxs, mine, chan, got, img, try, venc, rga,
                       links, cbVars>>
    BY <1>2 DEF Collect, CollectAs
  <2>2. a \in Addr
    BY <2>1, JoinCtx DEF IndexOK
  <2>3. results' \in [Client -> Seq(Nat \cup {None})]
    <3>1. results[c] \in Seq(Nat \cup {None}) /\ img[a] \in Nat \cup {None}
      BY <2>2 DEF TypeOK, CallTypeOK, CtxTypeOK
    <3>2. [results[c] EXCEPT ![idx[c]] = img[a]] \in Seq(Nat \cup {None})
      BY <3>1, SeqExcept
    <3>3. results' = [results EXCEPT ![c] = [results[c] EXCEPT ![idx[c]] = img[a]]]
      BY <2>1
    <3>. QED BY <3>2, <3>3 DEF TypeOK, StateOK, CallTypeOK
  <2>4. CallTypeOK'
    BY SMTT(30), <2>1, <2>3 DEF TypeOK, CallTypeOK
  <2>5. CtxTypeOK'
    BY <2>1 DEF TypeOK, CtxTypeOK
  <2>6. PipeTypeOK'
    BY <2>1, <2>2 DEF TypeOK, PipeTypeOK, Steps
  <2>7. CbTypeOK'
    BY <2>1, UnchangedTypes DEF TypeOK
  <2>8. /\ cpc'[c] = "test"
        /\ \A d \in Client \ {c} : cpc'[d] = cpc[d] /\ idx'[d] = idx[d]
    BY <2>1 DEF TypeOK, CallTypeOK
  <2>9. IndexOK'
    BY <2>1, <2>8, IndexFrame
  <2>. QED BY <2>4, <2>5, <2>6, <2>7, <2>9 DEF TypeOK, StateOK
<1>3. CASE Return(c)
  <2>1. /\ cpc[c] = "test" /\ cpc' = [cpc EXCEPT ![c] = "idle"]
        /\ UNCHANGED <<callno, idx, ctxs, mine, results, ctxVars, pipeVars, cbVars>>
    BY <1>3 DEF Return
  <2>2. CallTypeOK'
    BY <2>1 DEF TypeOK, CallTypeOK
  <2>3. CtxTypeOK' /\ PipeTypeOK' /\ CbTypeOK'
    BY <2>1, UnchangedTypes DEF TypeOK
  <2>4. cpc'[c] = "idle" /\ \A d \in Client \ {c} : cpc'[d] = cpc[d]
    BY <2>1 DEF TypeOK, CallTypeOK
  <2>5. IndexOK'
    BY <2>1, <2>4, IndexFrame
  <2>. QED BY <2>2, <2>3, <2>5 DEF TypeOK, StateOK
<1>. QED BY <1>1, <1>2, <1>3

\* The pipelines' steps change the pipelines' variables only.
LEMMA TypePipeline ==
  ASSUME SnapAssumption, TypeOK, IndexOK, NEW s \in Session, Pipeline(s)
  PROVE  StateOK' /\ IndexOK'
<1>1. UNCHANGED <<callVars, ctxVars, cbVars>>
  BY DEF Pipeline, CreateVenc, RegisterOutCb, CreateRga, CreateRgaOf, BindIn,
         BindOut, StartRecvFrame, Answered, TimedOut, UnBind,
         DestroyRga, DestroyVenc
<1>2. pc \in [Session -> Steps] /\ try \in [Session -> Rga]
  BY DEF TypeOK, PipeTypeOK
<1>3. venc \in [Venc -> Session \cup {None}]
      /\ rga \in [Rga -> Session \cup {None, Other}]
      /\ links \in [Session -> SUBSET {"in", "out"}]
  BY DEF TypeOK, PipeTypeOK
<1>4. pc' \in [Session -> Steps]
  BY <1>2 DEF Pipeline, CreateVenc, RegisterOutCb, CreateRga, CreateRgaOf,
         BindIn, BindOut, StartRecvFrame, Answered, TimedOut,
         UnBind, DestroyRga, DestroyVenc, Goto, Steps, VencSteps
<1>5. venc' \in [Venc -> Session \cup {None}]
  BY <1>3 DEF Pipeline, CreateVenc, RegisterOutCb, CreateRga, CreateRgaOf,
         BindIn, BindOut, StartRecvFrame, Answered, TimedOut,
         UnBind, DestroyRga, DestroyVenc
<1>6. rga' \in [Rga -> Session \cup {None, Other}]
  <2>1. CASE CreateRga(s)
    <3>1. (\E r : rga' = [rga EXCEPT ![r] = s]) \/ rga' = rga
      BY <2>1, Zenon DEF CreateRga, CreateRgaOf
    <3>. QED BY <1>3, <3>1
  <2>2. CASE DestroyRga(s)
    BY <1>3, <2>2 DEF DestroyRga
  <2>3. CASE ~CreateRga(s) /\ ~DestroyRga(s)
    BY <1>3, <2>3 DEF Pipeline, CreateVenc, RegisterOutCb, BindIn, BindOut,
       StartRecvFrame, Answered, TimedOut, UnBind, DestroyVenc
  <2>. QED BY <2>1, <2>2, <2>3
<1>7. links' \in [Session -> SUBSET {"in", "out"}]
  <2>1. links[s] \subseteq {"in", "out"}
    BY <1>3
  <2>2. CASE BindIn(s) \/ BindOut(s) \/ UnBind(s)
    BY <1>3, <2>1, <2>2 DEF BindIn, BindOut, UnBind
  <2>3. CASE ~(BindIn(s) \/ BindOut(s) \/ UnBind(s))
    <3>1. links' = links
      BY <2>3, Zenon DEF Pipeline, CreateVenc, RegisterOutCb, CreateRga,
         CreateRgaOf, StartRecvFrame, Answered, TimedOut, DestroyRga,
         DestroyVenc
    <3>. QED BY <1>3, <3>1
  <2>. QED BY <2>2, <2>3
<1>8. try' \in [Session -> Rga]
  <2>1. CASE CreateRga(s)
    <3> DEFINE r == (ChanOf(s) + try[s]) % RGA_MAX_CHN_NUM
    <3>1. ChanOf(s) \in Nat
      BY DEF ChanOf, Session, SnapAssumption, TypeOK, CtxTypeOK
    <3>2. try[s] \in Nat /\ RGA_MAX_CHN_NUM \in Nat \ {0}
      BY <1>2 DEF Rga, SnapAssumption
    <3>3. r \in Rga
      <4>1. ChanOf(s) + try[s] \in Nat
        BY <3>1, <3>2
      <4>. QED BY <3>2, <4>1, ModRange DEF Rga
    <3>4. \/ try' = [try EXCEPT ![s] = r]
          \/ /\ try[s] + 1 < RGA_MAX_CHN_NUM
             /\ try' = [try EXCEPT ![s] = try[s] + 1]
          \/ try' = try
      <4>1. CASE try[s] + 1 < RGA_MAX_CHN_NUM
        BY <2>1, <4>1, ZenonT(30) DEF CreateRga, CreateRgaOf
      <4>2. CASE ~(try[s] + 1 < RGA_MAX_CHN_NUM)
        BY <2>1, <4>2, ZenonT(30) DEF CreateRga, CreateRgaOf
      <4>. QED BY <4>1, <4>2
    <3>5. try[s] + 1 < RGA_MAX_CHN_NUM => try[s] + 1 \in Rga
      BY <3>2 DEF Rga
    <3> HIDE DEF r
    <3>. QED BY <1>2, <3>3, <3>4, <3>5
  <2>2. CASE RegisterOutCb(s)
    <3>1. 0 \in Rga
      BY DEF SnapAssumption, Rga
    <3>. QED BY <1>2, <2>2, <3>1 DEF RegisterOutCb
  <2>3. CASE ~CreateRga(s) /\ ~RegisterOutCb(s)
    BY <1>2, <2>3 DEF Pipeline, CreateVenc, BindIn, BindOut,
       StartRecvFrame, Answered, TimedOut, UnBind, DestroyRga, DestroyVenc
  <2>. QED BY <2>1, <2>2, <2>3
<1>9. PipeTypeOK'
  BY <1>4, <1>5, <1>6, <1>7, <1>8 DEF PipeTypeOK
<1>. QED BY <1>1, <1>9, UnchangedTypes DEF TypeOK, StateOK

\* The callbacks, the other users of the RGA and the calls of StartJpeg.
LEMMA TypeOthers ==
  ASSUME SnapAssumption, TypeOK, IndexOK,
         \/ \E s \in Single : StartJpeg(s)
         \/ \E v \in Venc : PacketCb(v) \/ Deliver(v)
         \/ \E r \in OtherRga : OtherUser(r)
         \/ Done
  PROVE  StateOK' /\ IndexOK'
<1>1. CASE \E s \in Single : StartJpeg(s)
  <2>1. PICK s \in Single : StartJpeg(s)
    BY <1>1
  <2>2. UNCHANGED <<callVars, ctxVars, try, venc, rga, links, cb>>
        /\ pc' = [pc EXCEPT ![s] = "venc"] /\ shot' = [shot EXCEPT ![s] = 0]
    BY <2>1 DEF StartJpeg, Goto
  <2>3. PipeTypeOK'
    BY <2>2 DEF TypeOK, PipeTypeOK, Steps
  <2>4. CbTypeOK'
    <3>1. 0 \in 0 .. MaxFrames
      BY DEF SnapAssumption
    <3>. QED BY <2>2, <3>1 DEF TypeOK, StateOK, CbTypeOK
  <2>. QED BY <2>2, <2>3, <2>4, UnchangedTypes DEF TypeOK, StateOK
<1>2. CASE \E v \in Venc : PacketCb(v)
  <2>1. PICK v \in Venc : PacketCb(v)
    BY <1>2
  <2>2. UNCHANGED <<callVars, ctxVars, pipeVars>>
        /\ venc[v] # None /\ shot[venc[v]] < MaxFrames
        /\ shot' = [shot EXCEPT ![venc[v]] = @ + 1]
    BY <2>1 DEF PacketCb
  <2>3. venc[v] \in Session
    BY <2>2 DEF TypeOK, PipeTypeOK
  <2>4. shot' \in [Session -> 0 .. MaxFrames]
    BY <2>2, <2>3 DEF TypeOK, CbTypeOK, SnapAssumption
  <2>5. ChanOf(venc[v]) \in Nat
    BY <2>3 DEF ChanOf, Session, SnapAssumption, TypeOK, CtxTypeOK
  <2>6. cb' \in [Venc -> [ctx : Addr, pic : Nat \cup {None}] \cup {None}]
    <3>1. CASE slot[v] = None
      BY <2>1, <3>1 DEF PacketCb, TypeOK, CbTypeOK
    <3>2. CASE slot[v] # None
      <4>1. slot[v] \in Addr
        BY <3>2 DEF TypeOK, CtxTypeOK
      <4>2. PICK p \in Nat \cup {None} :
              cb' = [cb EXCEPT ![v] = [ctx |-> slot[v], pic |-> p]]
        BY <2>1, <2>5, <3>2 DEF PacketCb
      <4>. QED BY <4>1, <4>2 DEF TypeOK, StateOK, CbTypeOK
    <3>. QED BY <3>1, <3>2
  <2>. QED BY <2>2, <2>4, <2>6, UnchangedTypes DEF TypeOK, StateOK, CbTypeOK
<1>3. CASE \E v \in Venc : Deliver(v)
  <2>1. PICK v \in Venc : Deliver(v)
    BY <1>3
  <2> DEFINE a == cb[v].ctx
  <2>2. /\ cb[v] # None
        /\ cb' = [cb EXCEPT ![v] = None]
        /\ UNCHANGED <<callVars, live, chan, slot, pipeVars, shot>>
        /\ \/ got' = [got EXCEPT ![a] = TRUE] /\ img' = [img EXCEPT ![a] = cb[v].pic]
           \/ got' = got /\ img' = img
    BY <2>1 DEF Deliver
  <2>3. cb[v].pic \in Nat \cup {None}
    BY <2>2 DEF TypeOK, CbTypeOK
  <2>4. CtxTypeOK'
    BY <2>2, <2>3 DEF TypeOK, CtxTypeOK
  <2>5. CbTypeOK'
    BY <2>2 DEF TypeOK, CbTypeOK
  <2>. QED BY <2>2, <2>4, <2>5, UnchangedTypes DEF TypeOK, StateOK
<1>4. CASE \E r \in OtherRga : OtherUser(r)
  <2>1. PICK r \in OtherRga : OtherUser(r)
    BY <1>4
  <2>2. UNCHANGED <<callVars, ctxVars, pc, try, venc, links, cbVars>>
        /\ \E x \in {None, Other} : rga' = [rga EXCEPT ![r] = x]
    BY <2>1 DEF OtherUser
  <2>3. PipeTypeOK'
    BY ZenonT(30), <2>2 DEF TypeOK, PipeTypeOK
  <2>. QED BY <2>2, <2>3, UnchangedTypes DEF TypeOK, StateOK
<1>5. CASE Done
  BY <1>5, UnchangedTypes DEF Done, vars, TypeOK, StateOK
<1>. QED BY <1>1, <1>2, <1>3, <1>4, <1>5

\* A session that begins marks calls of clients only.
LEMMA MarkType ==
  ASSUME PastTypeOK, NEW met \in BOOLEAN, NEW lost, lost \subseteq Client,
         Mark(met, lost), wild' = wild
  PROVE  PastTypeOK'
  BY DEF PastTypeOK, Mark

\* The history keeps its type.
LEMMA PastStep ==
  ASSUME TypeOK, [Next]_vars
  PROVE  PastTypeOK'
<1>0. PastTypeOK
  BY DEF TypeOK
<1>1. ASSUME NEW c \in Client, Call(c) PROVE PastTypeOK'
  BY <1>0, <1>1 DEF Call, PastTypeOK
<1>2. ASSUME NEW c \in Client, Publish(c) PROVE PastTypeOK'
  <2>1. PICK met \in BOOLEAN, lost \in SUBSET Client : Mark(met, lost) /\ wild' = wild
    <3> DEFINE met == clash \/ InUse(SNAP_VENC_BASE + Request(c)[idx[c]])
               lost == IF Len(ctxs[c]) = idx[c] - 1 THEN {} ELSE {c}
    <3>1. Mark(met, lost) /\ wild' = wild
      BY <1>2, Zenon DEF Publish, PublishAt
    <3>2. met \in BOOLEAN /\ lost \subseteq Client
      BY <1>0 DEF PastTypeOK, InUse
    <3> HIDE DEF met, lost
    <3>. QED BY <3>1, <3>2
  <2>. QED BY <1>0, <2>1, MarkType
<1>3. ASSUME NEW s \in Single, StartJpeg(s) PROVE PastTypeOK'
  <2>1. /\ Mark(clash \/ InUse(SNAP_ENCODER_CHANNEL), {}) /\ wild' = wild
        /\ (clash \/ InUse(SNAP_ENCODER_CHANNEL)) \in BOOLEAN
    BY <1>0, <1>3 DEF StartJpeg, PastTypeOK, InUse
  <2>. QED BY <1>0, <2>1, MarkType
<1>4. ASSUME NEW v \in Venc, Deliver(v) PROVE PastTypeOK'
  BY <1>0, <1>4 DEF Deliver, PastTypeOK
<1>5. ASSUME UNCHANGED pastVars PROVE PastTypeOK'
  BY <1>0, <1>5 DEF pastVars, PastTypeOK
<1>6. ASSUME NEW c \in Client, ClientStep(c), ~Publish(c) PROVE UNCHANGED pastVars
  BY <1>6 DEF ClientStep, SkipChannel, CreateThread, CreateThreadFails, Join, Collect,
              CollectAs, Return
<1>7. ASSUME NEW s \in Session, Pipeline(s) PROVE UNCHANGED pastVars
  BY <1>7 DEF Pipeline, CreateVenc, RegisterOutCb, CreateRga, CreateRgaOf, BindIn, BindOut,
              StartRecvFrame, Answered, TimedOut, UnBind, DestroyRga, DestroyVenc
<1>8. /\ \A v \in Venc : PacketCb(v) => UNCHANGED pastVars
      /\ \A r \in OtherRga : OtherUser(r) => UNCHANGED pastVars
      /\ Done \/ UNCHANGED vars => UNCHANGED pastVars
  BY DEF PacketCb, OtherUser, Done, vars
<1>. QED BY <1>1, <1>2, <1>3, <1>4, <1>5, <1>6, <1>7, <1>8 DEF Next

\* Every step keeps every type.
LEMMA TypeStep ==
  ASSUME SnapAssumption, TypeOK, IndexOK, [Next]_vars
  PROVE  TypeOK' /\ IndexOK'
<1>1. UNCHANGED vars => StateOK' /\ IndexOK'
  BY UnchangedTypes DEF vars, TypeOK, StateOK
<1>2. Next => StateOK' /\ IndexOK'
  <2>1. ASSUME NEW c \in Client, Call(c) \/ ClientStep(c)
        PROVE  StateOK' /\ IndexOK'
    BY <2>1, TypeCall, TypeSkip, TypePublish, TypeCreate, TypeJoin
       DEF ClientStep
  <2>. QED BY <2>1, TypePipeline, TypeOthers DEF Next
<1>. QED BY <1>1, <1>2, PastStep DEF TypeOK, StateOK

\* Every variable keeps its type, whatever fails; in particular a call never
\* indexes ctxs, results or the channel list outside their bounds, and
\* create_rga_round_robin never tries more than RGA_MAX_CHN_NUM channels.
THEOREM TypeCorrect == Spec => [](TypeOK /\ IndexOK)
<1>1. Init => TypeOK /\ IndexOK
  BY SnapAssumption, TypeInit
<1>2. TypeOK /\ IndexOK /\ [Next]_vars => (TypeOK /\ IndexOK)'
  BY SnapAssumption, TypeStep
<1>. QED BY <1>1, <1>2, PTL DEF Spec

(***************************************************************************)
(* The life of a context, which a call owns (Owns) from its creation until *)
(* it collects it.                                                         *)
(***************************************************************************)
\* The table is well kept: an entry is a live context in its own slot.
SlotHome ==
  \A v \in Venc : slot[v] # None =>
    slot[v] \in live /\ v = SNAP_VENC_BASE + chan[slot[v]]

\* The test of the slot does not go stale: a context that was overwritten
\* never comes back into the table.
NotMineStays ==
  \A c \in Client : cpc[c] = "join" /\ ~mine[c] =>
    \A v \in Venc : slot[v] # ctxs[c][idx[c]]

\* Owned contexts are live, and no context is owned twice.
OwnedLive ==
  \A c \in Client : \A k \in Nat : Owns(c, k) => ctxs[c][k] \in live
OwnedOnce ==
  \A c, d \in Client : \A k, l \in Nat :
    Owns(c, k) /\ Owns(d, l) /\ ctxs[c][k] = ctxs[d][l] => c = d /\ k = l

\* The slots' and the contexts' invariant.
SlotInv == SlotHome /\ NotMineStays /\ OwnedLive /\ OwnedOnce

\* At the start no context exists.
LEMMA SlotInit == Init => SlotInv
  BY DEF Init, SlotInv, SlotHome, NotMineStays, OwnedLive, OwnedOnce, Owns

\* A step of call c that leaves the contexts alone and takes on no new one.
LEMMA SlotFrame ==
  ASSUME SlotInv, NEW c \in Client, UNCHANGED <<live, chan, slot>>,
         \A d \in Client \ {c} : /\ cpc'[d] = cpc[d] /\ idx'[d] = idx[d]
                                 /\ ctxs'[d] = ctxs[d] /\ mine'[d] = mine[d],
         \A k \in Nat : Owns(c, k)' => Owns(c, k) /\ ctxs'[c] = ctxs[c],
         cpc'[c] # "join"
  PROVE  SlotInv'
<1>1. \A d \in Client : \A k \in Nat :
        Owns(d, k)' => Owns(d, k) /\ ctxs'[d] = ctxs[d]
  BY DEF Owns
<1>2. SlotHome' /\ NotMineStays'
  BY DEF SlotInv, SlotHome, NotMineStays
<1>3. OwnedLive' /\ OwnedOnce'
  BY <1>1 DEF SlotInv, OwnedLive, OwnedOnce
<1>. QED BY <1>2, <1>3 DEF SlotInv

\* A call that starts owns no context yet.
LEMMA SlotCall ==
  ASSUME TypeOK, SlotInv, NEW c \in Client, Call(c)
  PROVE  SlotInv'
<1>1. /\ UNCHANGED <<live, chan, slot, mine>>
      /\ ctxs' = [ctxs EXCEPT ![c] = <<>>]
      /\ idx' = [idx EXCEPT ![c] = 1]
      /\ cpc[c] = "idle"
      /\ cpc' = [cpc EXCEPT ![c] = "publish"] \/ cpc' = cpc
  BY DEF Call, ctxVars
<1>2. cpc'[c] # "join" /\ ctxs'[c] = <<>>
  BY <1>1 DEF TypeOK, CallTypeOK
<1>3. \A d \in Client \ {c} : /\ cpc'[d] = cpc[d] /\ idx'[d] = idx[d]
                              /\ ctxs'[d] = ctxs[d] /\ mine'[d] = mine[d]
  BY <1>1 DEF TypeOK, CallTypeOK
<1>4. \A k \in Nat : ~Owns(c, k)'
  BY <1>2 DEF Owns
<1>. QED BY <1>1, <1>2, <1>3, <1>4, SlotFrame

\* Moving on to the next channel changes nothing a call owns.
LEMMA NextChannelOwns ==
  ASSUME TypeOK, NEW c \in Client, NextChannel(c),
         cpc[c] \in {"publish", "create"}
  PROVE  /\ cpc'[c] \in {"publish", "test"}
         /\ cpc'[c] = "test" => idx'[c] = 1
         /\ \A d \in Client \ {c} : cpc'[d] = cpc[d] /\ idx'[d] = idx[d]
  BY DEF NextChannel, TypeOK, CallTypeOK

\* Passing over a channel, creating a thread and returning change no ownership.
LEMMA SlotMove ==
  ASSUME TypeOK, SlotInv, NEW c \in Client,
         SkipChannel(c) \/ CreateThread(c) \/ Return(c)
  PROVE  SlotInv'
<1>1. UNCHANGED <<live, chan, slot, mine, ctxs>>
  BY DEF SkipChannel, CreateThread, Return, ctxVars
<1>2. /\ cpc'[c] # "join"
      /\ \A d \in Client \ {c} : cpc'[d] = cpc[d] /\ idx'[d] = idx[d]
  BY NextChannelOwns DEF SkipChannel, CreateThread, Return, TypeOK, CallTypeOK
<1>3. \A k \in Nat : Owns(c, k)' => Owns(c, k)
  BY <1>1, NextChannelOwns
     DEF Owns, SkipChannel, CreateThread, Return, TypeOK, CallTypeOK
<1>. QED BY <1>1, <1>2, <1>3, SlotFrame

\* Steps of pipelines and callbacks do not touch the table.
LEMMA SlotOthers ==
  ASSUME SlotInv, UNCHANGED <<callVars, live, chan, slot>>
  PROVE  SlotInv'
<1>1. \A c \in Client : \A k \in Nat : Owns(c, k)' = Owns(c, k)
  BY DEF Owns, callVars
<1>2. SlotHome' /\ NotMineStays'
  BY DEF SlotInv, SlotHome, NotMineStays, callVars
<1>3. OwnedLive' /\ OwnedOnce'
  BY <1>1 DEF SlotInv, OwnedLive, OwnedOnce, callVars
<1>. QED BY <1>2, <1>3 DEF SlotInv

\* The other steps touch neither the calls nor the contexts' life.
LEMMA OtherSteps ==
  /\ \A s \in Session : Pipeline(s) \/ StartJpeg(s) =>
       UNCHANGED <<callVars, live, chan, slot>>
  /\ \A v \in Venc : PacketCb(v) \/ Deliver(v) =>
       UNCHANGED <<callVars, live, chan, slot>>
  /\ \A r \in OtherRga : OtherUser(r) => UNCHANGED <<callVars, live, chan, slot>>
<1>1. \A s \in Session : Pipeline(s) \/ StartJpeg(s) =>
        UNCHANGED <<callVars, live, chan, slot>>
  BY DEF Pipeline, StartJpeg, CreateVenc, RegisterOutCb, CreateRga,
         CreateRgaOf, BindIn, BindOut, StartRecvFrame, Answered,
         TimedOut, UnBind, DestroyRga, DestroyVenc, ctxVars
<1>2. \A v \in Venc : PacketCb(v) \/ Deliver(v) =>
        UNCHANGED <<callVars, live, chan, slot>>
  BY DEF PacketCb, Deliver, ctxVars
<1>3. \A r \in OtherRga : OtherUser(r) => UNCHANGED <<callVars, live, chan, slot>>
  BY DEF OtherUser, ctxVars
<1>. QED BY <1>1, <1>2, <1>3

\* A new context is in nobody's hands and in no slot before it is published.
LEMMA SlotPublish ==
  ASSUME TypeOK, IndexOK, SlotInv, NEW c \in Client, Publish(c)
  PROVE  SlotInv'
<1> DEFINE v == SNAP_VENC_BASE + Request(c)[idx[c]]
           n == Len(ctxs[c]) + 1
<1>1. PICK a \in Addr \ live :
        /\ live' = live \cup {a}
        /\ chan' = [chan EXCEPT ![a] = Request(c)[idx[c]]]
        /\ slot' = [slot EXCEPT ![v] = a]
        /\ ctxs' = [ctxs EXCEPT ![c] = Append(@, a)]
  BY DEF Publish, PublishAt
<1>2. /\ cpc[c] = "publish" /\ v \in Venc
      /\ cpc' = [cpc EXCEPT ![c] = "create"]
      /\ UNCHANGED <<idx, mine>>
  BY DEF Publish, PublishAt
<1>3. n \in Nat /\ Len(ctxs'[c]) = n /\ ctxs'[c][n] = a
      /\ \A k \in 1 .. n - 1 : ctxs'[c][k] = ctxs[c][k]
  BY <1>1 DEF TypeOK, CallTypeOK
<1>4. cpc'[c] = "create" /\ \A d \in Client \ {c} :
        /\ cpc'[d] = cpc[d] /\ idx'[d] = idx[d]
        /\ ctxs'[d] = ctxs[d] /\ mine'[d] = mine[d]
  BY <1>1, <1>2 DEF TypeOK, CallTypeOK
<1>5. \A d \in Client : \A k \in Nat : Owns(d, k)' =>
        \/ Owns(d, k) /\ ctxs'[d][k] = ctxs[d][k]
        \/ d = c /\ k = n /\ ctxs'[d][k] = a
  BY <1>2, <1>3, <1>4 DEF Owns
<1>6. SlotHome'
  <2> SUFFICES ASSUME NEW u \in Venc, slot'[u] # None
               PROVE  slot'[u] \in live' /\ u = SNAP_VENC_BASE + chan'[slot'[u]]
    BY DEF SlotHome
  <2>1. CASE u = v
    BY <1>1, <1>2, <2>1 DEF TypeOK, CtxTypeOK
  <2>2. CASE u # v
    <3>1. slot'[u] = slot[u] /\ slot[u] \in live
      BY <1>1, <2>2 DEF TypeOK, CtxTypeOK, SlotInv, SlotHome
    <3>2. slot[u] # a /\ chan'[slot[u]] = chan[slot[u]]
      BY <1>1, <3>1 DEF TypeOK, CtxTypeOK
    <3>. QED BY <1>1, <3>1, <3>2 DEF SlotInv, SlotHome
  <2>. QED BY <2>1, <2>2
<1>7. NotMineStays'
  <2> SUFFICES ASSUME NEW d \in Client, cpc'[d] = "join", ~mine'[d],
                      NEW u \in Venc
               PROVE  slot'[u] # ctxs'[d][idx'[d]]
    BY DEF NotMineStays
  <2>1. d # c /\ cpc[d] = "join" /\ ~mine[d]
        /\ ctxs'[d][idx'[d]] = ctxs[d][idx[d]]
    BY <1>4
  <2>2. slot[u] # ctxs[d][idx[d]]
    BY <2>1 DEF SlotInv, NotMineStays
  <2>3. Owns(d, idx[d]) /\ idx[d] \in Nat
    BY <2>1 DEF Owns, TypeOK, CallTypeOK, IndexOK
  <2>4. ctxs[d][idx[d]] \in live
    BY <2>3 DEF SlotInv, OwnedLive
  <2>. QED BY <1>1, <2>1, <2>2, <2>4 DEF TypeOK, CtxTypeOK
<1>8. live' = live \cup {a} /\ a \notin live
  BY <1>1
<1> HIDE DEF n
<1>9. OwnedLive'
  <2> SUFFICES ASSUME NEW d \in Client, NEW k \in Nat, Owns(d, k)'
               PROVE  ctxs'[d][k] \in live'
    BY DEF OwnedLive
  <2>. QED BY <1>5, <1>8 DEF SlotInv, OwnedLive
<1>10. OwnedOnce'
  <2> SUFFICES ASSUME NEW d \in Client, NEW e \in Client,
                      NEW k \in Nat, NEW l \in Nat,
                      Owns(d, k)', Owns(e, l)', ctxs'[d][k] = ctxs'[e][l]
               PROVE  d = e /\ k = l
    BY DEF OwnedOnce
  <2>1. /\ Owns(d, k) => ctxs[d][k] \in live
        /\ Owns(e, l) => ctxs[e][l] \in live
    BY DEF SlotInv, OwnedLive
  <2>. QED BY <1>5, <1>8, <2>1 DEF SlotInv, OwnedOnce
<1>. QED BY <1>6, <1>7, <1>9, <1>10 DEF SlotInv

\* A call drops the context a: it leaves the table, and its owner lets go.
LEMMA SlotRelease ==
  ASSUME TypeOK, IndexOK, SlotInv, NEW c \in Client, NEW n \in Nat,
         Owns(c, n), NEW a, a = ctxs[c][n],
         live' = live \ {a}, chan' = chan,
         \A v \in Venc : slot'[v] \in {slot[v], None} /\ slot'[v] # a,
         cpc'[c] # "join",
         \A d \in Client \ {c} : /\ cpc'[d] = cpc[d] /\ idx'[d] = idx[d]
                                 /\ ctxs'[d] = ctxs[d] /\ mine'[d] = mine[d],
         \A k \in Nat : Owns(c, k)' =>
           Owns(c, k) /\ k # n /\ ctxs'[c][k] = ctxs[c][k]
  PROVE  SlotInv'
<1>1. \A d \in Client : \A k \in Nat : Owns(d, k)' =>
        /\ Owns(d, k) /\ ctxs'[d][k] = ctxs[d][k]
        /\ ~(d = c /\ k = n)
  BY DEF Owns
<1>2. SlotHome'
  BY DEF SlotInv, SlotHome
<1>3. NotMineStays'
  <2> SUFFICES ASSUME NEW d \in Client, cpc'[d] = "join", ~mine'[d],
                      NEW u \in Venc
               PROVE  slot'[u] # ctxs'[d][idx'[d]]
    BY DEF NotMineStays
  <2>1. d # c /\ cpc[d] = "join" /\ ~mine[d]
        /\ ctxs'[d][idx'[d]] = ctxs[d][idx[d]]
    OBVIOUS
  <2>2. slot[u] # ctxs[d][idx[d]]
    BY <2>1 DEF SlotInv, NotMineStays
  <2>3. ctxs[d][idx[d]] \in Addr
    BY <2>1, JoinCtx DEF IndexOK
  <2>4. None \notin Addr
    BY SnapAssumption DEF SnapAssumption
  <2>. QED BY <2>1, <2>2, <2>3, <2>4
<1>4. OwnedLive'
  <2> SUFFICES ASSUME NEW d \in Client, NEW k \in Nat, Owns(d, k)'
               PROVE  ctxs'[d][k] \in live'
    BY DEF OwnedLive
  <2>1. ctxs[d][k] \in live
    BY <1>1 DEF SlotInv, OwnedLive
  <2>2. ctxs[d][k] # a
    BY <1>1 DEF SlotInv, OwnedOnce
  <2>. QED BY <1>1, <2>1, <2>2
<1>5. OwnedOnce'
  BY <1>1 DEF SlotInv, OwnedOnce
<1>. QED BY <1>2, <1>3, <1>4, <1>5 DEF SlotInv

\* pthread_create fails: the entry is emptied whoever it holds, so in
\* particular if it holds the context that is freed.
LEMMA SlotThreadFails ==
  ASSUME TypeOK, IndexOK, SlotInv, NEW c \in Client, CreateThreadFails(c)
  PROVE  SlotInv'
<1> DEFINE n == Len(ctxs[c])
           a == ctxs[c][n]
<1>1. /\ cpc[c] = "create"
      /\ slot' = [slot EXCEPT ![SNAP_VENC_BASE + chan[a]] = None]
      /\ live' = live \ {a}
      /\ ctxs' = [ctxs EXCEPT ![c] = SubSeq(@, 1, Len(@) - 1)]
      /\ chan' = chan /\ mine' = mine /\ NextChannel(c)
  BY DEF CreateThreadFails
<1>2. n \in 1 .. Len(ctxs[c]) /\ n \in Nat /\ a \in Addr
  BY <1>1, LastCtx DEF TypeOK, CallTypeOK
<1>3. Owns(c, n)
  BY <1>1, <1>2 DEF Owns
<1>4. /\ cpc'[c] \in {"publish", "test"}
      /\ \A d \in Client \ {c} : cpc'[d] = cpc[d] /\ idx'[d] = idx[d]
  BY <1>1, NextChannelOwns
<1>5. \A v \in Venc : slot'[v] \in {slot[v], None} /\ slot'[v] # a
  <2>1. None \notin Addr
    BY SnapAssumption DEF SnapAssumption
  <2>. QED BY <1>1, <1>2, <2>1 DEF SlotInv, SlotHome, TypeOK, CtxTypeOK
<1>6. /\ Len(ctxs'[c]) = n - 1
      /\ \A k \in 1 .. n - 1 : ctxs'[c][k] = ctxs[c][k]
  <2>1. ctxs[c] \in Seq(Addr) /\ ctxs'[c] = SubSeq(ctxs[c], 1, n - 1)
    BY <1>1 DEF TypeOK, CallTypeOK
  <2>2. n \in Nat /\ n >= 1
    BY <1>2
  <2> HIDE DEF n
  <2>. QED BY <2>1, <2>2, n = Len(ctxs[c]) DEF n
<1>7. \A k \in Nat : Owns(c, k)' =>
        Owns(c, k) /\ k # n /\ ctxs'[c][k] = ctxs[c][k]
  BY <1>1, <1>2, <1>6 DEF Owns
<1>8. \A d \in Client \ {c} : ctxs'[d] = ctxs[d]
  BY <1>1 DEF TypeOK, CallTypeOK
<1> HIDE DEF n, a
<1>9. a = ctxs[c][n]
  BY DEF a
<1>10. n \in Nat /\ live' = live \ {a} /\ chan' = chan
  BY <1>1, <1>2
<1>11. \A d \in Client \ {c} : /\ cpc'[d] = cpc[d] /\ idx'[d] = idx[d]
                               /\ ctxs'[d] = ctxs[d] /\ mine'[d] = mine[d]
  BY <1>1, <1>4, <1>8
<1>12. cpc'[c] # "join"
  BY <1>4
<1>. QED BY <1>3, <1>5, <1>7, <1>9, <1>10, <1>11, <1>12, SlotRelease

\* The test of the slot, before it is cleared.
LEMMA SlotJoin ==
  ASSUME TypeOK, SlotInv, NEW c \in Client, Join(c)
  PROVE  SlotInv'
<1> DEFINE a == ctxs[c][idx[c]]
<1>1. /\ cpc[c] = "test" /\ cpc' = [cpc EXCEPT ![c] = "join"]
      /\ mine' = [mine EXCEPT ![c] = slot[SNAP_VENC_BASE + chan[a]] = a]
      /\ UNCHANGED <<idx, ctxs, live, chan, slot>>
      /\ idx[c] <= Len(ctxs[c])
  BY DEF Join, ctxVars
<1>2. a \in Addr
  BY <1>1, JoinCtx
<1>3. \A d \in Client \ {c} : cpc'[d] = cpc[d] /\ mine'[d] = mine[d]
  BY <1>1 DEF TypeOK, CallTypeOK
<1>4. ~mine'[c] => \A v \in Venc : slot[v] # a
  <2>1. None \notin Addr
    BY SnapAssumption DEF SnapAssumption
  <2>2. mine'[c] = (slot[SNAP_VENC_BASE + chan[a]] = a)
    BY <1>1, Zenon DEF TypeOK, CallTypeOK
  <2> HIDE DEF a
  <2>. QED BY <1>2, <2>1, <2>2 DEF SlotInv, SlotHome
<1>5. \A d \in Client : \A k \in Nat : Owns(d, k)' => Owns(d, k)
  BY <1>1 DEF Owns, TypeOK, CallTypeOK
<1>6. SlotHome' /\ OwnedLive' /\ OwnedOnce'
  BY <1>1, <1>5 DEF SlotInv, SlotHome, OwnedLive, OwnedOnce
<1>7. NotMineStays'
  BY <1>1, <1>3, <1>4 DEF SlotInv, NotMineStays
<1>. QED BY <1>6, <1>7 DEF SlotInv

\* A call that drops a context after the join leaves no slot with it.
LEMMA SlotCollect ==
  ASSUME TypeOK, IndexOK, SlotInv, NEW c \in Client, Collect(c)
  PROVE  SlotInv'
<1> DEFINE n == idx[c]
           a == ctxs[c][n]
<1>1. /\ cpc[c] = "join"
      /\ slot' = IF mine[c] THEN [slot EXCEPT ![SNAP_VENC_BASE + chan[a]] = None]
                            ELSE slot
      /\ live' = live \ {a}
      /\ idx' = [idx EXCEPT ![c] = @ + 1]
      /\ cpc' = [cpc EXCEPT ![c] = "test"]
      /\ UNCHANGED <<ctxs, mine, chan>>
  BY DEF Collect, CollectAs
<1>2. n \in 1 .. Len(ctxs[c]) /\ n \in Nat /\ a \in Addr
  BY <1>1, JoinCtx DEF TypeOK, CallTypeOK, IndexOK
<1>3. Owns(c, n)
  BY <1>1, <1>2 DEF Owns
<1>4. \A v \in Venc : slot'[v] \in {slot[v], None} /\ slot'[v] # a
  <2>1. None \notin Addr
    BY SnapAssumption DEF SnapAssumption
  <2>2. CASE mine[c]
    BY <1>1, <1>2, <2>1, <2>2 DEF SlotInv, SlotHome, TypeOK, CtxTypeOK
  <2>3. CASE ~mine[c]
    BY <1>1, <2>3 DEF SlotInv, NotMineStays
  <2>. QED BY <2>2, <2>3
<1>5. cpc'[c] = "test" /\ idx'[c] = n + 1
      /\ \A d \in Client \ {c} : cpc'[d] = cpc[d] /\ idx'[d] = idx[d]
  BY <1>1 DEF TypeOK, CallTypeOK
<1>6. \A k \in Nat : Owns(c, k)' => Owns(c, k) /\ k # n
  BY <1>1, <1>2, <1>5 DEF Owns
<1> HIDE DEF n, a
<1>7. a = ctxs[c][n]
  BY DEF a
<1>. QED BY <1>1, <1>2, <1>3, <1>4, <1>5, <1>6, <1>7, SlotRelease

\* Every step keeps the ownership of contexts and slots.
LEMMA SlotStep ==
  ASSUME TypeOK, IndexOK, SlotInv, [Next]_vars
  PROVE  SlotInv'
<1>1. CASE UNCHANGED vars
  BY <1>1, SlotOthers DEF vars, ctxVars
<1>2. ASSUME NEW c \in Client, Call(c) \/ ClientStep(c)
      PROVE  SlotInv'
  BY <1>2, SlotCall, SlotMove, SlotPublish, SlotThreadFails, SlotJoin,
     SlotCollect DEF ClientStep
<1>3. CASE Done
  BY <1>3, SlotOthers DEF Done, vars, ctxVars
<1>4. ASSUME UNCHANGED <<callVars, live, chan, slot>>
      PROVE  SlotInv'
  BY <1>4, SlotOthers
<1>. QED BY <1>1, <1>2, <1>3, <1>4, OtherSteps DEF Next, Session

\* g_ctx_by_venc never holds a freed context, for any number of calls that
\* overlap on any channels.
THEOREM SlotCorrect == Spec => []SlotNeverDangling
<1>1. Init => SlotInv
  BY SlotInit
<1>2. TypeOK /\ IndexOK /\ SlotInv /\ [Next]_vars => SlotInv'
  BY SlotStep
<1>3. SlotInv => SlotNeverDangling
  BY DEF SlotInv, SlotHome, SlotNeverDangling
<1>. QED BY <1>1, <1>2, <1>3, TypeCorrect, PTL DEF Spec
=============================================================================
