--------------------------- MODULE JpegPipeProofs ---------------------------
(***************************************************************************)
(* The pipelines and the callbacks of JpegSnap, on top of the contexts'    *)
(* life (JpegSnapProofs).  What the hardware promises holds however the    *)
(* calls overlap.  What the callbacks promise holds for the calls that no  *)
(* clash, two sessions that use one encoder at once, has met; that a call  *)
(* met one is part of the state (clash, void), not an assumption about the *)
(* clients.  For the other calls the engine implements SnapService.        *)
(***************************************************************************)
EXTENDS JpegSnapProofs

(***************************************************************************)
(* The hardware.  A session that has created an encoder or an RGA channel  *)
(* holds it until its own teardown destroys it.                            *)
(***************************************************************************)
\* The thread of a context lives while the context does: it starts after the context
\* was published and has ended when its call frees it.
Alive == \A a \in Addr : pc[a] # "none" => a \in live
Placed == \A s \in Session : pc[s] # "none" => VencOf(s) \in Venc
Unstarted ==
  \A c \in Client : cpc[c] = "create" =>
    LET a == ctxs[c][Len(ctxs[c])] IN
      pc[a] = "none" /\ SNAP_VENC_BASE + chan[a] \in Venc
Ended == \A c \in Client : cpc[c] = "join" => pc[ctxs[c][idx[c]]] = "exit"
ThreadLife == Alive /\ Placed /\ Unstarted /\ Ended

\* Who owns a channel is where the pipeline says that it does, and is bound as far as
\* it has come.
Encoders ==
  \A v \in Venc, s \in Session :
    venc[v] = s <=> pc[s] \in VencSteps /\ VencOf(s) = v
Scalers ==
  \A r \in Rga, s \in Session : rga[r] = s <=> pc[s] \in RgaSteps /\ try[s] = r
Bound ==
  \A s \in Session :
    /\ "out" \in links[s] => pc[s] \in {"recv", "wait", "unbindOut"}
    /\ "in" \in links[s] =>
         pc[s] \in {"bindOut", "recv", "wait", "unbindOut", "unbindIn"}
Holding == Encoders /\ Scalers /\ Bound

\* The hardware's invariant.
PipeInv == ThreadLife /\ Holding

\* At the start nothing runs and nothing is created.
LEMMA PipeInit == SnapAssumption /\ Init => PipeInv
<1> SUFFICES ASSUME SnapAssumption, Init PROVE PipeInv
  OBVIOUS
<1>1. \A s \in Session : s # None /\ pc[s] = "none" /\ links[s] = {}
  BY DEF Init, SnapAssumption, Session
<1>2. ThreadLife
  BY <1>1 DEF Init, ThreadLife, Alive, Placed, Unstarted, Ended, Session
<1>3. Holding
  BY <1>1 DEF Init, Holding, Encoders, Scalers, Bound, VencSteps, RgaSteps
<1>. QED BY <1>2, <1>3 DEF PipeInv

\* The hardware stays with its owners in a step that moves no pipeline.
LEMMA HoldFrame ==
  ASSUME Holding, UNCHANGED <<try, venc, rga, links>>,
         \A s \in Session : \/ pc'[s] = pc[s] /\ VencOf(s)' = VencOf(s)
                            \/ /\ pc'[s] \in {"none", "venc", "exit"}
                               /\ pc[s] \in {"none", "venc", "exit"}
  PROVE  Holding'
<1>1. \A s \in Session :
        /\ pc'[s] \in VencSteps <=> pc[s] \in VencSteps
        /\ pc'[s] \in RgaSteps <=> pc[s] \in RgaSteps
        /\ pc'[s] \in VencSteps => VencOf(s)' = VencOf(s)
  BY DEF VencSteps, RgaSteps
<1>2. Encoders' /\ Scalers'
  BY <1>1 DEF Holding, Encoders, Scalers
<1>3. Bound'
  BY DEF Holding, Bound
<1>. QED BY <1>2, <1>3 DEF Holding

\* A step of call c that changes neither threads nor contexts.
LEMMA LifeFrame ==
  ASSUME ThreadLife, UNCHANGED <<live, chan, pc>>,
         \A d \in Client : cpc'[d] \in {"create", "join"} =>
           cpc'[d] = cpc[d] /\ ctxs'[d] = ctxs[d] /\ idx'[d] = idx[d]
  PROVE  ThreadLife'
<1>1. Alive' /\ Placed'
  BY DEF ThreadLife, Alive, Placed, VencOf
<1>2. Unstarted' /\ Ended'
  BY DEF ThreadLife, Unstarted, Ended
<1>. QED BY <1>1, <1>2 DEF ThreadLife

\* The steps of a call outside the life of its threads.
LEMMA PipeMove ==
  ASSUME TypeOK, PipeInv, NEW c \in Client,
         Call(c) \/ SkipChannel(c) \/ Return(c)
  PROVE  PipeInv'
<1>1. UNCHANGED <<live, chan, pc, try, venc, rga, links>>
  BY DEF Call, SkipChannel, Return, ctxVars, pipeVars
<1>2. \A d \in Client : cpc'[d] \in {"create", "join"} =>
        cpc'[d] = cpc[d] /\ ctxs'[d] = ctxs[d] /\ idx'[d] = idx[d]
  <2>1. CASE Call(c)
    BY <2>1 DEF Call, TypeOK, CallTypeOK
  <2>2. CASE SkipChannel(c)
    BY <2>2, NextChannelOwns DEF SkipChannel, TypeOK, CallTypeOK
  <2>3. CASE Return(c)
    BY <2>3 DEF Return, TypeOK, CallTypeOK
  <2>. QED BY <2>1, <2>2, <2>3
<1>3. ThreadLife'
  BY <1>1, <1>2, LifeFrame DEF PipeInv
<1>4. Holding'
  BY <1>1, HoldFrame DEF PipeInv, VencOf
<1>. QED BY <1>3, <1>4 DEF PipeInv

\* A context that is published is not a session yet.
LEMMA PipePublish ==
  ASSUME TypeOK, IndexOK, PipeInv, NEW c \in Client, Publish(c)
  PROVE  PipeInv'
<1> DEFINE v == SNAP_VENC_BASE + Request(c)[idx[c]]
<1>1. PICK a \in Addr \ live :
        /\ live' = live \cup {a}
        /\ chan' = [chan EXCEPT ![a] = Request(c)[idx[c]]]
        /\ ctxs' = [ctxs EXCEPT ![c] = Append(@, a)]
  BY DEF Publish, PublishAt
<1>2. /\ v \in Venc /\ cpc' = [cpc EXCEPT ![c] = "create"]
      /\ UNCHANGED <<idx, pc, try, venc, rga, links>>
  BY DEF Publish, PublishAt, pipeVars
<1>3. pc[a] = "none"
  BY DEF PipeInv, ThreadLife, Alive
<1>4. \A s \in Session : pc[s] # "none" => VencOf(s)' = VencOf(s)
  BY <1>1, <1>3 DEF VencOf, Session, TypeOK, CtxTypeOK
<1>5. ctxs'[c][Len(ctxs'[c])] = a /\ SNAP_VENC_BASE + chan'[a] = v
  BY <1>1 DEF TypeOK, CallTypeOK, CtxTypeOK
<1>6. \A d \in Client \ {c} : cpc'[d] = cpc[d] /\ ctxs'[d] = ctxs[d]
  BY <1>1, <1>2 DEF TypeOK, CallTypeOK
<1>7. cpc'[c] = "create"
  BY <1>2 DEF TypeOK, CallTypeOK
<1> HIDE DEF v
<1>8. Alive' /\ Placed' /\ Ended'
  BY <1>1, <1>2, <1>4, <1>6, <1>7
     DEF PipeInv, ThreadLife, Alive, Placed, Ended
<1>9. Unstarted'
  <2> SUFFICES ASSUME NEW d \in Client, cpc'[d] = "create"
               PROVE  LET b == ctxs'[d][Len(ctxs'[d])] IN
                        pc'[b] = "none" /\ SNAP_VENC_BASE + chan'[b] \in Venc
    BY DEF Unstarted
  <2>1. CASE d = c
    BY <1>2, <1>3, <1>5, <2>1
  <2>2. CASE d # c
    <3> DEFINE b == ctxs[d][Len(ctxs[d])]
    <3>1. b \in Addr /\ pc[b] = "none" /\ SNAP_VENC_BASE + chan[b] \in Venc
      BY <1>6, <2>2, LastCtx DEF PipeInv, ThreadLife, Unstarted
    <3>2. b = a \/ chan'[b] = chan[b]
      BY <1>1, <3>1 DEF TypeOK, CtxTypeOK
    <3> HIDE DEF b
    <3>3. SNAP_VENC_BASE + chan'[b] \in Venc
      BY <1>2, <1>5, <3>1, <3>2
    <3>. QED BY <1>2, <1>6, <2>2, <3>1, <3>3 DEF b
  <2>. QED BY <2>1, <2>2
<1>10. Holding'
  BY <1>2, <1>4, HoldFrame DEF PipeInv
<1>. QED BY <1>8, <1>9, <1>10 DEF PipeInv, ThreadLife

\* The context that call c is creating the thread of, or is joining the thread of.
AtHand(c, k) ==
  \/ cpc[c] = "create" /\ k = Len(ctxs[c])
  \/ cpc[c] = "join" /\ k = idx[c]

\* A context in the hands of two calls is in the hands of one: what a call creates or
\* joins is not what another one creates or joins.
LEMMA OwnAddr ==
  ASSUME TypeOK, IndexOK, SlotInv, NEW c \in Client, NEW d \in Client, c # d,
         NEW k \in Nat, NEW l \in Nat,
         AtHand(c, k), AtHand(d, l)
  PROVE  /\ ctxs[c][k] # ctxs[d][l]
         /\ ctxs[c][k] \in Addr /\ ctxs[c][k] \in live
<1>1. Owns(c, k) /\ Owns(d, l)
  BY DEF TypeOK, CallTypeOK, IndexOK, Owns, AtHand
<1>2. ctxs[c][k] \in live
  BY <1>1 DEF SlotInv, OwnedLive
<1>. QED BY <1>1, <1>2 DEF SlotInv, OwnedOnce, TypeOK, CtxTypeOK

\* The thread of a context starts or is freed: the other calls do not look at it.
LEMMA LifeMove ==
  ASSUME TypeOK, IndexOK, SlotInv, ThreadLife, NEW c \in Client, NEW k \in Nat,
         AtHand(c, k),
         NEW a, a = ctxs[c][k], a \in Addr,
         chan' = chan, cpc'[c] \notin {"create", "join"},
         \A d \in Client \ {c} : /\ cpc'[d] = cpc[d] /\ idx'[d] = idx[d]
                                 /\ ctxs'[d] = ctxs[d],
         \A s \in Session \ {a} : pc'[s] = pc[s],
         \/ pc'[a] = "none" /\ live' = live \ {a}
         \/ pc'[a] # "none" /\ live' = live /\ a \in live /\ VencOf(a) \in Venc
  PROVE  ThreadLife'
<1>1. Alive'
  BY DEF ThreadLife, Alive, Session
<1>2. Placed'
  BY DEF ThreadLife, Placed, VencOf
<1>3. Unstarted'
  <2> SUFFICES ASSUME NEW d \in Client, cpc'[d] = "create"
               PROVE  LET b == ctxs'[d][Len(ctxs'[d])] IN
                        pc'[b] = "none" /\ SNAP_VENC_BASE + chan'[b] \in Venc
    BY DEF Unstarted
  <2> DEFINE l == Len(ctxs[d])
             b == ctxs[d][l]
  <2>1. d # c /\ cpc[d] = "create" /\ ctxs'[d] = ctxs[d]
    OBVIOUS
  <2>2. l \in Nat /\ b \in Addr
    BY <2>1, LastCtx DEF TypeOK, CallTypeOK
  <2>3. a # b
    <3>1. AtHand(d, l)
      BY <2>1 DEF AtHand
    <3> HIDE DEF l
    <3>. QED BY <2>1, <2>2, <3>1, OwnAddr
  <2>4. pc[b] = "none" /\ SNAP_VENC_BASE + chan[b] \in Venc
    BY <2>1 DEF ThreadLife, Unstarted
  <2>. QED BY <2>1, <2>2, <2>3, <2>4 DEF Session
<1>4. Ended'
  <2> SUFFICES ASSUME NEW d \in Client, cpc'[d] = "join"
               PROVE  pc'[ctxs'[d][idx'[d]]] = "exit"
    BY DEF Ended
  <2>1. d # c /\ cpc[d] = "join" /\ ctxs'[d] = ctxs[d] /\ idx'[d] = idx[d]
    OBVIOUS
  <2>2. idx[d] \in Nat /\ ctxs[d][idx[d]] \in Addr
    BY <2>1, JoinCtx DEF TypeOK, CallTypeOK, IndexOK
  <2>3. a # ctxs[d][idx[d]]
    BY <2>1, <2>2, OwnAddr DEF AtHand
  <2>4. pc[ctxs[d][idx[d]]] = "exit"
    BY <2>1 DEF ThreadLife, Ended
  <2>. QED BY <2>1, <2>2, <2>3, <2>4 DEF Session
<1>. QED BY <1>1, <1>2, <1>3, <1>4 DEF ThreadLife

\* The outcome of pthread_create, either way: the pipeline starts, or never will.
LEMMA PipeCreate ==
  ASSUME TypeOK, IndexOK, SlotInv, PipeInv, NEW c \in Client,
         CreateThread(c) \/ CreateThreadFails(c)
  PROVE  PipeInv'
<1> DEFINE k == Len(ctxs[c])
           a == ctxs[c][k]
<1>1. cpc[c] = "create" /\ NextChannel(c) /\ chan' = chan
      /\ UNCHANGED <<try, venc, rga, links>>
  BY DEF CreateThread, CreateThreadFails, ctxVars, pipeVars
<1>2. a \in Addr /\ k \in Nat /\ Owns(c, k)
  BY <1>1, LastCtx DEF TypeOK, CallTypeOK, Owns
<1>3. /\ cpc'[c] \notin {"create", "join"}
      /\ \A d \in Client \ {c} : /\ cpc'[d] = cpc[d] /\ idx'[d] = idx[d]
                                 /\ ctxs'[d] = ctxs[d]
  BY <1>1, NextChannelOwns DEF CreateThread, CreateThreadFails, TypeOK, CallTypeOK
<1>4. pc[a] = "none" /\ SNAP_VENC_BASE + chan[a] \in Venc
  BY <1>1 DEF PipeInv, ThreadLife, Unstarted
<1>5. a \in live
  BY <1>2 DEF SlotInv, OwnedLive
<1>6. VencOf(a) \in Venc
  BY <1>2, <1>4, SnapAssumption DEF VencOf, SnapAssumption
<1>7. /\ \A s \in Session \ {a} : pc'[s] = pc[s]
      /\ \/ pc'[a] = "none" /\ live' = live \ {a}
         \/ pc'[a] = "venc" /\ live' = live
  <2>1. CASE CreateThread(c)
    BY <1>2, <2>1 DEF CreateThread, ctxVars, TypeOK, PipeTypeOK, Session
  <2>2. CASE CreateThreadFails(c)
    BY <1>2, <1>4, <2>2 DEF CreateThreadFails, pipeVars, TypeOK, PipeTypeOK, Session
  <2>. QED BY <2>1, <2>2
<1> HIDE DEF a, k
<1>8. ThreadLife'
  BY <1>1, <1>2, <1>3, <1>5, <1>6, <1>7, LifeMove DEF PipeInv, a, k, AtHand
<1>9. Holding'
  BY <1>1, <1>4, <1>7, HoldFrame DEF PipeInv, VencOf
<1>. QED BY <1>8, <1>9 DEF PipeInv

\* pthread_join: the thread has ended.
LEMMA PipeJoin ==
  ASSUME TypeOK, PipeInv, NEW c \in Client, Join(c)
  PROVE  PipeInv'
<1>1. /\ UNCHANGED <<idx, ctxs, live, chan, pc, try, venc, rga, links>>
      /\ pc[ctxs[c][idx[c]]] = "exit"
      /\ cpc'[c] = "join" /\ \A d \in Client \ {c} : cpc'[d] = cpc[d]
  BY DEF Join, ctxVars, pipeVars, TypeOK, CallTypeOK
<1>2. ThreadLife'
  BY <1>1 DEF PipeInv, ThreadLife, Alive, Placed, VencOf, Unstarted, Ended
<1>3. Holding'
  BY <1>1, HoldFrame DEF PipeInv, VencOf
<1>. QED BY <1>2, <1>3 DEF PipeInv

\* The context that is freed belongs to a thread that has ended.
LEMMA PipeCollect ==
  ASSUME TypeOK, IndexOK, SlotInv, PipeInv, NEW c \in Client, Collect(c)
  PROVE  PipeInv'
<1> DEFINE k == idx[c]
           a == ctxs[c][k]
<1>1. /\ cpc[c] = "join" /\ chan' = chan /\ live' = live \ {a}
      /\ pc' = [pc EXCEPT ![a] = "none"]
      /\ cpc' = [cpc EXCEPT ![c] = "test"]
      /\ idx' = [idx EXCEPT ![c] = @ + 1]
      /\ UNCHANGED <<ctxs, try, venc, rga, links>>
  BY DEF Collect, CollectAs
<1>2. a \in Addr /\ k \in Nat
  BY <1>1, JoinCtx DEF TypeOK, CallTypeOK, IndexOK
<1>3. /\ cpc'[c] \notin {"create", "join"}
      /\ \A d \in Client \ {c} : /\ cpc'[d] = cpc[d] /\ idx'[d] = idx[d]
                                 /\ ctxs'[d] = ctxs[d]
  BY <1>1 DEF TypeOK, CallTypeOK
<1>4. pc[a] = "exit"
  BY <1>1 DEF PipeInv, ThreadLife, Ended
<1>5. pc'[a] = "none" /\ \A s \in Session \ {a} : pc'[s] = pc[s]
  BY <1>1, <1>2 DEF TypeOK, PipeTypeOK, Session
<1> HIDE DEF a, k
<1>6. ThreadLife'
  BY <1>1, <1>2, <1>3, <1>5, LifeMove DEF PipeInv, a, k, AtHand
<1>7. Holding'
  BY <1>1, <1>4, <1>5, HoldFrame DEF PipeInv, VencOf
<1>. QED BY <1>6, <1>7 DEF PipeInv

\* A pipeline's thread neither starts nor is collected by its own steps.
LEMMA PipeLife ==
  ASSUME TypeOK, PipeInv, NEW s \in Session, UNCHANGED <<callVars, live, chan>>,
         pc[s] \notin {"none", "exit"},
         NEW t, t # "none", pc' = [pc EXCEPT ![s] = t]
  PROVE  ThreadLife'
<1>1. \A u \in Session : /\ pc'[u] # "none" <=> pc[u] # "none"
                         /\ pc[u] \in {"none", "exit"} => pc'[u] = pc[u]
  BY DEF TypeOK, PipeTypeOK
<1>2. Alive' /\ Placed'
  BY <1>1 DEF PipeInv, ThreadLife, Alive, Placed, VencOf, Session
<1>3. Unstarted' /\ Ended'
  BY <1>1 DEF PipeInv, ThreadLife, Unstarted, Ended, callVars, TypeOK, PipeTypeOK
<1>. QED BY <1>2, <1>3 DEF ThreadLife

\* A step of a pipeline that neither takes nor gives back a channel.
LEMMA HoldMove ==
  ASSUME TypeOK, Holding, NEW s \in Session, NEW t, pc' = [pc EXCEPT ![s] = t],
         pc[s] \in VencSteps <=> t \in VencSteps,
         pc[s] \in RgaSteps <=> t \in RgaSteps,
         UNCHANGED <<chan, venc, rga>>,
         \A u \in Session \ {s} : try'[u] = try[u] /\ links'[u] = links[u],
         t \in RgaSteps => try'[s] = try[s],
         "out" \in links'[s] => t \in {"recv", "wait", "unbindOut"},
         "in" \in links'[s] =>
           t \in {"bindOut", "recv", "wait", "unbindOut", "unbindIn"}
  PROVE  Holding'
<1>1. pc'[s] = t /\ \A u \in Session \ {s} : pc'[u] = pc[u]
  BY DEF TypeOK, PipeTypeOK
<1>2. Encoders'
  BY <1>1 DEF Holding, Encoders, VencOf
<1>3. Scalers'
  BY <1>1 DEF Holding, Scalers
<1>4. Bound'
  BY <1>1 DEF Holding, Bound
<1>. QED BY <1>2, <1>3, <1>4 DEF Holding

\* A thread creates an encoder that nobody has created, or destroys its own.
LEMMA HoldVenc ==
  ASSUME SnapAssumption, TypeOK, Holding, NEW s \in Session, VencOf(s) \in Venc,
         UNCHANGED <<chan, try, rga, links>>,
         \/ /\ pc[s] = "venc" /\ venc[VencOf(s)] = None
            /\ venc' = [venc EXCEPT ![VencOf(s)] = s]
            /\ pc' = [pc EXCEPT ![s] = "regcb"]
         \/ /\ pc[s] = "vencDestroy"
            /\ venc' = [venc EXCEPT ![VencOf(s)] = None]
            /\ pc' = [pc EXCEPT ![s] = "exit"]
  PROVE  Holding'
<1>1. None \notin Session
  BY DEF SnapAssumption, Session
<1>2. \A u \in Session \ {s} : pc'[u] = pc[u]
  BY DEF TypeOK, PipeTypeOK
<1>3. \/ pc[s] = "venc" /\ pc'[s] = "regcb"
      \/ pc[s] = "vencDestroy" /\ pc'[s] = "exit"
  BY DEF TypeOK, PipeTypeOK
<1>4. Encoders'
  <2> SUFFICES ASSUME NEW v \in Venc, NEW u \in Session
               PROVE  venc'[v] = u <=> pc'[u] \in VencSteps /\ VencOf(u) = v
    BY DEF Encoders, VencOf
  <2>0. venc[v] = u <=> pc[u] \in VencSteps /\ VencOf(u) = v
    BY DEF Holding, Encoders
  <2>1. CASE u = s
    <3>1. venc'[v] = s <=> pc'[s] = "regcb" /\ VencOf(s) = v
      BY <1>1, <1>3, <2>0, <2>1 DEF VencSteps, TypeOK, PipeTypeOK
    <3>. QED BY <1>3, <2>1, <3>1 DEF VencSteps
  <2>2. CASE u # s
    <3>1. VencOf(s) = v => venc[v] # u /\ venc'[v] # u
      <4>1. pc[s] = "vencDestroy" /\ VencOf(s) = v => venc[v] = s
        BY DEF Holding, Encoders, VencSteps
      <4>. QED BY <1>1, <1>3, <2>2, <4>1 DEF TypeOK, PipeTypeOK
    <3>2. VencOf(s) # v => venc'[v] = venc[v]
      BY DEF TypeOK, PipeTypeOK
    <3>. QED BY <1>2, <2>0, <2>2, <3>1, <3>2
  <2>. QED BY <2>1, <2>2
<1>5. Scalers'
  BY <1>2, <1>3 DEF Holding, Scalers, RgaSteps, VencSteps
<1>6. Bound'
  BY <1>2, <1>3 DEF Holding, Bound
<1>. QED BY <1>4, <1>5, <1>6 DEF Holding

\* A thread creates an RGA channel that nobody has created, or destroys its own.
LEMMA HoldRga ==
  ASSUME SnapAssumption, TypeOK, Holding, NEW s \in Session, NEW r \in Rga,
         UNCHANGED <<chan, venc, links>>,
         \/ /\ pc[s] = "rga" /\ rga[r] = None
            /\ rga' = [rga EXCEPT ![r] = s]
            /\ try' = [try EXCEPT ![s] = r]
            /\ pc' = [pc EXCEPT ![s] = "bindIn"]
         \/ /\ pc[s] = "rgaDestroy" /\ r = try[s] /\ try' = try
            /\ rga' = [rga EXCEPT ![r] = None]
            /\ pc' = [pc EXCEPT ![s] = "vencDestroy"]
  PROVE  Holding'
<1>1. None \notin Session
  BY DEF SnapAssumption, Session
<1>2. \A u \in Session \ {s} : pc'[u] = pc[u] /\ try'[u] = try[u]
  BY DEF TypeOK, PipeTypeOK
<1>3. \/ pc[s] = "rga" /\ pc'[s] = "bindIn" /\ try'[s] = r
      \/ pc[s] = "rgaDestroy" /\ pc'[s] = "vencDestroy" /\ try[s] = r
  BY DEF TypeOK, PipeTypeOK
<1>4. Scalers'
  <2> SUFFICES ASSUME NEW q \in Rga, NEW u \in Session
               PROVE  rga'[q] = u <=> pc'[u] \in RgaSteps /\ try'[u] = q
    BY DEF Scalers
  <2>0. rga[q] = u <=> pc[u] \in RgaSteps /\ try[u] = q
    BY DEF Holding, Scalers
  <2>1. CASE u = s
    <3>1. rga'[q] = s <=> pc'[s] = "bindIn" /\ r = q
      BY <1>1, <1>3, <2>0, <2>1 DEF RgaSteps, VencSteps, TypeOK, PipeTypeOK
    <3>. QED BY <1>3, <2>1, <3>1 DEF RgaSteps, VencSteps
  <2>2. CASE u # s
    <3>1. r = q => rga[q] # u /\ rga'[q] # u
      <4>1. pc[s] = "rgaDestroy" /\ try[s] = q => rga[q] = s
        BY DEF Holding, Scalers, RgaSteps, VencSteps
      <4>. QED BY <1>1, <1>3, <2>2, <4>1 DEF TypeOK, PipeTypeOK
    <3>2. r # q => rga'[q] = rga[q]
      BY DEF TypeOK, PipeTypeOK
    <3>. QED BY <1>2, <2>0, <2>2, <3>1, <3>2
  <2>. QED BY <2>1, <2>2
<1>5. Encoders'
  BY <1>2, <1>3 DEF Holding, Encoders, VencSteps, VencOf
<1>6. Bound'
  BY <1>2, <1>3 DEF Holding, Bound
<1>. QED BY <1>4, <1>5, <1>6 DEF Holding

\* Every step of a pipeline: the error paths destroy what was created and no more.
LEMMA PipePipeline ==
  ASSUME SnapAssumption, TypeOK, PipeInv, NEW s \in Session, Pipeline(s)
  PROVE  PipeInv'
<1>1. UNCHANGED <<callVars, live, chan>>
  BY OtherSteps
<1>2. /\ pc \in [Session -> Steps] /\ try \in [Session -> Rga]
      /\ links \in [Session -> SUBSET {"in", "out"}]
      /\ pc[s] # "none" => VencOf(s) \in Venc
  BY DEF TypeOK, PipeTypeOK, PipeInv, ThreadLife, Placed
<1>3. /\ "out" \in links[s] => pc[s] \in {"recv", "wait", "unbindOut"}
      /\ "in" \in links[s] =>
           pc[s] \in {"bindOut", "recv", "wait", "unbindOut", "unbindIn"}
  BY DEF PipeInv, Holding, Bound
<1>4. pc[s] \notin {"none", "exit"} /\ \E t : t # "none" /\ pc' = [pc EXCEPT ![s] = t]
  <2>1. \A t : Goto(s, t) => pc' = [pc EXCEPT ![s] = t]
    BY DEF Goto
  <2>2. pc' = pc => pc' = [pc EXCEPT ![s] = pc[s]]
    BY <1>2
  <2>. QED BY <2>1, <2>2
     DEF Pipeline, CreateVenc, RegisterOutCb, CreateRga, CreateRgaOf, BindIn,
         BindOut, StartRecvFrame, Answered, TimedOut, UnBind, DestroyRga, DestroyVenc
<1>5. ThreadLife'
  BY <1>1, <1>4, PipeLife
<1>6. Holding'
  <2>1. CASE CreateVenc(s)
    <3>1. CASE Goto(s, "regcb") /\ venc[VencOf(s)] = None
               /\ venc' = [venc EXCEPT ![VencOf(s)] = s]
      BY <1>1, <1>2, <2>1, <3>1, HoldVenc DEF CreateVenc, PipeInv, Goto
    <3>2. CASE Goto(s, "exit") /\ UNCHANGED venc
      BY <1>1, <1>2, <1>3, <2>1, <3>2, HoldMove
         DEF CreateVenc, PipeInv, Goto, VencSteps, RgaSteps
    <3>. QED BY <2>1, <3>1, <3>2 DEF CreateVenc
  <2>2. CASE RegisterOutCb(s)
    BY <1>1, <1>2, <1>3, <2>2, HoldMove
       DEF RegisterOutCb, PipeInv, Goto, VencSteps, RgaSteps
  <2>3. CASE CreateRga(s)
    <3> DEFINE r == (ChanOf(s) + try[s]) % RGA_MAX_CHN_NUM
    <3>1. r \in Rga
      <4>1. ChanOf(s) + try[s] \in Nat
        BY DEF ChanOf, Session, SnapAssumption, TypeOK, CtxTypeOK, PipeTypeOK, Rga
      <4>2. RGA_MAX_CHN_NUM \in Nat \ {0}
        BY DEF SnapAssumption
      <4>. QED BY <4>1, <4>2, ModRange DEF Rga
    <3>2. /\ pc[s] = "rga" /\ UNCHANGED <<venc, links>>
          /\ \/ /\ rga[r] = None
                /\ rga' = [rga EXCEPT ![r] = s]
                /\ try' = [try EXCEPT ![s] = r]
                /\ pc' = [pc EXCEPT ![s] = "bindIn"]
             \/ /\ try' = [try EXCEPT ![s] = @ + 1] /\ pc' = pc
                /\ UNCHANGED rga
             \/ /\ pc' = [pc EXCEPT ![s] = "vencDestroy"] /\ UNCHANGED try
                /\ UNCHANGED rga
      BY <2>3 DEF CreateRga, CreateRgaOf, Goto
    <3> HIDE DEF r
    <3>3. CASE rga[r] = None /\ rga' = [rga EXCEPT ![r] = s]
               /\ try' = [try EXCEPT ![s] = r]
               /\ pc' = [pc EXCEPT ![s] = "bindIn"]
      BY <1>1, <3>1, <3>2, <3>3, HoldRga DEF PipeInv
    <3>4. CASE try' = [try EXCEPT ![s] = @ + 1] /\ pc' = pc /\ UNCHANGED rga
      <4>1. pc' = [pc EXCEPT ![s] = "rga"]
        BY <1>2, <3>2, <3>4
      <4>. QED BY <1>1, <1>2, <1>3, <3>2, <3>4, <4>1, HoldMove
               DEF PipeInv, VencSteps, RgaSteps
    <3>5. CASE pc' = [pc EXCEPT ![s] = "vencDestroy"] /\ UNCHANGED <<try, rga>>
      BY <1>1, <1>2, <1>3, <3>2, <3>5, HoldMove DEF PipeInv, VencSteps, RgaSteps
    <3>. QED BY <3>2, <3>3, <3>4, <3>5
  <2>4. CASE BindIn(s)
    BY <1>1, <1>2, <1>3, <2>4, HoldMove DEF BindIn, PipeInv, Goto, VencSteps, RgaSteps
  <2>5. CASE BindOut(s)
    BY <1>1, <1>2, <1>3, <2>5, HoldMove DEF BindOut, PipeInv, Goto, VencSteps, RgaSteps
  <2>6. CASE StartRecvFrame(s) \/ Answered(s) \/ TimedOut(s)
    BY <1>1, <1>2, <1>3, <2>6, HoldMove
       DEF StartRecvFrame, Answered, TimedOut, PipeInv, Goto, VencSteps, RgaSteps
  <2>7. CASE UnBind(s)
    BY <1>1, <1>2, <1>3, <2>7, HoldMove DEF UnBind, PipeInv, Goto, VencSteps, RgaSteps
  <2>8. CASE DestroyRga(s)
    BY <1>1, <1>2, <2>8, HoldRga DEF DestroyRga, PipeInv, Goto
  <2>9. CASE DestroyVenc(s)
    BY <1>1, <1>2, <2>9, HoldVenc DEF DestroyVenc, PipeInv, Goto
  <2>. QED BY <2>1, <2>2, <2>3, <2>4, <2>5, <2>6, <2>7, <2>8, <2>9 DEF Pipeline
<1>. QED BY <1>5, <1>6 DEF PipeInv

\* The steps of callbacks, of StartJpeg's callers and of other subsystems.
LEMMA PipeOthers ==
  ASSUME SnapAssumption, TypeOK, IndexOK, PipeInv,
         \/ \E s \in Single : StartJpeg(s)
         \/ \E v \in Venc : PacketCb(v) \/ Deliver(v)
         \/ \E r \in OtherRga : OtherUser(r)
         \/ UNCHANGED vars
  PROVE  PipeInv'
<1>1. CASE \E s \in Single : StartJpeg(s)
  <2>1. PICK s \in Single : StartJpeg(s)
    BY <1>1
  <2>2. /\ UNCHANGED <<callVars, live, chan, try, venc, rga, links>>
        /\ pc[s] \in {"none", "exit"} /\ pc' = [pc EXCEPT ![s] = "venc"]
    BY <2>1 DEF StartJpeg, Goto, ctxVars
  <2>3. s \in Session /\ s \notin Addr /\ VencOf(s) \in Venc
    BY DEF SnapAssumption, Session, VencOf, Venc
  <2>4. pc'[s] = "venc" /\ \A u \in Session \ {s} : pc'[u] = pc[u]
    BY <2>2, <2>3 DEF TypeOK, PipeTypeOK
  <2>5. \A a \in Addr : pc'[a] = pc[a]
    BY <2>3, <2>4 DEF Session
  <2>6. Alive' /\ Placed'
    BY <2>2, <2>3, <2>4, <2>5 DEF PipeInv, ThreadLife, Alive, Placed, VencOf
  <2>7. Unstarted' /\ Ended'
    <3>1. \A c \in Client : cpc[c] = "create" => ctxs[c][Len(ctxs[c])] \in Addr
      BY LastCtx
    <3>2. \A c \in Client : cpc[c] = "join" => ctxs[c][idx[c]] \in Addr
      BY JoinCtx DEF IndexOK
    <3>. QED BY <2>2, <2>5, <3>1, <3>2
             DEF PipeInv, ThreadLife, Unstarted, Ended, callVars
  <2>8. Holding'
    BY <2>2, <2>4, HoldFrame DEF PipeInv, VencOf
  <2>. QED BY <2>6, <2>7, <2>8 DEF PipeInv, ThreadLife
<1>2. CASE (\E v \in Venc : PacketCb(v) \/ Deliver(v)) \/ UNCHANGED vars
  <2>1. UNCHANGED <<callVars, live, chan, pipeVars>>
    BY <1>2 DEF PacketCb, Deliver, vars, ctxVars
  <2>2. ThreadLife'
    BY <2>1, LifeFrame DEF PipeInv, pipeVars, callVars
  <2>3. Holding'
    BY <2>1, HoldFrame DEF PipeInv, pipeVars, VencOf
  <2>. QED BY <2>2, <2>3 DEF PipeInv
<1>3. CASE \E r \in OtherRga : OtherUser(r)
  <2>1. PICK r \in OtherRga : OtherUser(r)
    BY <1>3
  <2>2. /\ UNCHANGED <<callVars, live, chan, pc, try, venc, links>>
        /\ rga[r] \in {None, Other}
        /\ \E x \in {None, Other} : rga' = [rga EXCEPT ![r] = x]
    BY <2>1 DEF OtherUser, ctxVars
  <2>3. {None, Other} \cap Session = {}
    BY DEF SnapAssumption, Session
  <2>4. ThreadLife'
    BY <2>2, LifeFrame DEF PipeInv, callVars
  <2>5. Encoders' /\ Bound'
    BY <2>2 DEF PipeInv, Holding, Encoders, Bound, VencOf
  <2>6. Scalers'
    BY <2>2, <2>3 DEF PipeInv, Holding, Scalers, TypeOK, PipeTypeOK
  <2>. QED BY <2>4, <2>5, <2>6 DEF PipeInv, Holding
<1>. QED BY <1>1, <1>2, <1>3

\* Every step keeps the hardware with its owners.
LEMMA PipeStep ==
  ASSUME SnapAssumption, TypeOK, IndexOK, SlotInv, PipeInv, [Next]_vars
  PROVE  PipeInv'
<1>1. ASSUME NEW c \in Client, Call(c) \/ ClientStep(c)
      PROVE  PipeInv'
  BY <1>1, PipeMove, PipePublish, PipeCreate, PipeJoin, PipeCollect DEF ClientStep
<1>. QED BY <1>1, PipePipeline, PipeOthers DEF Next, Done

\* What PipeInv says of a pipeline that is under way, and of one that is not.
LEMMA PipeImplies ==
  ASSUME SnapAssumption, TypeOK, PipeInv
  PROVE  OwnsWhatItUses /\ NothingLeaked
<1>1. OwnsWhatItUses
  <2> SUFFICES ASSUME NEW s \in Session
               PROVE  /\ pc[s] \in VencSteps => venc[VencOf(s)] = s
                      /\ pc[s] \in RgaSteps => rga[try[s]] = s
    BY DEF OwnsWhatItUses
  <2>1. pc[s] \in VencSteps => VencOf(s) \in Venc
    BY DEF VencSteps, PipeInv, ThreadLife, Placed
  <2>. QED BY <2>1 DEF PipeInv, Holding, Encoders, Scalers, TypeOK, PipeTypeOK
<1>2. \A v \in Venc : venc[v] # None => pc[venc[v]] \in VencSteps
  BY DEF PipeInv, Holding, Encoders, TypeOK, PipeTypeOK
<1>3. \A r \in Rga : rga[r] \notin {None, Other} => pc[rga[r]] \in RgaSteps
  BY DEF PipeInv, Holding, Scalers, TypeOK, PipeTypeOK
<1>4. \A s \in Session : pc[s] = "exit" => links[s] = {}
  BY DEF PipeInv, Holding, Bound, TypeOK, PipeTypeOK
<1>. QED BY <1>1, <1>2, <1>3, <1>4 DEF NothingLeaked

\* The four invariants hold together.
LEMMA PipeCorrect == Spec => [](TypeOK /\ IndexOK /\ SlotInv /\ PipeInv)
<1>1. Init => SlotInv /\ PipeInv
  BY SlotInit, PipeInit, SnapAssumption
<1>2. TypeOK /\ IndexOK /\ SlotInv /\ PipeInv /\ [Next]_vars => (SlotInv /\ PipeInv)'
  BY SlotStep, PipeStep, SnapAssumption
<1>. QED BY <1>1, <1>2, TypeCorrect, PTL DEF Spec

\* However many threads build pipelines at once and whatever fails, none uses an
\* encoder or an RGA channel that another thread created or has destroyed.
THEOREM OwnsCorrect == Spec => []OwnsWhatItUses
<1>1. TypeOK /\ PipeInv => OwnsWhatItUses
  BY PipeImplies, SnapAssumption
<1>. QED BY <1>1, PipeCorrect, PTL

\* Whichever step of whichever pipeline fails, no hardware channel is left without a
\* thread that will destroy it, and no thread ends with a binding.
THEOREM LeakCorrect == Spec => []NothingLeaked
<1>1. TypeOK /\ PipeInv => NothingLeaked
  BY PipeImplies, SnapAssumption
<1>. QED BY <1>1, PipeCorrect, PTL

(***************************************************************************)
(* What holds through a clash: who owns the contexts and the callbacks.    *)
(***************************************************************************)
\* Every context belongs to a call.
LiveOwned ==
  \A a \in live : \E c \in Client : \E k \in Nat : Owns(c, k) /\ ctxs[c][k] = a

\* A callback runs on an encoder that exists.
CbHeld == \A v \in Venc : cb[v] # None => venc[v] # None

\* The encoder of a thread that has not started has emitted nothing.
Fresh == \A c \in Client : cpc[c] = "create" => shot[ctxs[c][Len(ctxs[c])]] = 0

\* No call that is under way in a clash is promised anything.
Marked == clash => \A c \in Client : cpc[c] # "idle" => c \in void

\* These hold together in every state.
KeptInv == LiveOwned /\ CbHeld /\ Fresh /\ Marked

\* The request under way is one of the calls.
LEMMA RequestOf ==
  ASSUME SnapAssumption, TypeOK, IndexOK, NEW c \in Client, cpc[c] # "idle"
  PROVE  callno[c] \in DOMAIN Calls[c] /\ Request(c) \in Seq(Nat)
  BY SMTT(30), RequestType DEF SnapAssumption, TypeOK, CallTypeOK, IndexOK

\* The loop over the channels is inside the request.
LEMMA AtRequest ==
  ASSUME SnapAssumption, TypeOK, IndexOK, NEW c \in Client, cpc[c] = "publish"
  PROVE  /\ callno[c] \in DOMAIN Calls[c]
         /\ idx[c] \in Nat /\ idx[c] \in DOMAIN Request(c)
         /\ Request(c)[idx[c]] \in Nat
<1>1. callno[c] \in DOMAIN Calls[c] /\ Request(c) \in Seq(Nat)
  BY RequestOf
<1>2. idx[c] \in Nat \ {0} /\ idx[c] <= Len(Request(c))
  BY DEF TypeOK, CallTypeOK, IndexOK
<1>3. \A q \in Seq(Nat) : \A i \in Nat \ {0} :
        i <= Len(q) => i \in DOMAIN q /\ q[i] \in Nat
  OBVIOUS
<1>. QED BY <1>1, <1>2, <1>3

\* A step that publishes nothing: contexts stay with their calls or go.
LEMMA OwnedKeep ==
  ASSUME LiveOwned, live' \subseteq live,
         \A d \in Client : \A k \in Nat : Owns(d, k) /\ ctxs[d][k] \in live' =>
           Owns(d, k)' /\ ctxs'[d][k] = ctxs[d][k]
  PROVE  LiveOwned'
  BY DEF LiveOwned

\* The steps of a call that change no context.
LEMMA OwnedMove ==
  ASSUME TypeOK, TypeOK', LiveOwned, NEW c \in Client,
         Call(c) \/ SkipChannel(c) \/ CreateThread(c) \/ Join(c) \/ Return(c)
  PROVE  LiveOwned' /\ UNCHANGED <<live, chan, slot>>
<1>1. UNCHANGED <<live, chan, slot>>
  BY DEF Call, SkipChannel, CreateThread, Join, Return, ctxVars
<1>2. \A d \in Client : \A k \in Nat :
        Owns(d, k) => Owns(d, k)' /\ ctxs'[d] = ctxs[d]
  <2>1. CASE Call(c)
    <3>1. /\ cpc[c] = "idle"
          /\ \A d \in Client \ {c} : /\ cpc'[d] = cpc[d] /\ idx'[d] = idx[d]
                                     /\ ctxs'[d] = ctxs[d]
      BY <2>1 DEF Call, TypeOK, CallTypeOK
    <3>. QED BY <3>1 DEF Owns
  <2>2. CASE SkipChannel(c) \/ CreateThread(c)
    <3>1. /\ cpc[c] \in {"publish", "create"} /\ cpc'[c] \in {"publish", "test"}
          /\ cpc'[c] = "test" => idx'[c] = 1
          /\ \A d \in Client \ {c} : cpc'[d] = cpc[d] /\ idx'[d] = idx[d]
          /\ ctxs' = ctxs
      BY <2>2, NextChannelOwns DEF SkipChannel, CreateThread
    <3>. QED BY <3>1 DEF Owns
  <2>3. CASE Join(c)
    BY <2>3 DEF Owns, Join, TypeOK, CallTypeOK
  <2>4. CASE Return(c)
    BY <2>4 DEF Owns, Return, TypeOK, CallTypeOK
  <2>. QED BY <2>1, <2>2, <2>3, <2>4
<1>. QED BY <1>1, <1>2, OwnedKeep

\* A call frees a context: the entry of its encoder is cleared, or none.
LEMMA Frees ==
  ASSUME TypeOK, IndexOK, SlotInv, NEW c \in Client,
         CreateThreadFails(c) \/ Collect(c)
  PROVE  \E n \in Nat : \E a \in live :
           /\ Owns(c, n) /\ a = ctxs[c][n] /\ live' = live \ {a} /\ chan' = chan
           /\ slot' \in {slot, [slot EXCEPT ![SNAP_VENC_BASE + chan[a]] = None]}
           /\ \A d \in Client : \A k \in Nat :
                /\ Owns(d, k)' <=> Owns(d, k) /\ ~(d = c /\ k = n)
                /\ Owns(d, k)' => ctxs'[d][k] = ctxs[d][k]
<1> DEFINE n == IF cpc[c] = "create" THEN Len(ctxs[c]) ELSE idx[c]
           a == ctxs[c][n]
<1>1. /\ AtHand(c, n) /\ chan' = chan /\ live' = live \ {a}
      /\ slot' \in {slot, [slot EXCEPT ![SNAP_VENC_BASE + chan[a]] = None]}
  BY DEF AtHand, CreateThreadFails, Collect, CollectAs
<1>2. n \in Nat /\ Owns(c, n)
  BY <1>1 DEF AtHand, Owns, TypeOK, CallTypeOK, IndexOK
<1>3. a \in live
  BY <1>2 DEF SlotInv, OwnedLive
<1>4. \A d \in Client \ {c} : /\ cpc'[d] = cpc[d] /\ idx'[d] = idx[d]
                              /\ ctxs'[d] = ctxs[d]
  BY ZenonT(30), NextChannelOwns DEF CreateThreadFails, Collect, CollectAs, TypeOK, CallTypeOK
<1>5. \A k \in Nat : /\ Owns(c, k)' <=> Owns(c, k) /\ k # n
                     /\ Owns(c, k)' => ctxs'[c][k] = ctxs[c][k]
  <2>1. CASE CreateThreadFails(c)
    <3>1. /\ cpc[c] = "create" /\ cpc'[c] \in {"publish", "test"}
          /\ cpc'[c] = "test" => idx'[c] = 1
          /\ ctxs'[c] = SubSeq(ctxs[c], 1, Len(ctxs[c]) - 1)
          /\ ctxs[c] \in Seq(Addr) /\ Len(ctxs[c]) >= 1
      BY <2>1, NextChannelOwns
         DEF CreateThreadFails, TypeOK, CallTypeOK, IndexOK
    <3>2. Len(ctxs'[c]) = Len(ctxs[c]) - 1
      BY <3>1
    <3>. QED BY <3>1, <3>2 DEF Owns
  <2>2. CASE Collect(c)
    BY <2>2 DEF Collect, CollectAs, Owns, TypeOK, CallTypeOK
  <2>. QED BY <2>1, <2>2
<1> HIDE DEF n, a
<1>6. \A d \in Client \ {c} : \A k \in Nat :
        (Owns(d, k)' <=> Owns(d, k)) /\ ctxs'[d] = ctxs[d]
  BY <1>4 DEF Owns
<1>7. \A d \in Client : \A k \in Nat :
        /\ Owns(d, k)' <=> Owns(d, k) /\ ~(d = c /\ k = n)
        /\ Owns(d, k)' => ctxs'[d][k] = ctxs[d][k]
  BY <1>5, <1>6
<1>8. a = ctxs[c][n]
  BY DEF a
<1>. QED BY <1>1, <1>2, <1>3, <1>7, <1>8

\* What it does not free stays with its call.
LEMMA OwnedFree ==
  ASSUME TypeOK, IndexOK, SlotInv, LiveOwned, NEW c \in Client,
         CreateThreadFails(c) \/ Collect(c)
  PROVE  LiveOwned'
<1>1. PICK n \in Nat, a \in live :
        /\ a = ctxs[c][n] /\ live' = live \ {a}
        /\ \A d \in Client : \A k \in Nat :
             /\ Owns(d, k)' <=> Owns(d, k) /\ ~(d = c /\ k = n)
             /\ Owns(d, k)' => ctxs'[d][k] = ctxs[d][k]
  BY Frees
<1>2. \A d \in Client : \A k \in Nat : Owns(d, k) /\ ctxs[d][k] \in live' =>
        Owns(d, k)' /\ ctxs'[d][k] = ctxs[d][k]
  BY <1>1
<1>. QED BY <1>1, <1>2, OwnedKeep

\* A context is published: it is the last of the call's.
LEMMA OwnedPublish ==
  ASSUME TypeOK, IndexOK, SlotInv, LiveOwned, NEW c \in Client, Publish(c)
  PROVE  LiveOwned'
<1>0. PICK n \in Nat : n = Len(ctxs[c]) + 1
  BY DEF TypeOK, CallTypeOK
<1>1. PICK a \in Addr \ live :
        /\ live' = live \cup {a}
        /\ ctxs' = [ctxs EXCEPT ![c] = Append(@, a)]
  BY DEF Publish, PublishAt
<1>2. cpc[c] = "publish" /\ cpc' = [cpc EXCEPT ![c] = "create"] /\ idx' = idx
  BY DEF Publish, PublishAt
<1>3. /\ n \in 1 .. n /\ Len(ctxs[c]) = n - 1
      /\ Len(ctxs'[c]) = n /\ ctxs'[c][n] = a
      /\ \A k \in 1 .. n - 1 : ctxs'[c][k] = ctxs[c][k]
  BY <1>0, <1>1 DEF TypeOK, CallTypeOK
<1>4. cpc'[c] = "create" /\ \A d \in Client \ {c} :
        cpc'[d] = cpc[d] /\ idx'[d] = idx[d] /\ ctxs'[d] = ctxs[d]
  BY <1>1, <1>2 DEF TypeOK, CallTypeOK
<1>5. \A d \in Client : \A k \in Nat :
        Owns(d, k) => Owns(d, k)' /\ ctxs'[d][k] = ctxs[d][k]
  BY <1>2, <1>3, <1>4 DEF Owns
<1>6. Owns(c, n)' /\ ctxs'[c][n] = a
  BY <1>3, <1>4 DEF Owns
<1>7. ASSUME NEW b \in live
      PROVE  \E d \in Client : \E k \in Nat : Owns(d, k)' /\ ctxs'[d][k] = b
  <2>1. PICK d \in Client, k \in Nat : Owns(d, k) /\ ctxs[d][k] = b
    BY <1>7 DEF LiveOwned
  <2>. QED BY <1>5, <2>1
<1>8. \A b \in live' : b \in live \/ b = a
  BY <1>1
<1>. QED BY <1>6, <1>7, <1>8 DEF LiveOwned

\* Every context stays with its call.
LEMMA OwnedStep ==
  ASSUME SnapAssumption, TypeOK, TypeOK', IndexOK, SlotInv, LiveOwned, [Next]_vars
  PROVE  LiveOwned'
<1>1. ASSUME NEW c \in Client, Call(c) \/ ClientStep(c)
      PROVE  LiveOwned'
  BY <1>1, OwnedMove, OwnedFree, OwnedPublish DEF ClientStep
<1>2. ASSUME UNCHANGED <<callVars, live, chan, slot>>
      PROVE  LiveOwned'
  <2>1. \A d \in Client : \A k \in Nat : Owns(d, k)' <=> Owns(d, k)
    BY <1>2 DEF Owns, callVars
  <2>. QED BY <1>2, <2>1, OwnedKeep DEF callVars
<1>3. UNCHANGED vars => UNCHANGED <<callVars, live, chan, slot>>
  BY DEF vars, ctxVars
<1>. QED BY <1>1, <1>2, <1>3, OtherSteps DEF Next, Done, Session

\* No step takes an encoder away from under a callback.
LEMMA HeldPipe ==
  ASSUME TypeOK, CbHeld, NEW s \in Session, Pipeline(s)
  PROVE  cb' = cb /\ \A v \in Venc : cb[v] # None => venc'[v] = venc[v]
<1>1. cb' = cb
  BY DEF Pipeline, CreateVenc, RegisterOutCb, CreateRga, CreateRgaOf,
         BindIn, BindOut, StartRecvFrame, Answered, TimedOut, UnBind, DestroyRga,
         DestroyVenc, cbVars
<1>2. \/ venc' = venc
      \/ venc[VencOf(s)] = None /\ venc' = [venc EXCEPT ![VencOf(s)] = s]
      \/ cb[VencOf(s)] = None /\ venc' = [venc EXCEPT ![VencOf(s)] = None]
  BY DEF Pipeline, CreateVenc, RegisterOutCb, CreateRga, CreateRgaOf, BindIn,
         BindOut, StartRecvFrame, Answered, TimedOut, UnBind, DestroyRga,
         DestroyVenc
<1>. QED BY <1>1, <1>2 DEF CbHeld, TypeOK, PipeTypeOK

\* No step destroys an encoder under a callback that runs on it.
LEMMA HeldStep ==
  ASSUME TypeOK, CbHeld, [Next]_vars
  PROVE  CbHeld'
<1>1. ASSUME NEW s \in Session, Pipeline(s) PROVE CbHeld'
  BY <1>1, HeldPipe DEF CbHeld
<1>2. ASSUME NEW v \in Venc, PacketCb(v) \/ Deliver(v) PROVE CbHeld'
  <2>1. venc' = venc /\ \A u \in Venc \ {v} : cb'[u] = cb[u]
    BY <1>2 DEF PacketCb, Deliver, pipeVars, TypeOK, CbTypeOK
  <2>2. venc[v] # None
    BY <1>2 DEF PacketCb, Deliver, CbHeld
  <2>. QED BY <2>1, <2>2 DEF CbHeld
<1>3. ASSUME UNCHANGED <<venc, cb>> PROVE CbHeld'
  BY <1>3 DEF CbHeld
<1>4. ASSUME NEW c \in Client, Call(c) \/ ClientStep(c) PROVE UNCHANGED <<venc, cb>>
  BY <1>4 DEF Call, ClientStep, SkipChannel, Publish, PublishAt, CreateThread,
              CreateThreadFails, Join, Collect, CollectAs, Return, pipeVars, cbVars
<1>5. /\ \A s \in Single : StartJpeg(s) => UNCHANGED <<venc, cb>>
      /\ \A r \in OtherRga : OtherUser(r) => UNCHANGED <<venc, cb>>
      /\ Done \/ UNCHANGED vars => UNCHANGED <<venc, cb>>
  BY DEF StartJpeg, OtherUser, Done, vars, pipeVars, cbVars
<1>. QED BY <1>1, <1>2, <1>3, <1>4, <1>5 DEF Next

\* An encoder emits once its thread has started.
LEMMA FreshStep ==
  ASSUME SnapAssumption, TypeOK, TypeOK', IndexOK, PipeInv, Fresh, [Next]_vars
  PROVE  Fresh'
<1>1. ASSUME \A d \in Client : cpc'[d] = "create" => cpc[d] = "create" /\ ctxs'[d] = ctxs[d],
             \A a \in Addr : shot[a] = 0 /\ pc[a] = "none" => shot'[a] = 0
      PROVE  Fresh'
  <2>1. \A d \in Client : cpc[d] = "create" =>
          /\ ctxs[d][Len(ctxs[d])] \in Addr
          /\ pc[ctxs[d][Len(ctxs[d])]] = "none"
    BY LastCtx DEF PipeInv, ThreadLife, Unstarted
  <2>. QED BY <1>1, <2>1 DEF Fresh
<1>2. ASSUME NEW c \in Client, Call(c) \/ ClientStep(c), ~Publish(c)
      PROVE  Fresh'
  <2>1. \A d \in Client : cpc'[d] = "create" => cpc[d] = "create" /\ ctxs'[d] = ctxs[d]
    <3>1. CASE Call(c)
      BY <3>1 DEF Call, TypeOK, CallTypeOK
    <3>2. CASE ClientStep(c)
      BY <1>2, <3>2, NextChannelOwns
         DEF ClientStep, SkipChannel, CreateThread, CreateThreadFails, Join, Collect,
             CollectAs, Return, TypeOK, CallTypeOK
    <3>. QED BY <1>2, <3>1, <3>2
  <2>2. shot' = shot
    BY <1>2 DEF Call, ClientStep, SkipChannel, CreateThread, CreateThreadFails, Join, Collect,
                CollectAs, Return, cbVars
  <2>. QED BY <1>1, <2>1, <2>2
<1>3. ASSUME NEW c \in Client, Publish(c) PROVE Fresh'
  <2>1. PICK a \in Addr \ live :
          /\ ctxs' = [ctxs EXCEPT ![c] = Append(@, a)]
          /\ shot' = [shot EXCEPT ![a] = 0]
    BY <1>3 DEF Publish, PublishAt
  <2>2. \A d \in Client \ {c} : cpc'[d] = cpc[d] /\ ctxs'[d] = ctxs[d]
    BY <1>3, <2>1 DEF Publish, PublishAt, TypeOK, CallTypeOK
  <2>3. ctxs'[c][Len(ctxs'[c])] = a
    BY <2>1 DEF TypeOK, CallTypeOK
  <2>4. shot'[a] = 0 /\ \A b : shot[b] = 0 => shot'[b] = 0
    BY <2>1 DEF TypeOK, CbTypeOK, Session
  <2>. QED BY <2>2, <2>3, <2>4 DEF Fresh
<1>4. ASSUME UNCHANGED callVars, \A a \in Addr : shot[a] = 0 /\ pc[a] = "none" => shot'[a] = 0
      PROVE  Fresh'
  BY <1>1, <1>4 DEF callVars
<1>5. ASSUME NEW v \in Venc, PacketCb(v)
      PROVE  \A a \in Addr : shot[a] = 0 /\ pc[a] = "none" => shot'[a] = 0
  BY <1>5 DEF PacketCb, TypeOK, CbTypeOK, Session
<1>6. ASSUME NEW s \in Single, StartJpeg(s)
      PROVE  \A a \in Addr : shot[a] = 0 /\ pc[a] = "none" => shot'[a] = 0
  BY <1>6 DEF StartJpeg, TypeOK, CbTypeOK, Session
<1>7. /\ \A v \in Venc : Deliver(v) => shot' = shot
      /\ \A s \in Session : Pipeline(s) => shot' = shot
      /\ \A r \in OtherRga : OtherUser(r) => shot' = shot
      /\ Done \/ UNCHANGED vars => shot' = shot
  BY DEF Deliver, OtherUser, Done, vars, cbVars, Pipeline, CreateVenc, RegisterOutCb,
         CreateRga, CreateRgaOf, BindIn, BindOut, StartRecvFrame, Answered, TimedOut,
         UnBind, DestroyRga, DestroyVenc
<1>8. Done \/ UNCHANGED vars => UNCHANGED callVars
  BY DEF Done, vars
<1>. QED BY <1>2, <1>3, <1>4, <1>5, <1>6, <1>7, <1>8, OtherSteps DEF Next, Session

\* A step that starts no call.
Inner ==
  \/ \E c \in Client : ClientStep(c)
  \/ \E s \in Session : Pipeline(s)
  \/ \E s \in Single : StartJpeg(s)
  \/ \E v \in Venc : PacketCb(v) \/ Deliver(v)
  \/ \E r \in OtherRga : OtherUser(r)
  \/ UNCHANGED vars

\* A step is a call's beginning or a step of what is under way.
LEMMA NextInner == ASSUME [Next]_vars PROVE (\E c \in Client : Call(c)) \/ Inner
  BY DEF Next, Inner, Done

\* What such a step makes of the history: a clash is not forgotten, the calls that it
\* makes void are under way, and when a clash begins they are all of those.
PastKept ==
  /\ clash => clash'
  /\ \E lost \in SUBSET Client :
       void' = void \cup lost /\ \A d \in lost : cpc[d] # "idle"
  /\ clash' /\ ~clash => \A d \in Client : cpc[d] # "idle" => d \in void'

\* Mark, with the calls that are lost to a clash and those of a shared encoder, does so.
LEMMA MarkPast ==
  ASSUME NEW met, NEW lost \in SUBSET Client, Mark(met, lost), clash => met,
         \A d \in lost : cpc[d] # "idle"
  PROVE  PastKept
<1> DEFINE gone == lost \cup {d \in Client : met /\ cpc[d] # "idle"}
<1>1. gone \in SUBSET Client /\ \A d \in gone : cpc[d] # "idle"
  OBVIOUS
<1>2. clash' = met /\ void' = void \cup gone
  BY DEF Mark
<1>3. met => \A d \in Client : cpc[d] # "idle" => d \in gone
  OBVIOUS
<1> HIDE DEF gone
<1>. QED BY <1>1, <1>2, <1>3 DEF PastKept

\* Every step of what is under way adds to the history.
LEMMA InnerPast ==
  ASSUME TypeOK, Inner
  PROVE  PastKept
<1>1. ASSUME UNCHANGED <<clash, void>> PROVE PastKept
  <2>1. void' = void \cup {} /\ {} \in SUBSET Client /\ clash' = clash
    BY <1>1
  <2>. QED BY <2>1 DEF PastKept
<1>2. ASSUME NEW c \in Client, Publish(c) PROVE PastKept
  <2> DEFINE met == clash \/ InUse(SNAP_VENC_BASE + Request(c)[idx[c]])
             lost == IF Len(ctxs[c]) = idx[c] - 1 THEN {} ELSE {c}
  <2>1. Mark(met, lost) /\ cpc[c] = "publish"
    BY <1>2, Zenon DEF Publish, PublishAt
  <2>2. lost \in SUBSET Client /\ \A d \in lost : cpc[d] # "idle"
    BY <2>1
  <2>3. clash => met
    OBVIOUS
  <2> HIDE DEF met, lost
  <2>. QED BY <2>1, <2>2, <2>3, MarkPast
<1>3. ASSUME NEW s \in Single, StartJpeg(s) PROVE PastKept
  <2> DEFINE met == clash \/ InUse(SNAP_ENCODER_CHANNEL)
  <2>1. Mark(met, {}) /\ (clash => met)
    BY <1>3, Zenon DEF StartJpeg
  <2>2. {} \in SUBSET Client /\ \A d \in {} : cpc[d] # "idle"
    OBVIOUS
  <2> HIDE DEF met
  <2>. QED BY <2>1, <2>2, MarkPast
<1>4. ASSUME NEW c \in Client, ClientStep(c), ~Publish(c) PROVE UNCHANGED <<clash, void>>
  BY <1>4 DEF ClientStep, SkipChannel, CreateThread, CreateThreadFails, Join, Collect,
              CollectAs, Return, pastVars
<1>5. ASSUME NEW s \in Session, Pipeline(s) PROVE UNCHANGED <<clash, void>>
  BY <1>5 DEF Pipeline, CreateVenc, RegisterOutCb, CreateRga, CreateRgaOf, BindIn, BindOut,
              StartRecvFrame, Answered, TimedOut, UnBind, DestroyRga, DestroyVenc, pastVars
<1>6. /\ \A v \in Venc : PacketCb(v) \/ Deliver(v) => UNCHANGED <<clash, void>>
      /\ \A r \in OtherRga : OtherUser(r) => UNCHANGED <<clash, void>>
      /\ UNCHANGED vars => UNCHANGED <<clash, void>>
  BY DEF PacketCb, Deliver, OtherUser, vars, pastVars
<1>. QED BY <1>1, <1>2, <1>3, <1>4, <1>5, <1>6 DEF Inner

\* Only Call takes a client out of its idle state.
LEMMA InnerBusy ==
  ASSUME TypeOK, Inner, NEW c \in Client, cpc[c] = "idle"
  PROVE  cpc'[c] = "idle"
<1>1. ASSUME NEW d \in Client, ClientStep(d) PROVE cpc[d] # "idle" /\ (d = c \/ cpc'[c] = cpc[c])
  BY <1>1, NextChannelOwns
     DEF ClientStep, SkipChannel, Publish, PublishAt, CreateThread, CreateThreadFails, Join,
         Collect, CollectAs, Return, TypeOK, CallTypeOK
<1>2. ASSUME UNCHANGED callVars PROVE cpc'[c] = "idle"
  BY <1>2 DEF callVars
<1>3. UNCHANGED vars => UNCHANGED callVars
  BY DEF vars
<1>. QED BY <1>1, <1>2, <1>3, OtherSteps DEF Inner, Session

\* A call that begins during a clash is void; the others were, or are when it begins.
LEMMA MarkedStep ==
  ASSUME TypeOK, Marked, [Next]_vars
  PROVE  Marked'
<1>1. ASSUME NEW c \in Client, Call(c) PROVE Marked'
  <2>1. /\ clash' = (clash /\ (~Idle \/ wild))
        /\ void' = IF clash' THEN void \cup {c} ELSE void \ {c}
        /\ \A d \in Client \ {c} : cpc'[d] = cpc[d]
    BY <1>1 DEF Call, TypeOK, CallTypeOK
  <2>. QED BY <2>1 DEF Marked
<1>2. ASSUME Inner PROVE Marked'
  <2>1. PastKept /\ \A d \in Client : cpc'[d] # "idle" => cpc[d] # "idle"
    BY <1>2, InnerPast, InnerBusy
  <2>2. void \subseteq void'
    BY <2>1 DEF PastKept
  <2>. QED BY <2>1, <2>2 DEF PastKept, Marked
<1>. QED BY <1>1, <1>2, NextInner

\* At the start no context, no callback and no frame is.
LEMMA KeptInit == Init => KeptInv
<1> SUFFICES ASSUME Init PROVE KeptInv
  OBVIOUS
<1>1. LiveOwned /\ CbHeld /\ Marked
  BY DEF Init, LiveOwned, CbHeld, Marked
<1>2. Fresh
  BY DEF Init, Fresh
<1>. QED BY <1>1, <1>2 DEF KeptInv

\* Every step keeps them, in a clash too.
LEMMA KeptStep ==
  ASSUME SnapAssumption, TypeOK, TypeOK', IndexOK, SlotInv, PipeInv, KeptInv, [Next]_vars
  PROVE  KeptInv'
  BY OwnedStep, HeldStep, FreshStep, MarkedStep DEF KeptInv

(***************************************************************************)
(* What holds where no clash is: the sessions under way use encoders of    *)
(* their own, so the callback finds the context of the thread that created *)
(* its encoder, and the context its picture.                               *)
(***************************************************************************)
Apart == \A s, u \in Using : VencOf(s) = VencOf(u) => s = u

\* The entry of every context is its own from its publication to its end.
SlotFull ==
  \A a \in live : /\ SNAP_VENC_BASE + chan[a] \in Venc
                  /\ slot[SNAP_VENC_BASE + chan[a]] = a

\* A callback between its look-up and its delivery holds the context of the thread that
\* created its encoder, and a picture of that context's channel.
CbHome ==
  \A v \in Venc : cb[v] # None =>
    venc[v] = cb[v].ctx /\ cb[v].pic \in {None, chan[cb[v].ctx]}
Pictures == \A a \in live : img[a] \in {None, chan[a]}

\* A frame that was emitted is in its context, or in a callback on its way there; no
\* frame reaches a context before its thread has started.
Met ==
  \A a \in Addr :
    /\ pc[a] = "venc" => shot[a] = 0
    /\ pc[a] # "none" /\ shot[a] > 0 =>
         got[a] \/ (cb[VencOf(a)] # None /\ cb[VencOf(a)].ctx = a)
Unmet == \A a \in live : pc[a] = "none" => ~got[a]

\* The callbacks' part of the invariant, which a clash ends.
CbInv == CbHome /\ Pictures /\ Met /\ Unmet
CleanInv == Apart /\ SlotFull /\ CbInv

\* What an address and a thread of StartJpeg use.
LEMMA VencAddr ==
  ASSUME SnapAssumption
  PROVE  /\ \A a \in Addr : VencOf(a) = SNAP_VENC_BASE + chan[a] /\ a \notin Single
         /\ \A s \in Single : VencOf(s) = SNAP_ENCODER_CHANNEL
  BY DEF SnapAssumption, VencOf

\* A step of a pipeline moves the pipeline, which is under way.
LEMMA PipeSteps ==
  ASSUME TypeOK, NEW s \in Session, Pipeline(s)
  PROVE  /\ pc[s] \notin {"none", "exit"}
         /\ \E t : t \notin {"none", "venc"} /\ pc' = [pc EXCEPT ![s] = t]
<1>1. \A t : Goto(s, t) => pc' = [pc EXCEPT ![s] = t]
  BY DEF Goto
<1>2. pc' = pc => pc' = [pc EXCEPT ![s] = pc[s]]
  BY DEF TypeOK, PipeTypeOK
<1>. QED BY <1>1, <1>2
  DEF Pipeline, CreateVenc, RegisterOutCb, CreateRga, CreateRgaOf, BindIn,
      BindOut, StartRecvFrame, Answered, TimedOut, UnBind, DestroyRga, DestroyVenc

\* Sessions stay apart, and entries with their contexts, when no session begins.
LEMMA ApartKeep ==
  ASSUME SnapAssumption, TypeOK, Apart, chan' = chan, live' \subseteq live,
         \A s \in Single : pc'[s] \notin {"none", "exit"} => pc[s] \notin {"none", "exit"}
  PROVE  Apart' /\ \A s \in Using' : VencOf(s)' = VencOf(s)
<1>1. Using' \subseteq Using
  BY DEF Using, Running
<1>2. \A s : VencOf(s)' = VencOf(s)
  BY DEF VencOf
<1>. QED BY <1>1, <1>2 DEF Apart

\* A call frees a context: no other one has its encoder.
LEMMA ApartFree ==
  ASSUME SnapAssumption, TypeOK, IndexOK, SlotInv, Apart, SlotFull, NEW c \in Client,
         CreateThreadFails(c) \/ Collect(c)
  PROVE  Apart' /\ SlotFull'
<1>1. PICK a \in live :
        /\ live' = live \ {a} /\ chan' = chan
        /\ slot' \in {slot, [slot EXCEPT ![SNAP_VENC_BASE + chan[a]] = None]}
  BY Frees
<1>2. \A s \in Single : pc'[s] = pc[s]
  <2>1. Addr \cap Single = {}
    BY DEF SnapAssumption
  <2>2. CASE CreateThreadFails(c)
    BY <2>2 DEF CreateThreadFails, pipeVars
  <2>3. CASE Collect(c)
    <3>1. cpc[c] = "join" /\ pc' = [pc EXCEPT ![ctxs[c][idx[c]]] = "none"]
      BY <2>3 DEF Collect, CollectAs
    <3>2. ctxs[c][idx[c]] \in Addr
      BY <3>1, JoinCtx DEF IndexOK
    <3>. QED BY <2>1, <3>1, <3>2 DEF TypeOK, PipeTypeOK, Session
  <2>. QED BY <2>2, <2>3
<1>3. Apart'
  BY <1>1, <1>2, ApartKeep
<1>4. \A b \in live' : SNAP_VENC_BASE + chan[b] # SNAP_VENC_BASE + chan[a]
  <2>1. \A b \in live : VencOf(b) = SNAP_VENC_BASE + chan[b] /\ b \in Using
    BY VencAddr DEF Using, TypeOK, CtxTypeOK
  <2>. QED BY <1>1, <2>1 DEF Apart
<1>5. SlotFull'
  BY <1>1, <1>4 DEF SlotFull, TypeOK, CtxTypeOK
<1>. QED BY <1>3, <1>5

\* A context is published where no other session is.
LEMMA ApartPublish ==
  ASSUME SnapAssumption, TypeOK, Apart, SlotFull, NEW c \in Client, Publish(c), ~clash'
  PROVE  Apart' /\ SlotFull'
<1> DEFINE v == SNAP_VENC_BASE + Request(c)[idx[c]]
<1>1. PICK a \in Addr \ live :
        /\ live' = live \cup {a}
        /\ chan' = [chan EXCEPT ![a] = Request(c)[idx[c]]]
        /\ slot' = [slot EXCEPT ![v] = a]
  BY DEF Publish, PublishAt
<1>2. v \in Venc /\ pc' = pc /\ clash' = (clash \/ InUse(v))
  BY DEF Publish, PublishAt, pipeVars, Mark
<1>3. SNAP_VENC_BASE + chan'[a] = v
  BY <1>1 DEF TypeOK, CtxTypeOK
<1> HIDE DEF v
<1>4. \A s \in Using : VencOf(s) # v
  BY <1>2 DEF InUse
<1>5. \A b \in live : chan'[b] = chan[b] /\ b \in Addr
  BY <1>1 DEF TypeOK, CtxTypeOK
<1>6. \A s \in Using' : s \in Using \/ s = a
  BY <1>1, <1>2 DEF Using, Running
<1>7. \A s \in Using : VencOf(s)' = VencOf(s)
  BY <1>5 DEF Using, Running, VencOf
<1>8. VencOf(a)' = v
  <2>1. a \notin Single
    BY <1>1, VencAddr
  <2>. QED BY <1>3, <2>1 DEF VencOf
<1>9. Apart'
  <2> SUFFICES ASSUME NEW s \in Using', NEW u \in Using', VencOf(s)' = VencOf(u)'
               PROVE  s = u
    BY DEF Apart
  <2>. QED BY <1>4, <1>6, <1>7, <1>8 DEF Apart
<1>10. SlotFull'
  <2>1. \A b \in live : SNAP_VENC_BASE + chan[b] # v
    BY <1>4, VencAddr DEF Using, TypeOK, CtxTypeOK
  <2>. QED BY <1>1, <1>2, <1>3, <1>5, <2>1 DEF SlotFull, TypeOK, CtxTypeOK
<1>. QED BY <1>9, <1>10

\* Every step that makes no clash keeps the sessions apart.
LEMMA ApartStep ==
  ASSUME SnapAssumption, TypeOK, TypeOK', IndexOK, SlotInv, Apart, SlotFull, [Next]_vars, ~clash'
  PROVE  Apart' /\ SlotFull'
<1>1. ASSUME UNCHANGED <<chan, live, slot>>,
             \A s \in Single : pc'[s] \notin {"none", "exit"} => pc[s] \notin {"none", "exit"}
      PROVE  Apart' /\ SlotFull'
  BY <1>1, ApartKeep DEF SlotFull
<1>2. ASSUME NEW c \in Client, Call(c) \/ SkipChannel(c) \/ Join(c) \/ Return(c)
      PROVE  Apart' /\ SlotFull'
  <2>1. UNCHANGED <<chan, live, slot, pc>>
    BY <1>2 DEF Call, SkipChannel, Join, Return, ctxVars, pipeVars
  <2>. QED BY <1>1, <2>1
<1>3. ASSUME NEW c \in Client, CreateThread(c)
      PROVE  Apart' /\ SlotFull'
  <2>1. /\ UNCHANGED <<chan, live, slot>> /\ cpc[c] = "create"
        /\ pc' = [pc EXCEPT ![ctxs[c][Len(ctxs[c])]] = "venc"]
    BY <1>3 DEF CreateThread, ctxVars
  <2>2. ctxs[c][Len(ctxs[c])] \in Addr
    BY <2>1, LastCtx
  <2>3. \A s \in Single : pc'[s] = pc[s]
    BY <2>1, <2>2 DEF SnapAssumption, TypeOK, PipeTypeOK, Session
  <2>. QED BY <1>1, <2>1, <2>3
<1>4. ASSUME NEW s \in Session, Pipeline(s)
      PROVE  Apart' /\ SlotFull'
  <2>1. UNCHANGED <<chan, live, slot>>
    BY <1>4, OtherSteps
  <2>2. /\ pc[s] \notin {"none", "exit"}
        /\ \E t : pc' = [pc EXCEPT ![s] = t]
    BY <1>4, PipeSteps
  <2>3. \A u \in Single : u = s \/ pc'[u] = pc[u]
    BY <2>2 DEF TypeOK, PipeTypeOK, Session
  <2>. QED BY <1>1, <2>1, <2>2, <2>3
<1>5. ASSUME NEW s \in Single, StartJpeg(s)
      PROVE  Apart' /\ SlotFull'
  <2>1. /\ UNCHANGED <<chan, live, slot>> /\ pc' = [pc EXCEPT ![s] = "venc"]
        /\ clash' = (clash \/ InUse(SNAP_ENCODER_CHANNEL))
    BY <1>5 DEF StartJpeg, ctxVars, Goto, Mark
  <2>2. \A u \in Using : VencOf(u) # VencOf(s)
    BY <2>1, VencAddr DEF InUse
  <2>3. \A u \in Using' : u \in Using \/ u = s
    BY <2>1 DEF Using, Running, TypeOK, PipeTypeOK
  <2>4. \A u : VencOf(u)' = VencOf(u)
    BY <2>1 DEF VencOf
  <2>5. Apart'
    BY <2>2, <2>3, <2>4 DEF Apart
  <2>. QED BY <2>1, <2>5 DEF SlotFull
<1>6. ASSUME UNCHANGED <<chan, live, slot, pc>> PROVE Apart' /\ SlotFull'
  BY <1>1, <1>6
<1>7. /\ \A v \in Venc : PacketCb(v) \/ Deliver(v) => UNCHANGED <<chan, live, slot, pc>>
      /\ \A r \in OtherRga : OtherUser(r) => UNCHANGED <<chan, live, slot, pc>>
      /\ UNCHANGED vars => UNCHANGED <<chan, live, slot, pc>>
  BY DEF PacketCb, Deliver, OtherUser, vars, ctxVars, pipeVars
<1>. QED BY <1>2, <1>3, <1>4, <1>5, <1>6, <1>7, ApartFree, ApartPublish, NextInner
         DEF Inner, ClientStep

\* The context that a callback holds is in use.
LEMMA CbLive ==
  ASSUME SnapAssumption, TypeOK, PipeInv, CbHome, NEW v \in Venc, cb[v] # None
  PROVE  /\ cb[v].ctx \in Addr /\ cb[v].ctx \in live /\ cb[v].ctx = venc[v]
         /\ pc[cb[v].ctx] \in VencSteps /\ VencOf(cb[v].ctx) = v
<1>1. cb[v].ctx \in Addr /\ venc[v] = cb[v].ctx
  BY DEF TypeOK, CbTypeOK, CbHome
<1>2. pc[cb[v].ctx] \in VencSteps /\ VencOf(cb[v].ctx) = v
  BY <1>1 DEF PipeInv, Holding, Encoders, Session
<1>. QED BY <1>1, <1>2 DEF PipeInv, ThreadLife, Alive, VencSteps

\* The entry of an encoder is the context of the thread that created it.
LEMMA LookUp ==
  ASSUME SnapAssumption, TypeOK, IndexOK, SlotInv, PipeInv, Apart, SlotFull,
         NEW v \in Venc, venc[v] # None
  PROVE  venc[v] \in Addr \/ slot[v] # None => slot[v] = venc[v]
<1>1. venc[v] \in Session /\ pc[venc[v]] \in VencSteps /\ VencOf(venc[v]) = v
  BY DEF TypeOK, PipeTypeOK, PipeInv, Holding, Encoders
<1>2. CASE venc[v] \in Addr
  <2>1. venc[v] \in live
    BY <1>1, <1>2 DEF PipeInv, ThreadLife, Alive, VencSteps
  <2>. QED BY <1>1, <1>2, <2>1, VencAddr DEF SlotFull
<1>3. CASE venc[v] \in Single /\ slot[v] # None
  <2>1. venc[v] \in Using
    BY <1>1, <1>3 DEF Using, Running, VencSteps
  <2>2. slot[v] \in live /\ v = SNAP_VENC_BASE + chan[slot[v]]
    BY <1>3 DEF SlotInv, SlotHome
  <2>3. slot[v] \in Using /\ VencOf(slot[v]) = v
    BY <2>2, VencAddr DEF Using, TypeOK, CtxTypeOK
  <2>. QED BY <1>1, <2>1, <2>3 DEF Apart
<1>. QED BY <1>1, <1>2, <1>3 DEF Session

\* What a step leaves alone that is no callback's.
LEMMA CbKeep ==
  ASSUME TypeOK, CbInv, UNCHANGED <<chan, got, img, cbVars>>,
         live' \subseteq live,
         \A v \in Venc : cb[v] # None => venc'[v] = venc[v],
         \A a \in Addr : /\ pc'[a] = "venc" => pc[a] = "venc" \/ shot[a] = 0
                         /\ pc'[a] # "none" => pc[a] # "none" \/ shot[a] = 0
                         /\ a \in live' /\ pc'[a] = "none" => pc[a] = "none"
  PROVE  CbInv'
<1>1. CbHome'
  BY DEF CbInv, CbHome, cbVars
<1>2. Pictures'
  BY DEF CbInv, Pictures
<1>3. Met'
  BY DEF CbInv, Met, cbVars, VencOf, TypeOK, CbTypeOK, Session
<1>4. Unmet'
  BY DEF CbInv, Unmet, TypeOK, CtxTypeOK
<1>. QED BY <1>1, <1>2, <1>3, <1>4 DEF CbInv

\* The steps of a call: what it publishes is new, what it frees no callback holds.
LEMMA CbClient ==
  ASSUME SnapAssumption, TypeOK, IndexOK, PipeInv, Fresh, CbInv, NEW c \in Client,
         Call(c) \/ ClientStep(c)
  PROVE  CbInv'
<1>2. CASE Call(c) \/ SkipChannel(c) \/ Join(c) \/ Return(c)
  <2>1. UNCHANGED <<ctxVars, pipeVars, cbVars>>
    BY <1>2 DEF Call, SkipChannel, Join, Return
  <2>. QED BY <2>1, CbKeep DEF ctxVars, pipeVars
<1>3. CASE CreateThread(c)
  <2> DEFINE a == ctxs[c][Len(ctxs[c])]
  <2>1. /\ cpc[c] = "create" /\ pc' = [pc EXCEPT ![a] = "venc"]
        /\ UNCHANGED <<ctxs, live, chan, got, img, venc, cbVars>>
    BY <1>3 DEF CreateThread, ctxVars
  <2>2. a \in Addr /\ shot[a] = 0
    BY <2>1, LastCtx DEF Fresh
  <2> HIDE DEF a
  <2>3. \A b \in Addr : b = a \/ pc'[b] = pc[b]
    BY <2>1, <2>2 DEF TypeOK, PipeTypeOK, Session
  <2>4. pc'[a] = "venc"
    BY <2>1, <2>2 DEF TypeOK, PipeTypeOK, Session
  <2>. QED BY <2>1, <2>2, <2>3, <2>4, CbKeep
<1>4. CASE CreateThreadFails(c) \/ Collect(c)
  <2>1. live' \subseteq live /\ UNCHANGED <<chan, got, img, venc, cbVars>>
    BY <1>4 DEF CreateThreadFails, Collect, CollectAs, pipeVars
  <2>2. \A b \in Addr : pc'[b] \in {"none", pc[b]} /\ (b \in live' => pc'[b] = pc[b])
    <3>1. CASE CreateThreadFails(c)
      BY <3>1 DEF CreateThreadFails, pipeVars
    <3>2. CASE Collect(c)
      BY <3>2 DEF Collect, CollectAs, TypeOK, PipeTypeOK, Session
    <3>. QED BY <1>4, <3>1, <3>2
  <2>. QED BY <2>1, <2>2, CbKeep
<1>5. CASE Publish(c)
  <2>1. PICK a \in Addr \ live :
          /\ live' = live \cup {a}
          /\ chan' = [chan EXCEPT ![a] = Request(c)[idx[c]]]
          /\ got'  = [got EXCEPT ![a] = FALSE]
          /\ img'  = [img EXCEPT ![a] = None]
          /\ shot' = [shot EXCEPT ![a] = 0]
    BY <1>5 DEF Publish, PublishAt
  <2>2. UNCHANGED <<pc, venc, cb>>
    BY <1>5 DEF Publish, PublishAt, pipeVars
  <2>3. \A b \in Addr \ {a} :
          /\ chan'[b] = chan[b] /\ got'[b] = got[b] /\ img'[b] = img[b]
          /\ shot'[b] = shot[b] /\ VencOf(b)' = VencOf(b)
    BY <2>1 DEF TypeOK, CtxTypeOK, CbTypeOK, VencOf
  <2>4. pc[a] = "none"
    BY DEF PipeInv, ThreadLife, Alive
  <2>5. img'[a] = None /\ shot'[a] = 0 /\ got'[a] = FALSE
    BY <2>1 DEF TypeOK, CtxTypeOK, CbTypeOK, Session
  <2>6. CbHome'
    <3>1. \A v \in Venc : cb[v] # None =>
            cb[v].ctx \in Addr /\ cb[v].ctx \in live
      BY CbLive DEF CbInv
    <3>. QED BY <2>1, <2>2, <2>3, <3>1 DEF CbInv, CbHome
  <2>7. Pictures'
    BY <2>1, <2>3, <2>5 DEF CbInv, Pictures, TypeOK, CtxTypeOK
  <2>8. Unmet'
    BY <2>1, <2>2, <2>3, <2>5 DEF CbInv, Unmet, TypeOK, CtxTypeOK
  <2>9. Met'
    BY SMTT(30), <2>2, <2>3, <2>4 DEF CbInv, Met
  <2>. QED BY <2>6, <2>7, <2>8, <2>9 DEF CbInv
<1>. QED BY <1>2, <1>3, <1>4, <1>5 DEF ClientStep

\* The steps of a pipeline: an encoder is not destroyed under its callback.
LEMMA CbPipeline ==
  ASSUME SnapAssumption, TypeOK, CbHeld, CbInv, NEW s \in Session, Pipeline(s)
  PROVE  CbInv'
<1>1. UNCHANGED <<callVars, live, chan>>
  BY OtherSteps
<1>2. UNCHANGED <<got, img, cbVars>>
  BY DEF Pipeline, CreateVenc, RegisterOutCb, CreateRga, CreateRgaOf, BindIn,
         BindOut, StartRecvFrame, Answered, TimedOut, UnBind, DestroyRga,
         DestroyVenc, ctxVars
<1>3. \A a \in Addr : pc'[a] = pc[a] \/ (pc'[a] \notin {"none", "venc"} /\ pc[a] # "none")
  <2>1. PICK t : t \notin {"none", "venc"} /\ pc' = [pc EXCEPT ![s] = t]
    BY PipeSteps
  <2>2. pc[s] # "none"
    BY PipeSteps
  <2>. QED BY <2>1, <2>2 DEF TypeOK, PipeTypeOK, Session
<1>4. \A v \in Venc : cb[v] # None => venc'[v] = venc[v]
  BY HeldPipe
<1>. QED BY <1>1, <1>2, <1>3, <1>4, CbKeep

\* The callback looks its context up, ...
LEMMA CbPacket ==
  ASSUME SnapAssumption, TypeOK, IndexOK, SlotInv, PipeInv, CleanInv,
         NEW v \in Venc, PacketCb(v)
  PROVE  CbInv'
<1> DEFINE s == venc[v]
<1>1. /\ cb[v] = None /\ s # None /\ pc[s] \in {"wait", "unbindOut"}
      /\ shot' = [shot EXCEPT ![s] = @ + 1]
      /\ UNCHANGED <<callVars, ctxVars, pipeVars>>
  BY DEF PacketCb
<1>2. s \in Session /\ VencOf(s) = v
  BY <1>1 DEF TypeOK, PipeTypeOK, PipeInv, Holding, Encoders
<1>3. s \in Addr \/ slot[v] # None => slot[v] = s
  BY <1>1, LookUp DEF CleanInv
<1>4. \/ slot[v] = None /\ cb' = cb
      \/ /\ slot[v] # None
         /\ \E p \in {None, ChanOf(s)} : cb' = [cb EXCEPT ![v] = [ctx |-> slot[v], pic |-> p]]
  BY DEF PacketCb
<1>5. slot[v] # None => slot[v] \in Addr
  BY DEF TypeOK, CtxTypeOK
<1>6. {None} \cap Addr = {} /\ Addr \cap Single = {}
  BY DEF SnapAssumption
<1>7. \A u \in Venc \ {v} : cb'[u] = cb[u]
  BY <1>4 DEF TypeOK, CbTypeOK
<1>8. \/ slot[v] = None /\ cb'[v] = None
      \/ /\ slot[v] = s /\ s \in Addr /\ cb'[v] # None
         /\ cb'[v].ctx = s /\ cb'[v].pic \in {None, chan[s]}
  <2>1. CASE slot[v] = None
    BY <1>1, <1>4, <2>1
  <2>2. CASE slot[v] # None
    <3>1. slot[v] = s /\ s \in Addr /\ ChanOf(s) = chan[s]
      BY <1>3, <1>5, <1>6, <2>2 DEF ChanOf
    <3>2. PICK p \in {None, chan[s]} : cb' = [cb EXCEPT ![v] = [ctx |-> s, pic |-> p]]
      BY <1>4, <2>2, <3>1
    <3>3. cb'[v] = [ctx |-> s, pic |-> p]
      BY <3>2 DEF TypeOK, CbTypeOK
    <3>4. p \in Nat \cup {None}
      BY <3>1 DEF TypeOK, CtxTypeOK
    <3>5. cb'[v] # None
      BY <3>1, <3>3, <3>4 DEF SnapAssumption
    <3>. QED BY <3>1, <3>3, <3>5
  <2>. QED BY <2>1, <2>2
<1>9. CbHome' /\ Pictures' /\ Unmet'
  BY <1>1, <1>7, <1>8 DEF CleanInv, CbInv, CbHome, Pictures, Unmet, ctxVars, pipeVars
<1>10. \A u \in Session \ {s} : shot'[u] = shot[u]
  BY <1>1 DEF TypeOK, CbTypeOK
<1> HIDE DEF s
<1>11. Met'
  <2> SUFFICES ASSUME NEW a \in Addr
               PROVE  /\ pc[a] = "venc" => shot'[a] = 0
                      /\ pc[a] # "none" /\ shot'[a] > 0 =>
                           got[a] \/ (cb'[VencOf(a)] # None /\ cb'[VencOf(a)].ctx = a)
    BY <1>1 DEF Met, VencOf, ctxVars, pipeVars
  <2>1. CASE a = s
    <3>1. slot[v] # None
      BY <1>3, <1>6, <2>1
    <3>. QED BY <1>1, <1>2, <1>8, <2>1, <3>1
  <2>2. CASE a # s
    <3>1. shot'[a] = shot[a]
      BY <1>10, <2>2 DEF Session
    <3>2. pc[a] # "none" /\ shot[a] > 0 =>
            got[a] \/ (cb[VencOf(a)] # None /\ cb[VencOf(a)].ctx = a)
      BY DEF CleanInv, CbInv, Met
    <3>3. pc[a] # "none" => VencOf(a) \in Venc
      BY DEF PipeInv, ThreadLife, Placed, Session
    <3>4. pc[a] = "venc" => shot[a] = 0
      BY DEF CleanInv, CbInv, Met
    <3>. QED BY <1>1, <1>7, <3>1, <3>2, <3>3, <3>4
  <2>. QED BY <2>1, <2>2
<1>. QED BY <1>9, <1>11 DEF CbInv

\* ... and delivers the picture to it.
LEMMA CbDeliver ==
  ASSUME SnapAssumption, TypeOK, PipeInv, CbInv, NEW v \in Venc, Deliver(v)
  PROVE  CbInv'
<1> DEFINE a == cb[v].ctx
<1>1. /\ cb[v] # None /\ cb' = [cb EXCEPT ![v] = None]
      /\ UNCHANGED <<callVars, live, chan, slot, pipeVars, shot>>
  BY DEF Deliver
<1>2. a \in Addr /\ a \in live /\ VencOf(a) = v /\ pc[a] # "none"
  BY <1>1, CbLive DEF CbInv, VencSteps
<1>3. cb[v].pic \in {None, chan[a]}
  BY <1>1 DEF CbInv, CbHome
<1>4. \/ got[a] /\ UNCHANGED <<got, img>>
      \/ got' = [got EXCEPT ![a] = TRUE] /\ img' = [img EXCEPT ![a] = cb[v].pic]
  BY <1>2 DEF Deliver
<1>5. cb'[v] = None /\ \A u \in Venc \ {v} : cb'[u] = cb[u]
  BY <1>1 DEF TypeOK, CbTypeOK
<1>6. CbHome'
  BY <1>1, <1>5 DEF CbInv, CbHome, pipeVars
<1>7. Pictures'
  BY <1>1, <1>2, <1>3, <1>4 DEF CbInv, Pictures, TypeOK, CtxTypeOK
<1> HIDE DEF a
<1>8. Unmet'
  <2>1. \A b \in live' : b = a \/ got'[b] = got[b]
    BY <1>1, <1>4 DEF TypeOK, CtxTypeOK
  <2>. QED BY <1>1, <1>2, <2>1 DEF CbInv, Unmet, pipeVars
<1>9. Met'
  <2>1. got'[a] /\ \A b \in Addr : got[b] => got'[b]
    BY <1>2, <1>4, Zenon DEF TypeOK, CtxTypeOK
  <2>2. \A b \in Addr : pc[b] # "none" => VencOf(b) \in Venc
    BY DEF PipeInv, ThreadLife, Placed, Session
  <2>. QED BY <1>1, <1>2, <1>5, <2>1, <2>2 DEF CbInv, Met, VencOf, pipeVars, a
<1>. QED BY <1>6, <1>7, <1>8, <1>9 DEF CbInv

\* The steps of StartJpeg's callers and of other subsystems.
LEMMA CbOthers ==
  ASSUME SnapAssumption, TypeOK, CbInv,
         \/ \E s \in Single : StartJpeg(s)
         \/ \E r \in OtherRga : OtherUser(r)
         \/ UNCHANGED vars
  PROVE  CbInv'
<1>1. CASE \E s \in Single : StartJpeg(s)
  <2>1. PICK s \in Single : StartJpeg(s)
    BY <1>1
  <2>2. /\ UNCHANGED <<callVars, ctxVars, venc, cb>>
        /\ shot' = [shot EXCEPT ![s] = 0] /\ pc' = [pc EXCEPT ![s] = "venc"]
    BY <2>1 DEF StartJpeg, Goto
  <2>3. \A a \in Addr : pc'[a] = pc[a] /\ shot'[a] = shot[a]
    BY <2>2 DEF SnapAssumption, TypeOK, PipeTypeOK, CbTypeOK, Session
  <2>4. CbHome' /\ Pictures'
    BY <2>2 DEF CbInv, CbHome, Pictures, ctxVars
  <2>5. Met'
    BY <2>2, <2>3 DEF CbInv, Met, VencOf, ctxVars
  <2>6. Unmet'
    BY <2>2, <2>3 DEF CbInv, Unmet, ctxVars, TypeOK, CtxTypeOK
  <2>. QED BY <2>4, <2>5, <2>6 DEF CbInv
<1>2. CASE (\E r \in OtherRga : OtherUser(r)) \/ UNCHANGED vars
  <2>1. UNCHANGED <<callVars, ctxVars, pc, venc, cbVars>>
    BY <1>2 DEF OtherUser, vars, pipeVars
  <2>. QED BY <2>1, CbKeep DEF callVars, ctxVars
<1>. QED BY <1>1, <1>2

\* Every step that makes no clash.
LEMMA CbStep ==
  ASSUME SnapAssumption, TypeOK, IndexOK, SlotInv, PipeInv, KeptInv, CleanInv, [Next]_vars
  PROVE  CbInv'
<1>1. CbInv /\ Fresh /\ CbHeld
  BY DEF CleanInv, KeptInv
<1>. QED BY <1>1, CbClient, CbPipeline, CbPacket, CbDeliver, CbOthers DEF Next, Done

\* A call that finds the engine idle finds no context, no encoder and no callback.
LEMMA CleanStart ==
  ASSUME SnapAssumption, TypeOK, PipeInv, KeptInv, NEW c \in Client, Call(c), clash, ~clash'
  PROVE  CleanInv'
<1>1. Idle /\ UNCHANGED <<ctxVars, pipeVars, cbVars>>
  BY DEF Call
<1>2. live = {} /\ Running = {}
  BY <1>1 DEF Idle, KeptInv, LiveOwned, Owns
<1>3. \A s \in Session : pc[s] \in {"none", "exit"} /\ (s \in Addr => pc[s] = "none")
  BY <1>2 DEF Running, Session, PipeInv, ThreadLife, Alive
<1>4. \A v \in Venc : cb[v] = None
  <2>1. \A v \in Venc : venc[v] = None
    <3> SUFFICES ASSUME NEW v \in Venc, venc[v] # None PROVE FALSE
      OBVIOUS
    <3>1. NothingLeaked
      BY PipeImplies
    <3>2. pc[venc[v]] \in VencSteps /\ venc[v] \in Session
      BY <3>1 DEF NothingLeaked, TypeOK, PipeTypeOK
    <3>. QED BY <1>3, <3>2 DEF VencSteps
  <2>. QED BY <2>1 DEF KeptInv, CbHeld
<1>5. Using' = {} /\ live' = {}
  BY <1>1, <1>2 DEF Using, Running, ctxVars, pipeVars
<1>6. Apart' /\ SlotFull' /\ Pictures' /\ Unmet'
  BY <1>5 DEF Apart, SlotFull, Pictures, Unmet
<1>7. CbHome' /\ Met'
  BY <1>1, <1>3, <1>4 DEF CbHome, Met, pipeVars, cbVars, Session
<1>. QED BY <1>6, <1>7 DEF CleanInv, CbInv

\* A step that is no clash keeps the sessions apart.
LEMMA CleanStep ==
  ASSUME SnapAssumption, TypeOK, TypeOK', IndexOK, SlotInv, PipeInv, KeptInv,
         ~clash => CleanInv, [Next]_vars
  PROVE  ~clash' => CleanInv'
<1> SUFFICES ASSUME ~clash' PROVE CleanInv'
  OBVIOUS
<1>1. CASE clash
  <2>1. PICK c \in Client : Call(c)
    BY <1>1, NextInner, InnerPast DEF PastKept
  <2>. QED BY <1>1, <2>1, CleanStart
<1>2. CASE ~clash
  BY <1>2, ApartStep, CbStep DEF CleanInv
<1>. QED BY <1>1, <1>2

\* At the start there is neither a context nor a callback.
LEMMA CleanInit == SnapAssumption /\ Init => CleanInv
<1> SUFFICES ASSUME SnapAssumption, Init PROVE CleanInv
  OBVIOUS
<1>1. Using = {} /\ live = {}
  BY DEF Init, Using, Running, Session
<1>2. Apart /\ SlotFull /\ Pictures /\ Unmet
  BY <1>1 DEF Apart, SlotFull, Pictures, Unmet
<1>3. CbHome /\ Met
  BY DEF Init, CbHome, Met, Session
<1>. QED BY <1>2, <1>3 DEF CleanInv, CbInv

\* The invariant: one part for every state, one for the states before any clash.
Past == TypeOK /\ IndexOK /\ SlotInv /\ PipeInv /\ KeptInv /\ (~clash => CleanInv)

\* The invariants hold together.
LEMMA PastCorrect == Spec => []Past
<1>1. Init => KeptInv /\ (~clash => CleanInv)
  BY KeptInit, CleanInit, SnapAssumption
<1>2. TypeOK /\ IndexOK /\ SlotInv /\ PipeInv /\ TypeOK' /\ [Next]_vars
        => (KeptInv /\ (~clash => CleanInv) => KeptInv' /\ (~clash' => CleanInv'))
  BY KeptStep, CleanStep, SnapAssumption
<1>. QED BY <1>1, <1>2, PipeCorrect, PTL DEF Spec, Past

\* Unless two sessions use one encoder at once, a frame never reaches a context that its
\* call has freed, however late it comes.
THEOREM CallbackCorrect == Spec => []NoDanglingCallback
<1>1. Past => NoDanglingCallback
  BY CbLive, SnapAssumption DEF Past, CleanInv, CbInv, NoDanglingCallback
<1>. QED BY <1>1, PastCorrect, PTL

\* Unless two sessions use one encoder at once, no frame that an encoder emits in time is
\* lost: the call has it.
THEOREM FrameCorrect == Spec => []FrameReachesRequest
<1>1. Past => FrameReachesRequest
  <2> SUFFICES ASSUME TypeOK, PipeInv, CbInv, NEW a \in Addr,
                      pc[a] = "exit", shot[a] > 0, ~got[a]
               PROVE  FALSE
    BY DEF FrameReachesRequest, Past, CleanInv
  <2>1. cb[VencOf(a)] # None /\ cb[VencOf(a)].ctx = a
    BY DEF CbInv, Met
  <2>2. VencOf(a) \in Venc
    BY DEF PipeInv, ThreadLife, Placed, Session
  <2>3. pc[a] \in VencSteps
    BY <2>1, <2>2, CbLive, SnapAssumption DEF CbInv
  <2>. QED BY <2>3 DEF VencSteps
<1>. QED BY <1>1, PastCorrect, PTL

(***************************************************************************)
(* The i-th context of a call is that of its i-th channel, unless the call *)
(* is void.                                                                *)
(***************************************************************************)
Aligned ==
  \A c \in Client \ void : \A k \in Nat : Owns(c, k) => chan[ctxs[c][k]] = Request(c)[k]

\* Contexts and results are those of the channel of their index.
ResultInv == Aligned /\ ImageMatchesChannel

\* A step that makes no context and stores no picture.
LEMMA AlignKeep ==
  ASSUME ResultInv, UNCHANGED <<callno, results, chan>>, void \subseteq void',
         \A d \in Client : \A k \in Nat : Owns(d, k)' =>
           Owns(d, k) /\ ctxs'[d][k] = ctxs[d][k]
  PROVE  ResultInv'
<1>1. Aligned'
  BY DEF ResultInv, Aligned, Request
<1>2. ImageMatchesChannel'
  BY DEF ResultInv, ImageMatchesChannel, Request
<1>. QED BY <1>1, <1>2 DEF ResultInv

\* The steps of a call's loops outside the life of its contexts.
LEMMA LoopOwns ==
  ASSUME TypeOK, NEW c \in Client,
         SkipChannel(c) \/ CreateThread(c) \/ Join(c) \/ Return(c)
  PROVE  /\ UNCHANGED <<callno, results, ctxs, live, chan, got, img>>
         /\ \A d \in Client \ {c} : cpc'[d] = cpc[d]
         /\ \A d \in Client : \A k \in Nat : Owns(d, k)' <=> Owns(d, k)
<1>1. /\ UNCHANGED <<callno, results, ctxs, live, chan, got, img>>
      /\ \A d \in Client \ {c} : cpc'[d] = cpc[d] /\ idx'[d] = idx[d]
  BY NextChannelOwns
     DEF SkipChannel, CreateThread, Join, Return, ctxVars, TypeOK, CallTypeOK
<1>2. \A k \in Nat : Owns(c, k)' <=> Owns(c, k)
  <2>1. CASE SkipChannel(c) \/ CreateThread(c)
    <3>1. /\ cpc[c] \in {"publish", "create"} /\ cpc'[c] \in {"publish", "test"}
          /\ cpc'[c] = "test" => idx'[c] = 1
      BY <2>1, NextChannelOwns DEF SkipChannel, CreateThread
    <3>. QED BY <1>1, <3>1 DEF Owns
  <2>2. CASE Join(c)
    BY <1>1, <2>2 DEF Owns, Join, TypeOK, CallTypeOK
  <2>3. CASE Return(c)
    BY <1>1, <2>3 DEF Owns, Return, TypeOK, CallTypeOK
  <2>. QED BY <2>1, <2>2, <2>3
<1>3. \A d \in Client \ {c} : \A k \in Nat : Owns(d, k)' <=> Owns(d, k)
  BY <1>1 DEF Owns
<1>. QED BY <1>1, <1>2, <1>3

\* The new context of a call that is not void is that of the channel the loop has come to.
LEMMA PublishPlace ==
  ASSUME TypeOK, NEW c \in Client, Publish(c), c \notin void'
  PROVE  Len(ctxs[c]) = idx[c] - 1
<1> DEFINE lost == IF Len(ctxs[c]) = idx[c] - 1 THEN {} ELSE {c}
<1>1. Mark(clash \/ InUse(SNAP_VENC_BASE + Request(c)[idx[c]]), lost)
  BY Zenon DEF Publish, PublishAt
<1>2. c \notin lost
  BY <1>1 DEF Mark
<1>. QED BY <1>2

\* A call that takes on a context owns that one too.
LEMMA PublishOwns ==
  ASSUME TypeOK, NEW c \in Client, NEW a, Publish(c),
         ctxs' = [ctxs EXCEPT ![c] = Append(@, a)]
  PROVE  /\ ctxs'[c][Len(ctxs[c]) + 1] = a
         /\ \A d \in Client : \A k \in Nat :
              /\ Owns(d, k)' <=> Owns(d, k) \/ (d = c /\ k = Len(ctxs[c]) + 1)
              /\ Owns(d, k) => ctxs'[d][k] = ctxs[d][k] /\ ~(d = c /\ k = Len(ctxs[c]) + 1)
<1>0. PICK n \in Nat : n = Len(ctxs[c]) + 1
  BY DEF TypeOK, CallTypeOK
<1>1. cpc[c] = "publish" /\ cpc' = [cpc EXCEPT ![c] = "create"] /\ idx' = idx
  BY DEF Publish, PublishAt
<1>2. /\ n \in 1 .. n /\ Len(ctxs[c]) = n - 1
      /\ Len(ctxs'[c]) = n /\ ctxs'[c][n] = a
      /\ \A k \in 1 .. n - 1 : ctxs'[c][k] = ctxs[c][k]
  BY <1>0 DEF TypeOK, CallTypeOK
<1>3. cpc'[c] = "create" /\ \A d \in Client \ {c} :
        cpc'[d] = cpc[d] /\ idx'[d] = idx[d] /\ ctxs'[d] = ctxs[d]
  BY <1>1 DEF TypeOK, CallTypeOK
<1>4. \A k \in Nat :
        /\ Owns(c, k)' <=> Owns(c, k) \/ k = n
        /\ Owns(c, k) => ctxs'[c][k] = ctxs[c][k] /\ k # n
  BY <1>1, <1>2, <1>3 DEF Owns
<1>5. \A d \in Client \ {c} : \A k \in Nat :
        (Owns(d, k)' <=> Owns(d, k)) /\ ctxs'[d] = ctxs[d]
  BY <1>3 DEF Owns
<1>. QED BY <1>0, <1>2, <1>4, <1>5

\* A context that is published has the channel of its place.
LEMMA AlignPublish ==
  ASSUME SnapAssumption, TypeOK, IndexOK, SlotInv, ResultInv, NEW c \in Client,
         Publish(c)
  PROVE  ResultInv'
<1>1. PICK a \in Addr \ live :
        /\ chan' = [chan EXCEPT ![a] = Request(c)[idx[c]]]
        /\ ctxs' = [ctxs EXCEPT ![c] = Append(@, a)]
  BY DEF Publish, PublishAt
<1>2. UNCHANGED <<callno, idx, results>> /\ void \subseteq void'
  BY DEF Publish, PublishAt, Mark
<1>3. \A d \in Client : Request(d)' = Request(d)
  BY <1>2 DEF Request
<1>4. Aligned'
  <2> SUFFICES ASSUME NEW d \in Client \ void', NEW k \in Nat, Owns(d, k)'
               PROVE  (chan[ctxs[d][k]] = Request(d)[k])'
    BY DEF Aligned
  <2>1. CASE Owns(d, k)
    <3>1. ctxs[d][k] \in live /\ chan[ctxs[d][k]] = Request(d)[k]
      BY <1>2, <2>1 DEF SlotInv, OwnedLive, ResultInv, Aligned
    <3>2. ctxs'[d][k] = ctxs[d][k]
      BY <1>1, <2>1, PublishOwns
    <3>. QED BY <1>1, <1>3, <3>1, <3>2 DEF TypeOK, CtxTypeOK
  <2>2. CASE ~Owns(d, k)
    <3>1. d = c /\ k = Len(ctxs[c]) + 1 /\ ctxs'[d][k] = a
      BY <1>1, <2>2, PublishOwns
    <3>2. k = idx[c]
      BY <3>1, PublishPlace DEF TypeOK, CallTypeOK
    <3>. QED BY <1>1, <1>3, <3>1, <3>2 DEF TypeOK, CtxTypeOK
  <2>. QED BY <2>1, <2>2
<1>5. ImageMatchesChannel'
  BY <1>2, <1>3 DEF ResultInv, ImageMatchesChannel
<1>. QED BY <1>4, <1>5 DEF ResultInv

\* A call begins with no picture.
LEMMA AlignCall ==
  ASSUME TypeOK, IndexOK, ResultInv, NEW c \in Client, Call(c)
  PROVE  ResultInv'
<1>1. /\ chan' = chan /\ ctxs'[c] = <<>>
      /\ \A d \in Client \ {c} :
           /\ callno'[d] = callno[d] /\ cpc'[d] = cpc[d] /\ idx'[d] = idx[d]
           /\ ctxs'[d] = ctxs[d] /\ results'[d] = results[d]
           /\ d \in void' <=> d \in void
  BY DEF Call, ctxVars, TypeOK, CallTypeOK
<1>2. \A d \in Client : \A k \in Nat : Owns(d, k)' => d # c /\ Owns(d, k)
  BY <1>1 DEF Owns
<1>3. \A i \in DOMAIN results'[c] : results'[c][i] = None
  BY DEF Call, NoPictures, TypeOK, CallTypeOK
<1>4. Aligned'
  <2> SUFFICES ASSUME NEW d \in Client \ void', NEW k \in Nat, Owns(d, k)'
               PROVE  (chan[ctxs[d][k]] = Request(d)[k])'
    BY DEF Aligned
  <2>1. d # c /\ Owns(d, k) /\ d \notin void
    BY <1>1, <1>2
  <2>2. Request(d)' = Request(d) /\ ctxs'[d] = ctxs[d]
    BY <1>1, <2>1 DEF Request
  <2>. QED BY <1>1, <2>1, <2>2 DEF ResultInv, Aligned
<1>5. ImageMatchesChannel'
  BY <1>1, <1>3 DEF ResultInv, ImageMatchesChannel, Request
<1>. QED BY <1>4, <1>5 DEF ResultInv

\* The picture a call takes from its i-th context is one of its i-th channel.
LEMMA AlignCollect ==
  ASSUME Past, ResultInv, NEW c \in Client, Collect(c)
  PROVE  ResultInv'
<1>. TypeOK /\ IndexOK /\ SlotInv
  BY DEF Past
<1>0. PICK n \in Nat : n = idx[c]
  BY DEF TypeOK, CallTypeOK
<1>1. /\ cpc[c] = "join" /\ UNCHANGED <<callno, chan, ctxs, void>>
      /\ results' = [results EXCEPT ![c][n] = img[ctxs[c][n]]]
      /\ cpc'[c] = "test" /\ idx'[c] = n + 1
      /\ \A d \in Client \ {c} : cpc'[d] = cpc[d] /\ idx'[d] = idx[d]
  BY <1>0 DEF Collect, CollectAs, pastVars, TypeOK, CallTypeOK
<1>2. Owns(c, n)
  BY <1>0, <1>1 DEF Owns, IndexOK, TypeOK, CallTypeOK
<1>3. c \notin void => img[ctxs[c][n]] \in {None, Request(c)[n]}
  <2> SUFFICES ASSUME c \notin void PROVE img[ctxs[c][n]] \in {None, Request(c)[n]}
    OBVIOUS
  <2>1. ~clash
    BY <1>1 DEF Past, KeptInv, Marked
  <2>2. Pictures
    BY <2>1 DEF Past, CleanInv, CbInv
  <2>. QED BY <1>2, <2>2 DEF ResultInv, Aligned, SlotInv, OwnedLive, Pictures
<1>4. \A d \in Client : \A k \in Nat : Owns(d, k)' => Owns(d, k)
  BY <1>0, <1>1 DEF Owns
<1>5. Aligned'
  BY <1>1, <1>4 DEF ResultInv, Aligned, Request
<1>6. ImageMatchesChannel'
  <2>1. /\ results'[c] = [results[c] EXCEPT ![n] = img[ctxs[c][n]]]
        /\ \A d \in Client \ {c} : results'[d] = results[d]
    BY <1>1 DEF TypeOK, CallTypeOK
  <2>2. \A i \in DOMAIN results'[c] :
          /\ i \in DOMAIN results[c]
          /\ results'[c][i] = IF i = n THEN img[ctxs[c][n]] ELSE results[c][i]
    BY <2>1
  <2>. QED BY <1>1, <1>3, <2>1, <2>2 DEF ResultInv, ImageMatchesChannel, Request
<1>. QED BY <1>5, <1>6 DEF ResultInv

\* Every step.
LEMMA AlignStep ==
  ASSUME SnapAssumption, Past, ResultInv, [Next]_vars
  PROVE  ResultInv'
<1>0. TypeOK /\ IndexOK /\ SlotInv
  BY DEF Past
<1>1. ASSUME NEW c \in Client, Call(c) \/ Publish(c) \/ Collect(c)
      PROVE  ResultInv'
  BY <1>0, <1>1, AlignCall, AlignPublish, AlignCollect
<1>2. Inner => void \subseteq void'
  BY <1>0, InnerPast DEF PastKept
<1>3. ASSUME NEW c \in Client, SkipChannel(c) \/ CreateThread(c) \/ Join(c) \/ Return(c), Inner
      PROVE  ResultInv'
  <2>1. UNCHANGED <<callno, results, ctxs, chan>>
        /\ \A d \in Client : \A k \in Nat : Owns(d, k)' <=> Owns(d, k)
    BY <1>0, <1>3, LoopOwns
  <2>. QED BY <1>2, <1>3, <2>1, AlignKeep
<1>4. ASSUME NEW c \in Client, CreateThreadFails(c), Inner
      PROVE  ResultInv'
  <2>1. UNCHANGED <<callno, results, chan>>
    BY <1>4 DEF CreateThreadFails
  <2>2. \A d \in Client : \A k \in Nat : Owns(d, k)' =>
          Owns(d, k) /\ ctxs'[d][k] = ctxs[d][k]
    BY <1>0, <1>4, Frees
  <2>. QED BY <1>2, <1>4, <2>1, <2>2, AlignKeep
<1>5. ASSUME UNCHANGED <<callVars, live, chan, slot>>, Inner
      PROVE  ResultInv'
  <2>1. \A d \in Client : \A k \in Nat : Owns(d, k)' <=> Owns(d, k)
    BY <1>5 DEF Owns, callVars
  <2>. QED BY <1>2, <1>5, <2>1, AlignKeep DEF callVars
<1>6. UNCHANGED vars => UNCHANGED <<callVars, live, chan, slot>>
  BY DEF vars, ctxVars
<1>7. ASSUME Inner PROVE ResultInv'
  BY <1>1, <1>3, <1>4, <1>5, <1>6, <1>7, OtherSteps DEF Inner, ClientStep, Session
<1>. QED BY <1>1, <1>7, NextInner

\* A call that is not void returns under each index nothing or a picture of the channel
\* it named there.
THEOREM ImageCorrect == Spec => []ImageMatchesChannel
<1>1. Init => ResultInv
  BY DEF Init, ResultInv, Aligned, ImageMatchesChannel, Owns
<1>2. Past /\ [Next]_vars => (ResultInv => ResultInv')
  BY AlignStep, SnapAssumption
<1>3. ResultInv => ImageMatchesChannel
  BY DEF ResultInv
<1>. QED BY <1>1, <1>2, <1>3, PastCorrect, PTL DEF Spec

(***************************************************************************)
(* The promise of SnapService.  A step of the engine is a step of the      *)
(* service, or leaves what the client can see alone: a call that begins is *)
(* asked or refused, a callback that delivers takes a picture, a call that *)
(* returns finishes, and a clash makes the calls that it meets void.       *)
(***************************************************************************)
\* The answer of a call that is not void has a place for every channel and every context,
\* and the loop that makes the contexts has stored nothing in it yet.
Places ==
  \A c \in Client \ void : cpc[c] # "idle" =>
    /\ results[c] \in Seq(Nat \cup {None}) /\ Len(results[c]) = Len(Request(c))
    /\ \A k \in Nat : Owns(c, k) => k <= Len(Request(c))
    /\ cpc[c] \in {"publish", "create"} =>
         \A i \in DOMAIN results[c] : results[c][i] = None

\* A context that no callback has reached has no picture.
Untaken == \A a \in live : ~got[a] => img[a] = None

\* What the answers' places need.
PlaceInv == Places /\ Untaken

\* What a step must be for the client: a step of the service, or none.
ServiceStep == Service!Next \/ UNCHANGED Service!vars

\* What a client can see of its call.
Seen(c) == IF c \in void THEN <<>> ELSE Answer(c)

\* Places are kept by a step that makes no context and stores no picture.
LEMMA PlaceKeep ==
  ASSUME Places, UNCHANGED <<callno, results>>, void \subseteq void',
         \A d \in Client : cpc'[d] # "idle" => cpc[d] # "idle",
         \A d \in Client : \A k \in Nat : Owns(d, k)' => Owns(d, k),
         \A d \in Client : cpc'[d] \in {"publish", "create"} =>
           cpc[d] \in {"publish", "create"}
  PROVE  Places'
  BY DEF Places, Request

\* The part of an answer that a step leaves alone.
LEMMA AnswerSame ==
  ASSUME NEW d \in Client, results'[d] = results[d],
         \A k \in DOMAIN results[d] :
           /\ Owns(d, k)' <=> Owns(d, k)
           /\ Owns(d, k) => img'[ctxs'[d][k]] = img[ctxs[d][k]]
  PROVE  Answer(d)' = Answer(d)
  BY DEF Answer

\* A step in which a client sees nothing, or that its call is void.
LEMMA Unseen ==
  ASSUME PastKept, callno' = callno,
         \A d \in Client : cpc'[d] = "idle" <=> cpc[d] = "idle",
         \A d \in Client \ void' : Answer(d)' = Answer(d)
  PROVE  ServiceStep
<1>1. PICK lost \in SUBSET Client :
        void' = void \cup lost /\ \A d \in lost : cpc[d] # "idle"
  BY DEF PastKept
<1>2. [d \in Client |-> cpc[d] # "idle"]' = [d \in Client |-> cpc[d] # "idle"]
  BY Zenon
<1>3. \A d \in Client : Seen(d)' = IF d \in lost THEN <<>> ELSE Seen(d)
  BY <1>1 DEF Seen
<1>4. [d \in Client |-> Seen(d)]' =
        [d \in Client |-> IF d \in lost THEN <<>> ELSE [e \in Client |-> Seen(e)][d]]
  BY <1>3
<1>5. Service!GiveUp(lost)
  BY <1>1, <1>2, <1>4 DEF Service!GiveUp, Seen
<1>. QED BY <1>1, <1>5 DEF ServiceStep, Service!Next

\* What the clients see, in a step that only client c sees.
LEMMA SeenBy ==
  ASSUME NEW c \in Client,
         \A d \in Client \ {c} : /\ cpc'[d] = "idle" <=> cpc[d] = "idle"
                                 /\ d \in void' <=> d \in void
                                 /\ d \notin void => Answer(d)' = Answer(d)
  PROVE  /\ [d \in Client |-> cpc[d] # "idle"]' =
              [[d \in Client |-> cpc[d] # "idle"] EXCEPT ![c] = cpc'[c] # "idle"]
         /\ [d \in Client |-> Seen(d)]' =
              [[d \in Client |-> Seen(d)] EXCEPT ![c] = Seen(c)']
<1>1. \A d \in Client : (cpc'[d] # "idle") =
        IF d = c THEN cpc'[c] # "idle" ELSE cpc[d] # "idle"
  OBVIOUS
<1>2. \A d \in Client : Seen(d)' = IF d = c THEN Seen(c)' ELSE Seen(d)
  BY DEF Seen
<1>. QED BY <1>1, <1>2, Zenon

\* A call begins.
LEMMA ServeCall ==
  ASSUME SnapAssumption, TypeOK, IndexOK, PlaceInv, NEW c \in Client, Call(c)
  PROVE  PlaceInv' /\ ServiceStep
<1> DEFINE channels == Calls[c][callno[c] + 1]
<1>1. /\ cpc[c] = "idle" /\ callno[c] < Len(Calls[c])
      /\ callno' = [callno EXCEPT ![c] = @ + 1]
      /\ UNCHANGED <<live, got, img>>
      /\ ctxs'[c] = <<>> /\ Calls[c][callno'[c]] = channels
      /\ \A d \in Client \ {c} :
           /\ cpc'[d] = cpc[d] /\ idx'[d] = idx[d] /\ ctxs'[d] = ctxs[d]
           /\ results'[d] = results[d] /\ callno'[d] = callno[d]
           /\ d \in void' <=> d \in void
  BY DEF Call, ctxVars, TypeOK, CallTypeOK
<1>2. /\ channels \in Seq(Nat)
      /\ \/ /\ channels # <<>> /\ cpc'[c] = "publish"
            /\ results'[c] = NoPictures(channels)
         \/ /\ channels = <<>> \/ "alloc" \in Faults
            /\ cpc'[c] = "idle" /\ results'[c] = <<>>
  <2>1. channels \in Seq(Nat)
    BY <1>1 DEF SnapAssumption, TypeOK, CallTypeOK
  <2>. QED BY <1>1, <2>1 DEF Call, TypeOK, CallTypeOK
<1> HIDE DEF channels
<1>3. \A k : ~Owns(c, k)'
  BY <1>1 DEF Owns
<1>4. \A d \in Client \ {c} : \A k : Owns(d, k)' <=> Owns(d, k)
  BY <1>1 DEF Owns
<1>5. PlaceInv'
  <2>1. Untaken'
    BY <1>1 DEF PlaceInv, Untaken
  <2>2. cpc'[c] # "idle" =>
          /\ results'[c] \in Seq(Nat \cup {None}) /\ Len(results'[c]) = Len(channels)
          /\ \A i \in DOMAIN results'[c] : results'[c][i] = None
    BY <1>2 DEF NoPictures
  <2>3. \A d \in Client \ {c} : Request(d)' = Request(d)
    BY <1>1 DEF Request
  <2>4. Request(c)' = channels
    BY <1>1 DEF Request
  <2>5. Places'
    <3>1. ASSUME NEW d \in Client \ {c}, d \notin void', cpc'[d] # "idle"
          PROVE  /\ results'[d] \in Seq(Nat \cup {None})
                 /\ Len(results'[d]) = Len(Request(d)')
                 /\ \A k \in Nat : Owns(d, k)' => k <= Len(Request(d)')
                 /\ cpc'[d] \in {"publish", "create"} =>
                      \A i \in DOMAIN results'[d] : results'[d][i] = None
      <4>1. /\ results[d] \in Seq(Nat \cup {None})
            /\ Len(results[d]) = Len(Request(d))
            /\ \A k \in Nat : Owns(d, k) => k <= Len(Request(d))
            /\ cpc[d] \in {"publish", "create"} =>
                 \A i \in DOMAIN results[d] : results[d][i] = None
        BY <1>1, <3>1 DEF PlaceInv, Places
      <4>. QED BY <1>1, <1>4, <2>3, <4>1
    <3>. QED BY <1>3, <2>2, <2>4, <3>1 DEF Places
  <2>. QED BY <2>1, <2>5 DEF PlaceInv
<1>6. Seen(c)' = IF c \in void' THEN <<>> ELSE [i \in DOMAIN results'[c] |-> results'[c][i]]
  BY <1>3 DEF Seen, Answer
<1>7. \A d \in Client \ {c} : Answer(d)' = Answer(d)
  BY <1>1, <1>4 DEF Answer
<1>8. /\ [d \in Client |-> cpc[d] # "idle"]' =
           [[d \in Client |-> cpc[d] # "idle"] EXCEPT ![c] = cpc'[c] # "idle"]
      /\ [d \in Client |-> Seen(d)]' =
           [[d \in Client |-> Seen(d)] EXCEPT ![c] = Seen(c)']
  BY <1>1, <1>7, SeenBy
<1>9. Service!NextCall(c) /\ Service!Asked(c)' = channels
  <2>1. void' \in {void \cup {c}, void \ {c}}
    BY DEF Call
  <2>. QED BY <1>1, <2>1 DEF Service!NextCall, Service!Asked
<1>10. CASE channels # <<>> /\ cpc'[c] = "publish" /\ results'[c] = NoPictures(channels)
  <2>1. Seen(c)' = IF c \in void' THEN <<>> ELSE [i \in DOMAIN channels |-> None]
    BY <1>6, <1>10 DEF NoPictures
  <2>2. Service!Ask(c)
    BY <1>8, <1>9, <1>10, <2>1 DEF Service!Ask, Seen
  <2>. QED BY <1>5, <2>2 DEF ServiceStep, Service!Next
<1>11. CASE /\ channels = <<>> \/ "alloc" \in Faults
            /\ cpc'[c] = "idle" /\ results'[c] = <<>>
  <2>1. Seen(c)' = <<>>
    BY <1>6, <1>11
  <2>2. \A d \in Client : cpc'[d] = "idle" <=> cpc[d] = "idle"
    BY <1>1, <1>11
  <2>3. [d \in Client |-> cpc[d] # "idle"]' = [d \in Client |-> cpc[d] # "idle"]
    BY <2>2, Zenon
  <2>4. Service!Refuse(c)
    BY <1>8, <1>9, <1>11, <2>1, <2>3 DEF Service!Refuse, Seen
  <2>. QED BY <1>5, <2>4 DEF ServiceStep, Service!Next
<1>. QED BY <1>2, <1>10, <1>11

\* The steps of a call that no client sees.
LEMMA ServeMove ==
  ASSUME TypeOK, IndexOK, PlaceInv, PastKept, NEW c \in Client,
         SkipChannel(c) \/ CreateThread(c) \/ Join(c)
  PROVE  PlaceInv' /\ ServiceStep
<1>1. /\ UNCHANGED <<callno, results, ctxs, live, got, img>>
      /\ cpc[c] # "idle" /\ cpc'[c] # "idle"
      /\ cpc[c] \in {"publish", "create"} \/ cpc'[c] = "join"
      /\ \A d \in Client \ {c} : cpc'[d] = cpc[d]
      /\ \A d \in Client : \A k \in Nat : Owns(d, k)' <=> Owns(d, k)
  BY LoopOwns, NextChannelOwns
     DEF SkipChannel, CreateThread, Join, TypeOK, CallTypeOK
<1>2. void \subseteq void'
  BY DEF PastKept
<1>4. PlaceInv'
  <2>1. Places'
    BY <1>1, <1>2, PlaceKeep DEF PlaceInv
  <2>2. Untaken'
    BY <1>1 DEF PlaceInv, Untaken
  <2>. QED BY <2>1, <2>2 DEF PlaceInv
<1>5. \A d \in Client : Answer(d)' = Answer(d)
  <2>1. \A d \in Client : DOMAIN results[d] \subseteq Nat
    BY DEF TypeOK, CallTypeOK
  <2>. QED BY <1>1, <2>1, AnswerSame
<1>6. ServiceStep
  BY <1>1, <1>5, Unseen
<1>. QED BY <1>4, <1>6

\* A thread that does not start takes no picture with it.
LEMMA ServeFail ==
  ASSUME SnapAssumption, Past, PlaceInv, PastKept, NEW c \in Client, CreateThreadFails(c)
  PROVE  PlaceInv' /\ ServiceStep
<1>. TypeOK /\ IndexOK /\ SlotInv /\ PipeInv
  BY DEF Past
<1>1. PICK n \in Nat, a \in live :
        /\ Owns(c, n) /\ a = ctxs[c][n] /\ live' = live \ {a}
        /\ \A d \in Client : \A k \in Nat :
             /\ Owns(d, k)' <=> Owns(d, k) /\ ~(d = c /\ k = n)
             /\ Owns(d, k)' => ctxs'[d][k] = ctxs[d][k]
  BY Frees
<1>2. /\ UNCHANGED <<callno, results, got, img, void>>
      /\ cpc[c] = "create" /\ cpc'[c] # "idle"
      /\ \A d \in Client \ {c} : cpc'[d] = cpc[d]
  BY NextChannelOwns DEF CreateThreadFails, pastVars
<1>3. PlaceInv'
  <2>1. Places'
    BY <1>1, <1>2, PlaceKeep DEF PlaceInv
  <2>2. Untaken'
    BY <1>1, <1>2 DEF PlaceInv, Untaken
  <2>. QED BY <2>1, <2>2 DEF PlaceInv
<1>4. c \notin void => img[a] = None
  <2> SUFFICES ASSUME c \notin void PROVE img[a] = None
    OBVIOUS
  <2>1. Unmet
    BY <1>2 DEF Past, KeptInv, Marked, CleanInv, CbInv
  <2>2. pc[a] = "none"
    <3>1. a = ctxs[c][Len(ctxs[c])]
      <4>1. live' = live \ {ctxs[c][Len(ctxs[c])]} /\ Len(ctxs[c]) \in DOMAIN ctxs[c]
        BY <1>2, LastCtx DEF CreateThreadFails
      <4>. QED BY <1>1, <4>1
    <3>. QED BY <1>2, <3>1 DEF PipeInv, ThreadLife, Unstarted
  <2>. QED BY <2>1, <2>2 DEF Unmet, PlaceInv, Untaken
<1>5. ASSUME NEW d \in Client \ void' PROVE Answer(d)' = Answer(d)
  <2>1. DOMAIN results[d] \subseteq Nat
    BY DEF TypeOK, CallTypeOK
  <2>2. ASSUME NEW k \in DOMAIN results[d]
        PROVE  (IF Owns(d, k)' THEN img'[ctxs'[d][k]] ELSE results'[d][k])
                 = (IF Owns(d, k) THEN img[ctxs[d][k]] ELSE results[d][k])
    <3>1. k \in Nat
      BY <2>1
    <3>2. CASE d = c /\ k = n
      <4>1. results[c][k] = None
        BY <1>2, <1>5, <3>2 DEF PlaceInv, Places
      <4>. QED BY <1>1, <1>2, <1>4, <1>5, <3>1, <3>2, <4>1
    <3>3. CASE ~(d = c /\ k = n)
      BY <1>1, <1>2, <3>1, <3>3
    <3>. QED BY <3>2, <3>3
  <2>. QED BY <1>2, <2>2 DEF Answer
<1>6. ServiceStep
  BY <1>2, <1>5, Unseen
<1>. QED BY <1>3, <1>6

\* A context that is published has no picture.
LEMMA ServePublish ==
  ASSUME TypeOK, IndexOK, SlotInv, PlaceInv, PastKept, NEW c \in Client, Publish(c)
  PROVE  PlaceInv' /\ ServiceStep
<1>1. PICK a \in Addr \ live :
        /\ live' = live \cup {a}
        /\ got' = [got EXCEPT ![a] = FALSE] /\ img' = [img EXCEPT ![a] = None]
        /\ ctxs' = [ctxs EXCEPT ![c] = Append(@, a)]
  BY DEF Publish, PublishAt
<1>2. /\ cpc[c] = "publish" /\ cpc' = [cpc EXCEPT ![c] = "create"]
      /\ UNCHANGED <<callno, idx, results>> /\ void \subseteq void'
  BY DEF Publish, PublishAt, Mark
<1>3. PICK n \in Nat : n = Len(ctxs[c]) + 1
  BY DEF TypeOK, CallTypeOK
<1>4. /\ ctxs'[c][n] = a
      /\ \A d \in Client : \A k \in Nat :
           /\ Owns(d, k)' <=> Owns(d, k) \/ (d = c /\ k = n)
           /\ Owns(d, k) => ctxs'[d][k] = ctxs[d][k] /\ ~(d = c /\ k = n)
  BY <1>1, <1>3, PublishOwns
<1>5. c \notin void' => n <= Len(Request(c))
  BY <1>2, <1>3, PublishPlace DEF TypeOK, CallTypeOK, IndexOK
<1>6. got'[a] = FALSE /\ img'[a] = None /\ \A b \in live : img'[b] = img[b] /\ got'[b] = got[b]
  BY <1>1 DEF TypeOK, CtxTypeOK
<1>7. cpc'[c] = "create" /\ \A d \in Client \ {c} : cpc'[d] = cpc[d]
  BY <1>2 DEF TypeOK, CallTypeOK
<1>8. PlaceInv'
  <2>1. \A d \in Client : Request(d)' = Request(d)
    BY <1>2 DEF Request
  <2>2. Places'
    BY <1>2, <1>4, <1>5, <1>7, <2>1 DEF PlaceInv, Places
  <2>3. Untaken'
    BY <1>1, <1>6 DEF PlaceInv, Untaken
  <2>. QED BY <2>2, <2>3 DEF PlaceInv
<1>9. ASSUME NEW d \in Client \ void' PROVE Answer(d)' = Answer(d)
  <2>1. DOMAIN results[d] \subseteq Nat
    BY DEF TypeOK, CallTypeOK
  <2>2. \A k \in Nat : Owns(d, k) => img'[ctxs'[d][k]] = img[ctxs[d][k]]
    BY <1>4, <1>6 DEF SlotInv, OwnedLive
  <2>3. ASSUME NEW k \in DOMAIN results[d]
        PROVE  (IF Owns(d, k)' THEN img'[ctxs'[d][k]] ELSE results'[d][k])
                 = (IF Owns(d, k) THEN img[ctxs[d][k]] ELSE results[d][k])
    <3>1. k \in Nat
      BY <2>1
    <3>2. CASE d = c /\ k = n
      <4>1. results[c][k] = None
        BY <1>2, <1>9, <3>2 DEF PlaceInv, Places
      <4>. QED BY <1>2, <1>4, <1>6, <3>1, <3>2, <4>1
    <3>3. CASE ~(d = c /\ k = n)
      BY <1>2, <1>4, <2>2, <3>1, <3>3
    <3>. QED BY <3>2, <3>3
  <2>. QED BY <1>2, <2>3 DEF Answer
<1>10. ServiceStep
  BY <1>2, <1>7, <1>9, Unseen
<1>. QED BY <1>8, <1>10

\* The picture that a call collects is the one the client saw in its context.
LEMMA ServeCollect ==
  ASSUME TypeOK, IndexOK, SlotInv, PlaceInv, PastKept, NEW c \in Client, Collect(c)
  PROVE  PlaceInv' /\ ServiceStep
<1>1. PICK n \in Nat : n = idx[c]
  BY DEF TypeOK, CallTypeOK
<1>2. /\ cpc[c] = "join" /\ UNCHANGED <<callno, got, img, ctxs, void>>
      /\ results' = [results EXCEPT ![c][n] = img[ctxs[c][n]]]
      /\ live' = live \ {ctxs[c][n]}
      /\ cpc'[c] = "test" /\ idx'[c] = n + 1
      /\ \A d \in Client \ {c} : cpc'[d] = cpc[d] /\ idx'[d] = idx[d]
  BY <1>1 DEF Collect, CollectAs, pastVars, TypeOK, CallTypeOK
<1>3. /\ Owns(c, n)
      /\ \A k \in Nat : Owns(c, k)' <=> Owns(c, k) /\ k # n
      /\ \A d \in Client \ {c} : \A k \in Nat : Owns(d, k)' <=> Owns(d, k)
  BY <1>1, <1>2 DEF Owns, IndexOK, TypeOK, CallTypeOK
<1>4. /\ \A d \in Client \ {c} : results'[d] = results[d]
      /\ DOMAIN results'[c] = DOMAIN results[c]
      /\ \A i \in DOMAIN results[c] :
           results'[c][i] = IF i = n THEN img[ctxs[c][n]] ELSE results[c][i]
      /\ results'[c] \in Seq(Nat \cup {None}) /\ Len(results'[c]) = Len(results[c])
  <2>1. /\ results'[c] = [results[c] EXCEPT ![n] = img[ctxs[c][n]]]
        /\ \A d \in Client \ {c} : results'[d] = results[d]
    BY <1>2 DEF TypeOK, CallTypeOK
  <2>2. img[ctxs[c][n]] \in Nat \cup {None}
    BY <1>3 DEF SlotInv, OwnedLive, TypeOK, CtxTypeOK
  <2>3. results[c] \in Seq(Nat \cup {None})
    BY DEF TypeOK, CallTypeOK
  <2>4. \A q \in Seq(Nat \cup {None}) : \A x \in Nat \cup {None} :
          [q EXCEPT ![n] = x] \in Seq(Nat \cup {None})
    BY SeqExcept
  <2>5. results'[c] \in Seq(Nat \cup {None})
    BY <2>1, <2>2, <2>3, <2>4
  <2>. QED BY <2>1, <2>3, <2>5
<1>5. PlaceInv'
  <2>1. \A d \in Client : Request(d)' = Request(d)
    BY <1>2 DEF Request
  <2>2. Places'
    BY SMTT(30), <1>2, <1>3, <1>4, <2>1 DEF PlaceInv, Places
  <2>3. Untaken'
    BY <1>2 DEF PlaceInv, Untaken
  <2>. QED BY <2>2, <2>3 DEF PlaceInv
<1>6. \A d \in Client : DOMAIN results[d] \subseteq Nat
  BY DEF TypeOK, CallTypeOK
<1>7. ASSUME NEW d \in Client \ {c} PROVE Answer(d)' = Answer(d)
  BY <1>2, <1>3, <1>4, <1>6, AnswerSame
<1>8. Answer(c)' = Answer(c)
  <2>1. ASSUME NEW k \in DOMAIN results[c]
        PROVE  (IF Owns(c, k)' THEN img'[ctxs'[c][k]] ELSE results'[c][k])
                 = (IF Owns(c, k) THEN img[ctxs[c][k]] ELSE results[c][k])
    BY <1>2, <1>3, <1>4, <1>6
  <2>. QED BY <1>4, <2>1 DEF Answer
<1>9. ServiceStep
  BY <1>2, <1>7, <1>8, Unseen
<1>. QED BY <1>5, <1>9

\* The call returns: every context has been collected.
LEMMA ServeReturn ==
  ASSUME TypeOK, PlaceInv, NEW c \in Client, Return(c)
  PROVE  PlaceInv' /\ ServiceStep
<1>1. /\ cpc[c] = "test" /\ cpc'[c] = "idle" /\ void' = void
      /\ UNCHANGED <<callno, results, ctxs, live, got, img>>
      /\ \A d \in Client \ {c} : cpc'[d] = cpc[d]
      /\ \A d \in Client : \A k \in Nat : Owns(d, k)' <=> Owns(d, k)
  BY LoopOwns DEF Return, pastVars, TypeOK, CallTypeOK
<1>2. PlaceInv'
  <2>1. Places'
    BY <1>1, PlaceKeep DEF PlaceInv
  <2>2. Untaken'
    BY <1>1 DEF PlaceInv, Untaken
  <2>. QED BY <2>1, <2>2 DEF PlaceInv
<1>3. \A d \in Client : Answer(d)' = Answer(d)
  <2>1. \A d \in Client : DOMAIN results[d] \subseteq Nat
    BY DEF TypeOK, CallTypeOK
  <2>. QED BY <1>1, <2>1, AnswerSame
<1>4. [d \in Client |-> cpc[d] # "idle"]' =
        [[d \in Client |-> cpc[d] # "idle"] EXCEPT ![c] = cpc'[c] # "idle"]
  BY <1>1, <1>3, SeenBy
<1>5. [d \in Client |-> Seen(d)]' = [d \in Client |-> Seen(d)]
  BY <1>1, <1>3 DEF Seen
<1>6. Service!Finish(c)
  BY <1>1, <1>4, <1>5 DEF Service!Finish, Seen
<1>. QED BY <1>2, <1>6 DEF ServiceStep, Service!Next

\* A picture reaches the context of a call that is not void: it is taken.
LEMMA ServeTake ==
  ASSUME SnapAssumption, Past, ResultInv, Places, PastKept, ~clash,
         NEW v \in Venc, cb[v] # None, NEW a, a = cb[v].ctx,
         a \in live, img[a] = None, img'[a] = cb[v].pic,
         \A b \in Addr \ {a} : img'[b] = img[b],
         UNCHANGED <<callVars, void>>
  PROVE  ServiceStep
<1>. TypeOK /\ IndexOK /\ SlotInv /\ PipeInv
  BY DEF Past
<1>1. cb[v].pic \in {None, chan[a]} /\ SlotFull
  BY DEF Past, CleanInv, CbInv, CbHome
<1>2. PICK c \in Client, k \in Nat : Owns(c, k) /\ ctxs[c][k] = a
  BY DEF Past, KeptInv, LiveOwned
<1>3. /\ \A d \in Client : \A l : Owns(d, l)' <=> Owns(d, l)
      /\ \A d \in Client : \A l \in Nat :
           Owns(d, l) /\ ctxs[d][l] = a => d = c /\ l = k
  BY <1>2 DEF Owns, callVars, SlotInv, OwnedOnce
<1>4. \A d \in Client : DOMAIN results[d] \subseteq Nat
  BY DEF TypeOK, CallTypeOK
<1>5. \A d \in Client : \A l \in Nat : Owns(d, l) =>
        /\ ctxs'[d][l] = ctxs[d][l] /\ ctxs[d][l] \in Addr
        /\ ctxs[d][l] = a \/ img'[ctxs[d][l]] = img[ctxs[d][l]]
  BY DEF callVars, SlotInv, OwnedLive, TypeOK, CtxTypeOK
<1>6. ASSUME NEW d \in Client \ {c} PROVE Answer(d)' = Answer(d)
  BY <1>3, <1>4, <1>5, AnswerSame DEF callVars
<1>7. CASE cb[v].pic = None
  <2>1. Answer(c)' = Answer(c)
    <3>1. \A l \in Nat : Owns(c, l) => img'[ctxs'[c][l]] = img[ctxs[c][l]]
      <4> SUFFICES ASSUME NEW l \in Nat, Owns(c, l)
                   PROVE  img'[ctxs'[c][l]] = img[ctxs[c][l]]
        OBVIOUS
      <4>1. /\ ctxs'[c][l] = ctxs[c][l]
            /\ ctxs[c][l] = a \/ img'[ctxs[c][l]] = img[ctxs[c][l]]
        BY <1>5
      <4>2. img'[a] = img[a]
        BY <1>7
      <4>. QED BY <4>1, <4>2
    <3>. QED BY <1>3, <1>4, <3>1, AnswerSame DEF callVars
  <2>. QED BY <1>6, <2>1, Unseen DEF callVars
<1>8. CASE c \in void
  BY <1>6, <1>8, Unseen DEF callVars
<1>9. CASE cb[v].pic # None /\ c \notin void
  <2>1. cb[v].pic = Request(c)[k] /\ chan[a] = Request(c)[k]
    <3>1. chan[ctxs[c][k]] = Request(c)[k]
      BY <1>2, <1>9 DEF ResultInv, Aligned
    <3>. QED BY <1>1, <1>2, <1>9, <3>1
  <2>2. k \in DOMAIN Request(c) /\ k \in DOMAIN results[c]
    <3>1. /\ k \in 1 .. Len(ctxs[c]) /\ k <= Len(Request(c))
          /\ Len(results[c]) = Len(Request(c))
          /\ results[c] \in Seq(Nat \cup {None})
      BY <1>2, <1>9 DEF Owns, Places
    <3>2. Request(c) \in Seq(Nat)
      BY <1>2, RequestOf DEF Owns
    <3>. QED BY <3>1, <3>2
  <2>3. SNAP_VENC_BASE + Request(c)[k] \in Venc /\ Request(c)[k] \in Nat
    BY <1>1, <2>1 DEF SlotFull, TypeOK, CtxTypeOK
  <2>4. Answer(c)[k] = None /\ DOMAIN Answer(c) = DOMAIN results[c] /\ Seen(c) = Answer(c)
    BY <1>2, <1>9, <2>2 DEF Answer, Seen
  <2>5. Answer(c)' = [Answer(c) EXCEPT ![k] = Request(c)[k]]
    <3>1. ASSUME NEW i \in DOMAIN results[c]
          PROVE  (IF Owns(c, i)' THEN img'[ctxs'[c][i]] ELSE results'[c][i])
                   = IF i = k THEN Request(c)[k]
                     ELSE IF Owns(c, i) THEN img[ctxs[c][i]] ELSE results[c][i]
      <4>1. i \in Nat /\ results' = results /\ ctxs' = ctxs
        BY <1>4 DEF callVars
      <4>2. CASE i = k
        BY <1>2, <1>3, <2>1, <4>1, <4>2
      <4>3. CASE i # k
        BY <1>3, <1>5, <4>1, <4>3
      <4>. QED BY <4>2, <4>3
    <3>2. results' = results
      BY DEF callVars
    <3>. QED BY <3>1, <3>2 DEF Answer
  <2>6. [d \in Client |-> Seen(d)]' =
          [[d \in Client |-> Seen(d)] EXCEPT ![c][k] = Request(c)[k]]
    <3>1. \A d \in Client :
            Seen(d)' = IF d = c THEN [Seen(c) EXCEPT ![k] = Request(c)[k]]
                                ELSE Seen(d)
      BY <1>6, <1>9, <2>4, <2>5 DEF Seen
    <3>. QED BY <3>1, Zenon
  <2>7. [d \in Client |-> cpc[d] # "idle"]' = [d \in Client |-> cpc[d] # "idle"]
    BY DEF callVars
  <2>8. Service!Take(c)
    <3>1. Service!Asked(c) = Request(c) /\ callno' = callno
      BY DEF Service!Asked, Request, callVars
    <3>2. [d \in Client |-> cpc[d] # "idle"][c]
      BY <1>2 DEF Owns
    <3>. QED BY <1>9, <2>2, <2>3, <2>4, <2>6, <2>7, <3>1, <3>2 DEF Service!Take, Seen
  <2>. QED BY <2>8 DEF ServiceStep, Service!Next
<1>. QED BY <1>7, <1>8, <1>9

\* A callback delivers: a picture is taken, or nothing is seen of it.
LEMMA ServeDeliver ==
  ASSUME SnapAssumption, Past, ResultInv, PlaceInv, PastKept, NEW v \in Venc, Deliver(v)
  PROVE  PlaceInv' /\ ServiceStep
<1>. TypeOK /\ IndexOK /\ SlotInv /\ PipeInv
  BY DEF Past
<1> DEFINE a == cb[v].ctx
<1>1. cb[v] # None /\ UNCHANGED <<callVars, live, chan, slot, pipeVars, shot, void>>
  BY DEF Deliver
<1>2. a \in Addr
  BY <1>1 DEF TypeOK, CbTypeOK
<1>3. \A d \in Client : \A l : Owns(d, l)' <=> Owns(d, l)
  BY <1>1 DEF Owns, callVars
<1>4. \A d \in Client : DOMAIN results[d] \subseteq Nat
  BY DEF TypeOK, CallTypeOK
<1>5. Places'
  BY <1>1, <1>3, PlaceKeep DEF PlaceInv, callVars
<1> HIDE DEF a
<1>6. CASE UNCHANGED <<got, img>>
  <2>1. Untaken'
    BY <1>1, <1>6 DEF PlaceInv, Untaken
  <2>2. \A d \in Client : Answer(d)' = Answer(d)
    BY <1>1, <1>3, <1>4, <1>6, AnswerSame DEF callVars
  <2>3. ServiceStep
    BY <1>1, <2>2, Unseen DEF callVars
  <2>. QED BY <1>5, <2>1, <2>3 DEF PlaceInv
<1>7. CASE /\ a \in live /\ ~got[a] /\ got' = [got EXCEPT ![a] = TRUE]
           /\ img' = [img EXCEPT ![a] = cb[v].pic]
  <2>1. /\ got'[a] /\ img'[a] = cb[v].pic /\ img[a] = None
        /\ \A b \in Addr \ {a} : got'[b] = got[b] /\ img'[b] = img[b]
    <3>1. got'[a] /\ \A b \in Addr \ {a} : got'[b] = got[b]
      BY <1>2, <1>7, Zenon DEF TypeOK, CtxTypeOK
    <3>2. img[a] = None
      BY <1>2, <1>7 DEF PlaceInv, Untaken
    <3>. QED BY <1>2, <1>7, <3>1, <3>2 DEF TypeOK, CtxTypeOK
  <2>2. Untaken'
    BY <1>1, <2>1 DEF PlaceInv, Untaken, TypeOK, CtxTypeOK
  <2>3. CASE clash
    <3>1. \A d \in Client \ void' : \A l : ~Owns(d, l)
      BY <1>1, <2>3 DEF Past, KeptInv, Marked, Owns
    <3>2. \A d \in Client \ void' : Answer(d)' = Answer(d)
      BY <1>1, <1>3, <3>1, AnswerSame DEF callVars
    <3>3. ServiceStep
      BY <1>1, <3>2, Unseen DEF callVars
    <3>. QED BY <1>5, <2>2, <3>3 DEF PlaceInv
  <2>4. CASE ~clash
    <3>1. ServiceStep
      BY <1>1, <1>7, <2>1, <2>4, ServeTake DEF PlaceInv, a
    <3>. QED BY <1>5, <2>2, <3>1 DEF PlaceInv
  <2>. QED BY <2>3, <2>4
<1>. QED BY <1>6, <1>7 DEF Deliver, a

\* The other steps leave the calls and the pictures alone.
LEMMA ServeOthers ==
  ASSUME PlaceInv, TypeOK, PastKept, UNCHANGED <<callVars, live, got, img>>
  PROVE  PlaceInv' /\ ServiceStep
<1>1. \A d \in Client : \A k : Owns(d, k)' <=> Owns(d, k)
  BY DEF Owns, callVars
<1>2. void \subseteq void'
  BY DEF PastKept
<1>3. Places' /\ Untaken'
  BY <1>1, <1>2, PlaceKeep DEF PlaceInv, Untaken, callVars
<1>4. \A d \in Client : Answer(d)' = Answer(d)
  BY <1>1 DEF Answer, callVars
<1>. QED BY <1>3, <1>4, Unseen DEF PlaceInv, callVars

\* Every step.
LEMMA ServeStep ==
  ASSUME SnapAssumption, Past, ResultInv, PlaceInv, [Next]_vars
  PROVE  PlaceInv' /\ ServiceStep
<1>0. TypeOK /\ IndexOK /\ SlotInv /\ PipeInv
  BY DEF Past
<1>1. ASSUME NEW c \in Client, Call(c)
      PROVE  PlaceInv' /\ ServiceStep
  BY <1>0, <1>1, ServeCall
<1>2. ASSUME NEW c \in Client, ClientStep(c), PastKept
      PROVE  PlaceInv' /\ ServiceStep
  BY <1>0, <1>2, ServeMove, ServeFail, ServePublish, ServeCollect, ServeReturn
     DEF ClientStep
<1>3. /\ \A s \in Session : Pipeline(s) \/ StartJpeg(s) =>
           UNCHANGED <<callVars, live, got, img>>
      /\ \A v \in Venc : PacketCb(v) => UNCHANGED <<callVars, live, got, img>>
      /\ \A r \in OtherRga : OtherUser(r) => UNCHANGED <<callVars, live, got, img>>
  <2>1. \A s \in Session : Pipeline(s) \/ StartJpeg(s) =>
          UNCHANGED <<callVars, ctxVars>>
    BY DEF Pipeline, StartJpeg, CreateVenc, RegisterOutCb, CreateRga,
           CreateRgaOf, BindIn, BindOut, StartRecvFrame, Answered,
           TimedOut, UnBind, DestroyRga, DestroyVenc
  <2>. QED BY <2>1 DEF PacketCb, OtherUser, ctxVars
<1>4. UNCHANGED vars => UNCHANGED <<callVars, live, got, img>>
  BY DEF vars, ctxVars
<1>5. ASSUME Inner PROVE PlaceInv' /\ ServiceStep
  <2>1. PastKept
    BY <1>0, <1>5, InnerPast
  <2>. QED BY <1>0, <1>2, <1>3, <1>4, <1>5, <2>1, ServeDeliver, ServeOthers
           DEF Inner, Session
<1>. QED BY <1>1, <1>5, NextInner

\* The engine implements the service: each picture is taken while its client waits, once,
\* into the place of its channel, and is in the answer that the client gets, for every
\* call that no clash has met and that started no thread after a channel without one.
THEOREM ServiceCorrect == Spec => AnswersAreTaken
<1>1. Init => ResultInv /\ PlaceInv
  BY DEF Init, ResultInv, Aligned, ImageMatchesChannel, Owns, PlaceInv, Places, Untaken
<1>2. Init => Service!Init
  <2> SUFFICES ASSUME Init PROVE Service!Init
    OBVIOUS
  <2>1. \A c \in Client : Answer(c) = <<>> /\ cpc[c] = "idle"
    <3> TAKE c \in Client
    <3>1. results[c] = <<>> /\ cpc[c] = "idle" /\ \A k : ~Owns(c, k)
      BY DEF Init, Owns
    <3>2. Answer(c) = [i \in DOMAIN results[c] |-> results[c][i]]
      BY <3>1 DEF Answer
    <3>. QED BY <3>1, <3>2
  <2>2. [c \in Client |-> IF c \in void THEN <<>> ELSE Answer(c)] = [c \in Client |-> <<>>]
    BY <2>1
  <2>. QED BY <2>1, <2>2 DEF Init, Service!Init
<1>3. Past /\ [Next]_vars =>
        (ResultInv /\ PlaceInv => (ResultInv /\ PlaceInv)' /\ [Service!Next]_(Service!vars))
  <2> SUFFICES ASSUME Past, [Next]_vars, ResultInv, PlaceInv
               PROVE  ResultInv' /\ PlaceInv' /\ [Service!Next]_(Service!vars)
    OBVIOUS
  <2>1. ResultInv'
    BY AlignStep, SnapAssumption
  <2>2. PlaceInv' /\ ServiceStep
    BY ServeStep, SnapAssumption
  <2>. QED BY <2>1, <2>2 DEF ServiceStep
<1>. QED BY <1>1, <1>2, <1>3, PastCorrect, PTL
         DEF Spec, AnswersAreTaken, Service!Spec
=============================================================================
