------------------------- MODULE RtmpChannelProofs -------------------------
(***************************************************************************)
(* Theorems about RtmpChannel, for every set of channels and threads and   *)
(* every script of calls, however they overlap: as long as no two calls    *)
(* for a channel have been in progress at once, what its muxer thread uses *)
(* is open, what is closed was open, nothing is left behind, the sequence  *)
(* header comes first and who watches is fed, whatever goes on, and goes   *)
(* wrong, in the other channels.                                           *)
(*                                                                         *)
(* The inductive invariant has one part for each channel, Life(c).  With   *)
(* no call about the channel it is Up or Down (Rest); a call that is about *)
(* it has brought it to a certain stage (Stage).  A step about one channel *)
(* leaves the others alone (Beside), because what a call has made is For   *)
(* the channel of the call: no pointer of one context leads into another.  *)
(***************************************************************************)
EXTENDS RtmpChannel, TLAPS

\* What exists for a channel, and its muxer threads.
Made(c) == {r \in open : For(r[2]) = c}
Mux(c) == {m \in mux : m.ch = c}
Idle(c) == \A t \in Thread : call[t].ch # c

\* A channel between two calls.
Down(c) == ~ctx[c].start /\ Made(c) = {} /\ Mux(c) = {} /\ ~aac[c].hdr
Counted(c) == viewers[c] <= ctx[c].ref
Up(c) ==
  /\ ctx[c].start /\ Made(c) = Held(ctx[c])
  /\ Mux(c) # {} /\ \A m \in Mux(c) : m.id = ctx[c].tid
  /\ aac[c].hdr => ctx[c].client \in header
  /\ Counted(c)
Rest(c) == Up(c) \/ Down(c)

\* A channel that is being opened, one that is being closed.
Half(c) == {r \in Held(ctx[c]) : r[2] # None}
Opening(c) == ~ctx[c].start /\ Mux(c) = {} /\ ~aac[c].hdr /\ Made(c) = Half(c)
Left(c, live) == Made(c) = IF live THEN Held(ctx[c]) ELSE {}

\* How far a call has come.
Stage(t) == LET c == call[t].ch IN
  /\ call[t].at \in {"check", "stop"} => Rest(c)
  /\ At(t, "clear") => Down(c)
  /\ At(t, "create") =>
       Down(c) /\ ctx[c].muxer = None /\ ctx[c].socket = None /\ ctx[c].client = None
  /\ At(t, "connect") =>
       /\ Opening(c) /\ Counted(c)
       /\ ctx[c].muxer # None /\ ctx[c].socket = None /\ ctx[c].client = None
  /\ At(t, "handshake") =>
       Opening(c) /\ Counted(c) /\ ctx[c].muxer # None /\ ctx[c].client # None
  /\ At(t, "undo") => Opening(c)
  /\ At(t, "start") => Opening(c) /\ Counted(c) /\ Made(c) = Held(ctx[c])
  /\ At(t, "join") =>
       /\ ~ctx[c].start /\ Left(c, call[t].live)
       /\ \A m \in Mux(c) : call[t].live /\ m.id = call[t].tid
       /\ ~call[t].live => ~aac[c].hdr
  /\ At(t, "close") => ~ctx[c].start /\ Left(c, call[t].live) /\ Mux(c) = {}
  /\ At(t, "destroy") =>
       ~ctx[c].start /\ Left(c, call[t].live) /\ Mux(c) = {} /\ ~aac[c].hdr

\* A client that is pushed a raw frame has the header.
Raw(c) ==
  \A m \in Mux(c) : m.at = "push" /\ m.what = "raw" => ctx[c].client \in header

Life(c) ==
  /\ \A t, u \in Thread : call[t].ch = c /\ call[u].ch = c => t = u
  /\ Idle(c) => Rest(c)
  /\ \A t \in Thread : call[t].ch = c => Stage(t)
  /\ Raw(c)

\* A frame that waits for a viewer is video or audio.
Framed == \A m \in mux : m.at = "frame" => m.what \in {"video", "audio"}

\* A call that is under way is about a channel, and names what it makes for it.
Called ==
  \A t \in Thread :
    IF At(t, "off") THEN call[t].ch = None
    ELSE call[t].ch \in Channel /\ For(Mine(t)) = call[t].ch

\* What a context refers to was made for its channel.
Owned ==
  \A c \in Channel : \A id \in {ctx[c].muxer, ctx[c].socket, ctx[c].client} :
    id # None => For(id) = c

Bounded == \A c \in Channel : viewers[c] <= MaxViewers

Sound == TypeOK /\ Framed /\ Called /\ Owned /\ Bounded
Inv == Sound /\ \A c \in Channel : Apart(c) => Life(c)

\* A step leaves a channel alone.
Beside(c) ==
  /\ ctx'[c] = ctx[c] /\ aac'[c] = aac[c] /\ viewers'[c] = viewers[c]
  /\ \A r \in open \cup open' : For(r[2]) = c => (r \in open' <=> r \in open)
  /\ \A m \in mux \cup mux' : m.ch = c => (m \in mux' <=> m \in mux)
  /\ \A t \in Thread : call[t].ch = c \/ call'[t].ch = c => call'[t] = call[t]
  /\ header \subseteq header'

\* A channel that is left alone stays what it is.
LEMMA BesideLife ==
  ASSUME NEW c \in Channel, Life(c), Beside(c)
  PROVE  Life(c)'
<1>1. /\ ctx'[c] = ctx[c] /\ aac'[c] = aac[c] /\ viewers'[c] = viewers[c]
      /\ header \subseteq header'
  BY DEF Beside
<1>2. Made(c)' = Made(c) /\ Mux(c)' = Mux(c)
  BY DEF Beside, Made, Mux, For
<1>3. \A t \in Thread : /\ call'[t].ch = c <=> call[t].ch = c
                        /\ call[t].ch = c => call'[t] = call[t]
  BY DEF Beside
<1>4. /\ Down(c) => Down(c)'
      /\ Up(c) => Up(c)'
      /\ Opening(c) => Opening(c)'
      /\ Counted(c) => Counted(c)'
      /\ \A live : Left(c, live) => Left(c, live)'
  BY <1>1, <1>2 DEF Down, Up, Opening, Counted, Left, Half, Held
<1>5. Rest(c) => Rest(c)'
  BY <1>4 DEF Rest
<1>6. ASSUME NEW t \in Thread, call'[t].ch = c PROVE Stage(t)'
  <2>1. Stage(t) /\ call'[t] = call[t] /\ call[t].ch = c
    BY <1>3, <1>6 DEF Life
  <2> QED  BY <1>1, <1>2, <1>4, <1>5, <2>1 DEF Stage, At, Held
<1>7. Raw(c)'
  BY <1>1, <1>2 DEF Life, Raw
<1>8. Idle(c)' => Idle(c)
  BY <1>3 DEF Idle
<1> QED  BY <1>3, <1>5, <1>6, <1>7, <1>8 DEF Life

(***************************************************************************)
(* Types, and what a call touches                                          *)
(***************************************************************************)
\* The pointer None is no object and no channel.
LEMMA NoneIsNone == None \notin Id /\ None \notin Channel
BY RtmpAssumption DEF Id

\* After ms_rtmp_context_init every channel is down.
LEMMA InitInv == Init => Inv
<1> SUFFICES ASSUME Init PROVE Inv
  OBVIOUS
<1>1. TypeOK
  BY DEF Init, TypeOK, Context, Zero, NoCall, Step
<1>2. \A t \in Thread : At(t, "off") /\ call[t].ch = None
  BY DEF Init, At, NoCall
<1>3. \A c \in Channel : Down(c) /\ Raw(c)
  BY DEF Init, Down, Made, Mux, Raw, Zero
<1>4. \A c \in Channel, t \in Thread : call[t].ch # c
  BY <1>2, NoneIsNone
<1>5. \A c \in Channel : Life(c)
  BY <1>3, <1>4 DEF Life, Rest
<1>6. Called /\ Framed /\ Owned /\ Bounded
  BY <1>2, RtmpAssumption DEF Called, Framed, Owned, Bounded, Init, Zero
<1> QED  BY <1>1, <1>5, <1>6 DEF Inv, Sound

\* The record of a call, and a context stored under its channel.
Call == [at : Step, ch : Channel \cup {None}, tid : Id \cup {None}, live : BOOLEAN]

LEMMA Stored ==
  ASSUME NEW f \in [Channel -> Context], NEW g, NEW c \in Channel, NEW x \in Context,
         g = [f EXCEPT ![c] = x]
  PROVE  /\ g \in [Channel -> Context] /\ g[c] = x
         /\ \A d \in Channel \ {c} : g[d] = f[d]
OBVIOUS

\* What a step of a call has to be: it stays with its channel and its number,
\* or returns.
Stays(t, c, step) ==
  /\ call'[t].at = step
  /\ IF step = "off" THEN call'[t].ch = None ELSE call'[t].ch = c
  /\ \A u \in Thread \ {t} : call'[u] = call[u]
  /\ calls' = calls /\ shared' = shared
  /\ call' \in [Thread -> Call]

LEMMA GotoStays ==
  ASSUME TypeOK, NEW t \in Thread, NEW step \in Step \ {"off"},
         Goto(t, step), UNCHANGED <<calls, shared>>
  PROVE  /\ Stays(t, call[t].ch, step)
         /\ call'[t].tid = call[t].tid /\ call'[t].live = call[t].live
<1>1. call \in [Thread -> Call]
  BY DEF TypeOK, Call
<1>2. call' = [call EXCEPT ![t] = [call[t] EXCEPT !.at = step]]
  BY <1>1 DEF Goto
<1>3. [call[t] EXCEPT !.at = step] \in Call
  BY <1>1 DEF Call
<1> QED  BY <1>1, <1>2, <1>3 DEF Stays, Call

LEMMA ReturnStays ==
  ASSUME TypeOK, NEW t \in Thread, Return(t), UNCHANGED <<calls, shared>>
  PROVE  Stays(t, call[t].ch, "off")
<1>1. call \in [Thread -> Call]
  BY DEF TypeOK, Call
<1>2. NoCall \in Call
  BY DEF NoCall, Call, Step
<1> QED  BY <1>1, <1>2 DEF Stays, Return, NoCall

\* A call that is under way is about a channel, and names what it makes.
LEMMA Busy ==
  ASSUME Sound, NEW t \in Thread, ~At(t, "off")
  PROVE  /\ call[t].ch \in Channel /\ The(t) \in Context
         /\ Mine(t) \in Id /\ Mine(t) # None /\ For(Mine(t)) = call[t].ch
BY NoneIsNone DEF Sound, Called, TypeOK, The, Mine, Id

\* A step of a call leaves the calls, and the channels, of the others alone.
LEMMA Elsewhere ==
  ASSUME Sound, NEW t \in Thread, NEW c \in Channel, call[t].ch = c,
         NEW step \in Step, Stays(t, c, step), viewers' = viewers,
         \A d \in Channel \ {c} : ctx'[d] = ctx[d] /\ aac'[d] = aac[d],
         \A r \in open \cup open' : For(r[2]) # c => (r \in open' <=> r \in open),
         \A m \in mux \cup mux' : m.ch # c => (m \in mux' <=> m \in mux),
         header \subseteq header',
         NEW d \in Channel \ {c}
  PROVE  Beside(d)
<1>1. \A u \in Thread : call[u].ch = d \/ call'[u].ch = d => call'[u] = call[u]
  BY NoneIsNone DEF Stays
<1> QED  BY <1>1 DEF Beside

\* What holds of all channels is kept by a step of a call.
LEMMA CallSound ==
  ASSUME Sound, NEW t \in Thread, NEW c \in Channel, ~At(t, "off"), call[t].ch = c,
         NEW step \in Step, Stays(t, c, step), viewers' = viewers, events' = events,
         NEW x \in Context, ctx' = [ctx EXCEPT ![c] = x],
         \A id \in {x.muxer, x.socket, x.client} :
           id \in {None, Mine(t), ctx[c].muxer, ctx[c].socket, ctx[c].client},
         open' \subseteq open \cup (Kind \X {Mine(t)}),
         aac' = aac \/ aac' = [aac EXCEPT ![c] = [on |-> FALSE, hdr |-> FALSE]],
         header' = header,
         \A m \in mux' : m \in mux \/
           m = [id |-> Mine(t), ch |-> c, at |-> "top", what |-> None]
  PROVE  Sound'
<1>1. /\ TypeOK /\ Framed /\ Called /\ Owned /\ Bounded
      /\ Mine(t) \in Id /\ For(Mine(t)) = c
  BY Busy DEF Sound
<1>2. ctx' \in [Channel -> Context] /\ ctx'[c] = x /\ \A d \in Channel \ {c} : ctx'[d] = ctx[d]
  BY <1>1, Stored DEF TypeOK
<1>3. open' \subseteq Kind \X Id
  BY <1>1 DEF TypeOK
<1>4. aac' \in [Channel -> [on : BOOLEAN, hdr : BOOLEAN]]
  <2>1. aac \in [Channel -> [on : BOOLEAN, hdr : BOOLEAN]]
    BY <1>1 DEF TypeOK
  <2>2. [on |-> FALSE, hdr |-> FALSE] \in [on : BOOLEAN, hdr : BOOLEAN]
    OBVIOUS
  <2> QED  BY <2>1, <2>2, ZenonT(30)
<1>5. /\ mux' \subseteq [id : Id, ch : Channel,
                         at : {"top", "frame", "video", "audio", "push"},
                         what : {None, "video", "audio", "header", "raw"}]
      /\ Framed'
  BY <1>1 DEF TypeOK, Framed
<1>6. call' \in [Thread -> Call] /\ calls' = calls /\ shared' = shared
  BY DEF Stays
<1>7. TypeOK'
  BY <1>1, <1>2, <1>3, <1>4, <1>5, <1>6 DEF TypeOK, Call
<1>8. Called'
  <2> SUFFICES ASSUME NEW u \in Thread
               PROVE  IF call'[u].at = "off" THEN call'[u].ch = None
                      ELSE call'[u].ch \in Channel /\ For(Mine(u)') = call'[u].ch
    BY DEF Called, At, For
  <2>1. Mine(u)' = Mine(u)
    BY <1>6 DEF Mine
  <2>2. CASE u # t
    BY <1>1, <2>1, <2>2 DEF Stays, Called, At
  <2>3. CASE u = t
    BY <1>1, <2>1, <2>3 DEF Stays
  <2> QED  BY <2>2, <2>3
<1>9. Owned'
  <2> SUFFICES ASSUME NEW d \in Channel,
                      NEW id \in {ctx'[d].muxer, ctx'[d].socket, ctx'[d].client}, id # None
               PROVE  For(id) = d
    BY DEF Owned, For
  <2>1. CASE d # c
    BY <1>1, <1>2, <2>1 DEF Owned
  <2>2. CASE d = c
    BY <1>1, <1>2, <2>2 DEF Owned
  <2> QED  BY <2>1, <2>2
<1>10. Bounded'
  BY <1>1 DEF Bounded
<1> QED  BY <1>5, <1>7, <1>8, <1>9, <1>10 DEF Sound

(***************************************************************************)
(* The steps of a call                                                     *)
(***************************************************************************)
\* A step of a call keeps the invariant if it touches its channel only and, as
\* long as the call is alone there, leaves it at a proper stage.
LEMMA CallInv ==
  ASSUME Inv, Sound', NEW t \in Thread, NEW c \in Channel, call[t].ch = c,
         NEW step \in Step, Stays(t, c, step),
         \A d \in Channel \ {c} : Beside(d),
         Apart(c) /\ Life(c) => Raw(c)' /\ (IF step = "off" THEN Rest(c)' ELSE Stage(t)')
  PROVE  Inv'
<1>1. shared' = shared
  BY DEF Stays
<1>2. ASSUME NEW d \in Channel, Apart(d)', d # c PROVE Life(d)'
  BY <1>1, <1>2, BesideLife DEF Inv, Apart
<1>3. ASSUME Apart(c)' PROVE Life(c)'
  <2>1. Apart(c) /\ Life(c)
    BY <1>1, <1>3 DEF Inv, Apart
  <2>2. \A u \in Thread \ {t} : call[u].ch # c /\ call'[u].ch # c
    BY <2>1 DEF Life, Stays
  <2>3. /\ Raw(c)'
        /\ step = "off" => Rest(c)' /\ call'[t].ch # c
        /\ step # "off" => Stage(t)' /\ call'[t].ch = c
    BY <2>1, NoneIsNone DEF Stays
  <2> QED  BY <2>2, <2>3 DEF Life, Idle
<1> QED  BY <1>2, <1>3 DEF Inv

\* What is opened under the name of a call is for its channel, and so is what
\* a context refers to.
LEMMA ForChannel ==
  ASSUME Sound, NEW t \in Thread, NEW c \in Channel, ~At(t, "off"), call[t].ch = c
  PROVE  /\ \A k : For(<<k, Mine(t)>>[2]) = c
         /\ \A r \in open : r[2] \in Id /\ r[2] # None
         /\ \A r \in Held(ctx[c]) : r \in open => For(r[2]) = c
         /\ \A r \in Half(c) : For(r[2]) = c
<1>1. For(Mine(t)) = c
  BY Busy
<1>2. \A r \in open : r[2] \in Id /\ r[2] # None
  BY NoneIsNone DEF Sound, TypeOK
<1>3. \A r \in Held(ctx[c]) : r[2] # None => For(r[2]) = c
  BY DEF Sound, Owned, Held
<1> QED  BY <1>1, <1>2, <1>3 DEF Half

\* What a step of init or deinit on the channel c of thread t has to show.
Touches(t, c, step) ==
  /\ Stays(t, c, step) /\ UNCHANGED viewVars
  /\ \A d \in Channel \ {c} : ctx'[d] = ctx[d] /\ aac'[d] = aac[d]
  /\ \A r \in open \cup open' : For(r[2]) # c => (r \in open' <=> r \in open)
  /\ \A m \in mux \cup mux' : m.ch # c => (m \in mux' <=> m \in mux)
  /\ header' = header

LEMMA TouchInv ==
  ASSUME Inv, Sound', NEW t \in Thread, NEW c \in Channel, ~At(t, "off"), call[t].ch = c,
         NEW step \in Step, Touches(t, c, step),
         Apart(c) /\ Life(c) => Raw(c)' /\ (IF step = "off" THEN Rest(c)' ELSE Stage(t)')
  PROVE  Inv'
<1>1. \A d \in Channel \ {c} : Beside(d)
  BY Elsewhere DEF Touches, Inv, viewVars
<1> QED  BY <1>1, CallInv DEF Touches

\* What holds of all channels is kept by a step that moves a call and changes
\* no context.
LEMMA SameSound ==
  ASSUME Sound, NEW t \in Thread, NEW c \in Channel, ~At(t, "off"), call[t].ch = c,
         NEW step \in Step, Stays(t, c, step),
         UNCHANGED <<ctx, header, mux, viewVars>>, open' \subseteq open,
         aac' \in [Channel -> [on : BOOLEAN, hdr : BOOLEAN]]
  PROVE  Sound'
<1>1. TypeOK /\ Framed /\ Called /\ Owned /\ Bounded /\ For(Mine(t)) = c
  BY Busy DEF Sound
<1>2. call' \in [Thread -> Call] /\ calls' = calls /\ shared' = shared
  BY DEF Stays
<1>3. /\ ctx' = ctx /\ header' = header /\ mux' = mux /\ viewers' = viewers
      /\ events' = events
  BY DEF viewVars
<1>4. TypeOK'
  BY <1>1, <1>2, <1>3 DEF TypeOK, Call
<1>5. Called'
  <2> SUFFICES ASSUME NEW u \in Thread
               PROVE  IF call'[u].at = "off" THEN call'[u].ch = None
                      ELSE call'[u].ch \in Channel /\ For(Mine(u)') = call'[u].ch
    BY DEF Called, At, For
  <2>1. Mine(u)' = Mine(u)
    BY <1>2 DEF Mine
  <2>2. CASE u # t
    BY <1>1, <2>1, <2>2 DEF Stays, Called, At
  <2>3. CASE u = t
    BY <1>1, <2>1, <2>3 DEF Stays
  <2> QED  BY <2>2, <2>3
<1>6. Framed' /\ Owned' /\ Bounded'
  BY <1>1, <1>3 DEF Framed, Owned, Bounded, For
<1> QED  BY <1>4, <1>5, <1>6 DEF Sound

\* A step that changes no variable but call.
LEMMA Goes ==
  ASSUME Inv, NEW t \in Thread, NEW c \in Channel, ~At(t, "off"), call[t].ch = c,
         NEW step \in Step, Stays(t, c, step),
         UNCHANGED <<ctx, open, aac, header, mux, viewVars>>
  PROVE  Sound' /\ Touches(t, c, step)
<1>1. /\ Sound /\ UNCHANGED <<ctx, header, mux, viewVars>> /\ open' \subseteq open
      /\ aac' \in [Channel -> [on : BOOLEAN, hdr : BOOLEAN]]
  BY DEF Inv, Sound, TypeOK
<1>2. Sound'
  BY <1>1, SameSound
<1> QED  BY <1>2 DEF Touches, viewVars


\* Every step of ms_rtmp_channel_init keeps the invariant.
LEMMA InitStep ==
  ASSUME Inv, NEW t \in Thread, ChannelInit(t)
  PROVE  Inv'
<1> USE DEF viewVars
<1>1. ~At(t, "off") /\ Sound /\ TypeOK
  BY DEF ChannelInit, CheckStart, ClearContext, CreateMuxer, CreateMuxerAs,
     Connect, Handshake, Undo, UndoExcept, StartMuxer, At, Inv, Sound
<1>2. PICK c \in Channel : c = call[t].ch
  BY <1>1, Busy
<1>3. /\ Mine(t) \in Id /\ Mine(t) # None /\ For(Mine(t)) = c
      /\ The(t) = ctx[c] /\ ctx[c] \in Context /\ ctx \in [Channel -> Context]
      /\ RefBase \in Nat /\ MaxViewers <= RefBase /\ MaxViewers \in Nat
      /\ viewers[c] \in Nat /\ viewers[c] <= MaxViewers
  BY <1>1, <1>2, Busy, RtmpAssumption DEF The, TypeOK, Sound, Bounded
<1>4. /\ \A r \in open : r[2] \in Id /\ r[2] # None
      /\ \A r \in Held(ctx[c]) : r \in open => For(r[2]) = c
      /\ \A r \in Half(c) : For(r[2]) = c
  BY <1>1, <1>2, ForChannel
<1>5. Apart(c) /\ Life(c) => Stage(t) /\ Raw(c)
  BY <1>2 DEF Life
<1>6. CASE CheckStart(t)
  <2>1. UNCHANGED <<ctx, open, aac, header, calls, shared, mux, viewVars>> /\ At(t, "check")
    BY <1>6 DEF CheckStart
  <2>2. PICK step \in {"off", "clear"} :
          Stays(t, c, step) /\ (step = "off" <=> ctx[c].start)
    BY <1>1, <1>2, <1>3, <1>6, GotoStays, ReturnStays DEF CheckStart, Step
  <2>3. Sound' /\ Touches(t, c, step) /\ step \in Step
    BY <1>1, <1>2, <2>1, <2>2, Goes DEF Step
  <2>4. Apart(c) /\ Life(c) => Raw(c)' /\ (IF step = "off" THEN Rest(c)' ELSE Stage(t)')
    <3> SUFFICES ASSUME Apart(c), Life(c)
                 PROVE  Raw(c)' /\ (IF step = "off" THEN Rest(c)' ELSE Stage(t)')
      OBVIOUS
    <3>1. Rest(c) /\ Raw(c)
      BY <1>2, <1>5, <2>1 DEF Stage, At
    <3>2. Raw(c)' /\ Rest(c)'
      BY <2>1, <3>1 DEF Raw, Rest, Up, Down, Made, Mux, Counted
    <3>3. ~ctx[c].start => Down(c)'
      BY <2>1, <3>1 DEF Rest, Up, Down, Made, Mux
    <3> QED  BY <2>2, <3>2, <3>3 DEF Stage, Stays, At
  <2> QED  BY <1>1, <1>2, <2>3, <2>4, TouchInv
<1>7. CASE ClearContext(t)
  <2>1. /\ UNCHANGED <<open, aac, header, calls, shared, mux, viewVars>> /\ At(t, "clear")
        /\ ctx' = [ctx EXCEPT ![c] = Zero] /\ Zero \in Context
    BY <1>2, <1>7 DEF ClearContext, Zero, Context
  <2>2. Stays(t, c, "create") /\ "create" \in Step
    BY <1>1, <1>2, <1>7, GotoStays DEF ClearContext, Step
  <2>3. ctx'[c] = Zero /\ \A d \in Channel \ {c} : ctx'[d] = ctx[d]
    BY <1>3, <2>1
  <2>4. Sound'
    <3>1. \A id \in {Zero.muxer, Zero.socket, Zero.client} : id = None
      BY DEF Zero
    <3> QED  BY <1>1, <1>2, <2>1, <2>2, <3>1, CallSound
  <2>5. Touches(t, c, "create")
    BY <2>1, <2>2, <2>3 DEF Touches
  <2>6. Apart(c) /\ Life(c) => Raw(c)' /\ Stage(t)'
    <3> SUFFICES ASSUME Apart(c), Life(c) PROVE Raw(c)' /\ Stage(t)'
      OBVIOUS
    <3>1. Down(c)
      BY <1>2, <1>5, <2>1 DEF Stage, At
    <3>2. Down(c)' /\ Raw(c)'
      BY <2>1, <2>3, <3>1 DEF Down, Made, Mux, Raw, Zero
    <3> QED  BY <2>2, <2>3, <3>2 DEF Stage, Stays, At, Zero
  <2> QED  BY <1>1, <1>2, <2>2, <2>4, <2>5, <2>6, TouchInv
<1>8. CASE CreateMuxer(t)
  <2>1. /\ UNCHANGED <<aac, header, calls, shared, mux, viewVars>> /\ At(t, "create")
        /\ open' = open \cup {<<"muxer", Mine(t)>>}
    BY <1>8 DEF CreateMuxer, CreateMuxerAs
  <2>2. PICK x \in Context :
          /\ ctx' = [ctx EXCEPT ![c] = x]
          /\ x.muxer = Mine(t) /\ x.socket = ctx[c].socket /\ x.client = ctx[c].client
          /\ ~x.start /\ x.ref = RefBase
    <3> DEFINE new == [ctx[c] EXCEPT !.muxer = Mine(t), !.start = FALSE, !.ref = RefBase]
    <3>1. ctx' = [ctx EXCEPT ![c] = new]
      BY <1>2, <1>3, <1>8 DEF CreateMuxer, CreateMuxerAs
    <3>2. /\ new \in Context /\ new.muxer = Mine(t) /\ new.socket = ctx[c].socket
          /\ new.client = ctx[c].client /\ ~new.start /\ new.ref = RefBase
      BY <1>3 DEF Context
    <3> HIDE DEF new
    <3> QED  BY <3>1, <3>2
  <2>3. Stays(t, c, "connect") /\ "connect" \in Step
    BY <1>1, <1>2, <1>8, GotoStays DEF CreateMuxer, CreateMuxerAs, Step
  <2>4. ctx'[c] = x /\ \A d \in Channel \ {c} : ctx'[d] = ctx[d]
    BY <1>3, <2>2
  <2>5. Sound'
    <3>1. open' \subseteq open \cup (Kind \X {Mine(t)})
      BY <2>1 DEF Kind
    <3> QED  BY <1>1, <1>2, <2>1, <2>2, <2>3, <3>1, CallSound
  <2>6. Touches(t, c, "connect")
    BY <1>3, <2>1, <2>3, <2>4 DEF Touches
  <2>7. Apart(c) /\ Life(c) => Raw(c)' /\ Stage(t)'
    <3> SUFFICES ASSUME Apart(c), Life(c) PROVE Raw(c)' /\ Stage(t)'
      OBVIOUS
    <3>1. Down(c) /\ ctx[c].socket = None /\ ctx[c].client = None
      BY <1>2, <1>5, <2>1 DEF Stage, At
    <3>2. Made(c)' = {<<"muxer", Mine(t)>>}
      BY <1>3, <2>1, <3>1 DEF Down, Made, For
    <3>3. Opening(c)' /\ Raw(c)'
      BY <1>3, <2>1, <2>2, <2>4, <3>1, <3>2 DEF Opening, Down, Mux, Half, Held, Raw
    <3>4. Counted(c)'
      BY <1>3, <2>1, <2>2, <2>4 DEF Counted
    <3> QED  BY <1>3, <2>2, <2>3, <2>4, <3>1, <3>3, <3>4 DEF Stage, Stays, At
  <2> QED  BY <1>1, <1>2, <2>3, <2>5, <2>6, <2>7, TouchInv
<1>9. CASE Connect(t)
  <2>1. /\ UNCHANGED <<aac, header, calls, shared, mux, viewVars>> /\ At(t, "connect")
    BY <1>9 DEF Connect
  <2>2. PICK s \in {Mine(t), None}, x \in Context :
          /\ ctx' = [ctx EXCEPT ![c] = x]
          /\ x.muxer = ctx[c].muxer /\ x.socket = s /\ x.client = Mine(t)
          /\ x.start = ctx[c].start /\ x.ref = ctx[c].ref
          /\ open' = open \cup {<<"client", Mine(t)>>}
                          \cup (IF s # None THEN {<<"socket", s>>} ELSE {})
    <3>1. PICK ok \in BOOLEAN :
            /\ ctx' = [ctx EXCEPT ![c] =
                         [@ EXCEPT !.socket = IF ok THEN Mine(t) ELSE None,
                                   !.client = Mine(t)]]
            /\ open' = open \cup {<<"client", Mine(t)>>}
                            \cup (IF ok THEN {<<"socket", Mine(t)>>} ELSE {})
      BY <1>2, <1>9 DEF Connect
    <3> DEFINE s == IF ok THEN Mine(t) ELSE None
               new == [ctx[c] EXCEPT !.socket = s, !.client = Mine(t)]
    <3>2. s \in {Mine(t), None} /\ (s # None <=> ok)
      BY <1>3
    <3>3. ctx' = [ctx EXCEPT ![c] = new]
      BY <1>3, <3>1
    <3>4. open' = open \cup {<<"client", Mine(t)>>}
                       \cup (IF s # None THEN {<<"socket", s>>} ELSE {})
      BY <3>1, <3>2
    <3> HIDE DEF s
    <3>5. /\ new \in Context /\ new.muxer = ctx[c].muxer /\ new.socket = s
          /\ new.client = Mine(t) /\ new.start = ctx[c].start /\ new.ref = ctx[c].ref
      BY <1>3, <3>2 DEF Context
    <3> HIDE DEF new
    <3> QED  BY <3>2, <3>3, <3>4, <3>5
  <2>3. Stays(t, c, "handshake") /\ "handshake" \in Step
    BY <1>1, <1>2, <1>9, GotoStays DEF Connect, Step
  <2>4. ctx'[c] = x /\ \A d \in Channel \ {c} : ctx'[d] = ctx[d]
    BY <1>3, <2>2
  <2>5. Sound'
    <3>1. open' \subseteq open \cup (Kind \X {Mine(t)})
      BY <2>2 DEF Kind
    <3> QED  BY <1>1, <1>2, <2>1, <2>2, <2>3, <3>1, CallSound
  <2>6. Touches(t, c, "handshake")
    BY <1>3, <2>1, <2>2, <2>3, <2>4 DEF Touches
  <2>7. Apart(c) /\ Life(c) => Raw(c)' /\ Stage(t)'
    <3> SUFFICES ASSUME Apart(c), Life(c) PROVE Raw(c)' /\ Stage(t)'
      OBVIOUS
    <3>1. /\ Opening(c) /\ Counted(c) /\ ctx[c].muxer # None
          /\ ctx[c].socket = None /\ ctx[c].client = None
      BY <1>2, <1>5, <2>1 DEF Stage, At
    <3>2. Made(c) = {<<"muxer", ctx[c].muxer>>}
      BY <3>1 DEF Opening, Half, Held
    <3>3. Made(c)' = Made(c) \cup {<<"client", Mine(t)>>}
                        \cup (IF s # None THEN {<<"socket", s>>} ELSE {})
      BY <1>3, <2>2 DEF Made, For
    <3>4. Half(c)' = {<<"muxer", ctx[c].muxer>>, <<"client", Mine(t)>>}
                        \cup (IF s # None THEN {<<"socket", s>>} ELSE {})
      BY <1>3, <2>2, <2>4, <3>1 DEF Half, Held
    <3>5. Opening(c)' /\ Raw(c)' /\ Counted(c)'
      BY <2>1, <2>2, <2>4, <3>1, <3>2, <3>3, <3>4 DEF Opening, Mux, Raw, Counted
    <3> QED  BY <1>3, <2>2, <2>3, <2>4, <3>1, <3>5 DEF Stage, Stays, At
  <2> QED  BY <1>1, <1>2, <2>3, <2>5, <2>6, <2>7, TouchInv
<1>10. CASE Handshake(t)
  <2>1. /\ UNCHANGED <<ctx, open, aac, header, calls, shared, mux, viewVars>>
        /\ At(t, "handshake")
    BY <1>10 DEF Handshake
  <2>2. PICK step \in {"start", "undo"} :
          Stays(t, c, step) /\ (step = "start" => ctx[c].socket # None)
    BY <1>1, <1>2, <1>3, <1>10, GotoStays DEF Handshake, Step
  <2>3. Sound' /\ Touches(t, c, step) /\ step \in Step
    BY <1>1, <1>2, <2>1, <2>2, Goes DEF Step
  <2>4. Apart(c) /\ Life(c) => Raw(c)' /\ Stage(t)'
    <3> SUFFICES ASSUME Apart(c), Life(c) PROVE Raw(c)' /\ Stage(t)'
      OBVIOUS
    <3>1. Opening(c) /\ Counted(c) /\ ctx[c].muxer # None /\ ctx[c].client # None /\ Raw(c)
      BY <1>2, <1>5, <2>1 DEF Stage, At
    <3>2. Opening(c)' /\ Counted(c)' /\ Raw(c)'
      BY <2>1, <3>1 DEF Opening, Counted, Raw, Made, Mux, Half
    <3>3. step = "start" => Made(c) = Held(ctx[c])
      BY <2>2, <3>1 DEF Opening, Half, Held
    <3>4. step = "start" => Made(c)' = Held(ctx'[c])
      BY <2>1, <3>3 DEF Made
    <3> QED  BY <2>2, <3>2, <3>4 DEF Stage, Stays, At, Held
  <2> QED  BY <1>1, <1>2, <2>2, <2>3, <2>4, TouchInv
<1>11. CASE Undo(t)
  <2>1. /\ UNCHANGED <<ctx, aac, header, calls, shared, mux, viewVars>> /\ At(t, "undo")
        /\ open' = open \ Held(ctx[c])
    BY <1>2, <1>3, <1>11 DEF Undo, UndoExcept
  <2>2. Stays(t, c, "off") /\ "off" \in Step
    BY <1>1, <1>2, <1>11, ReturnStays DEF Undo, UndoExcept, Step
  <2>3. Sound'
    <3>1. /\ open' \subseteq open
          /\ aac' \in [Channel -> [on : BOOLEAN, hdr : BOOLEAN]]
      BY <1>1, <2>1 DEF TypeOK
    <3> QED  BY <1>1, <1>2, <2>1, <2>2, <3>1, SameSound
  <2>4. Touches(t, c, "off")
    BY <1>4, <2>1, <2>2 DEF Touches
  <2>5. Apart(c) /\ Life(c) => Raw(c)' /\ Rest(c)'
    <3> SUFFICES ASSUME Apart(c), Life(c) PROVE Raw(c)' /\ Rest(c)'
      OBVIOUS
    <3>1. Opening(c)
      BY <1>2, <1>5, <2>1 DEF Stage, At
    <3>2. Made(c)' = {}
      BY <2>1, <3>1 DEF Opening, Made, Half, For
    <3> QED  BY <2>1, <3>1, <3>2 DEF Opening, Rest, Down, Mux, Raw
  <2> QED  BY <1>1, <1>2, <2>2, <2>3, <2>4, <2>5, TouchInv
<1>12. CASE StartMuxer(t)
  <2> DEFINE new == [id |-> Mine(t), ch |-> c, at |-> "top", what |-> None]
  <2>1. /\ UNCHANGED <<open, aac, header, calls, shared, viewVars>> /\ At(t, "start")
        /\ mux' = mux \cup {new}
    BY <1>2, <1>12 DEF StartMuxer
  <2>2. PICK x \in Context :
          /\ ctx' = [ctx EXCEPT ![c] = x]
          /\ x.muxer = ctx[c].muxer /\ x.socket = ctx[c].socket /\ x.client = ctx[c].client
          /\ x.start /\ x.tid = Mine(t) /\ x.ref = ctx[c].ref
    <3> DEFINE y == [ctx[c] EXCEPT !.start = TRUE, !.tid = Mine(t)]
    <3>1. ctx' = [ctx EXCEPT ![c] = y]
      BY <1>2, <1>3, <1>12 DEF StartMuxer
    <3>2. /\ y \in Context /\ y.muxer = ctx[c].muxer /\ y.socket = ctx[c].socket
          /\ y.client = ctx[c].client /\ y.start /\ y.tid = Mine(t) /\ y.ref = ctx[c].ref
      BY <1>3 DEF Context
    <3> HIDE DEF y
    <3> QED  BY <3>1, <3>2
  <2>3. Stays(t, c, "off") /\ "off" \in Step
    BY <1>1, <1>2, <1>12, ReturnStays DEF StartMuxer, Step
  <2>4. ctx'[c] = x /\ \A d \in Channel \ {c} : ctx'[d] = ctx[d]
    BY <1>3, <2>2
  <2>5. Sound'
    <3>1. open' \subseteq open \cup (Kind \X {Mine(t)}) /\ \A m \in mux' : m \in mux \/ m = new
      BY <2>1
    <3>2. \A id \in {x.muxer, x.socket, x.client} :
            id \in {None, Mine(t), ctx[c].muxer, ctx[c].socket, ctx[c].client}
      BY <2>2
    <3> QED  BY <1>1, <1>2, <2>1, <2>2, <2>3, <3>1, <3>2, CallSound
  <2>6. Touches(t, c, "off")
    BY <2>1, <2>3, <2>4 DEF Touches
  <2>7. Apart(c) /\ Life(c) => Raw(c)' /\ Rest(c)'
    <3> SUFFICES ASSUME Apart(c), Life(c) PROVE Raw(c)' /\ Rest(c)'
      OBVIOUS
    <3>1. Opening(c) /\ Counted(c) /\ Made(c) = Held(ctx[c])
      BY <1>2, <1>5, <2>1 DEF Stage, At
    <3>2. Made(c)' = Held(ctx'[c])
      BY <2>1, <2>2, <2>4, <3>1 DEF Made, Held, For
    <3>3. Mux(c)' = {new}
      BY <2>1, <3>1 DEF Opening, Mux
    <3>4. Up(c)'
      BY <2>1, <2>2, <2>4, <3>1, <3>2, <3>3 DEF Up, Opening, Counted
    <3>5. Raw(c)'
      BY <3>3 DEF Raw
    <3> QED  BY <3>4, <3>5 DEF Rest
  <2> QED  BY <1>1, <1>2, <2>3, <2>5, <2>6, <2>7, TouchInv
<1> QED  BY <1>6, <1>7, <1>8, <1>9, <1>10, <1>11, <1>12 DEF ChannelInit

\* Every step of ms_rtmp_channel_deinit keeps the invariant, whether the
\* channel was started or not.
LEMMA DeinitStep ==
  ASSUME Inv, NEW t \in Thread, ChannelDeinit(t)
  PROVE  Inv'
<1> USE DEF viewVars
<1>1. ~At(t, "off") /\ Sound /\ TypeOK
  BY DEF ChannelDeinit, StopMuxer, StopMuxerWith, Join, CloseAac, DestroyAll,
     At, Inv, Sound
<1>2. PICK c \in Channel : c = call[t].ch
  BY <1>1, Busy
<1>3. /\ The(t) = ctx[c] /\ ctx[c] \in Context /\ ctx \in [Channel -> Context]
      /\ call \in [Thread -> Call]
      /\ aac \in [Channel -> [on : BOOLEAN, hdr : BOOLEAN]]
  BY <1>1, <1>2, Busy DEF The, TypeOK, Call
<1>4. /\ \A r \in open : r[2] \in Id /\ r[2] # None
      /\ \A r \in Held(ctx[c]) : r \in open => For(r[2]) = c
  BY <1>1, <1>2, ForChannel
<1>5. Apart(c) /\ Life(c) => Stage(t) /\ Raw(c)
  BY <1>2 DEF Life
<1>6. CASE StopMuxer(t)
  <2>1. UNCHANGED <<open, aac, header, calls, shared, mux, viewVars>> /\ At(t, "stop")
    BY <1>6 DEF StopMuxer, StopMuxerWith
  <2>2. PICK x \in Context :
          /\ ctx' = [ctx EXCEPT ![c] = x]
          /\ x.muxer = ctx[c].muxer /\ x.socket = ctx[c].socket /\ x.client = ctx[c].client
          /\ ~x.start /\ x.tid = ctx[c].tid
    <3> DEFINE y == [ctx[c] EXCEPT !.start = FALSE]
    <3>1. ctx' = [ctx EXCEPT ![c] = y]
      BY <1>2, <1>3, <1>6 DEF StopMuxer, StopMuxerWith
    <3>2. /\ y \in Context /\ y.muxer = ctx[c].muxer /\ y.socket = ctx[c].socket
          /\ y.client = ctx[c].client /\ ~y.start /\ y.tid = ctx[c].tid
      BY <1>3 DEF Context
    <3> HIDE DEF y
    <3> QED  BY <3>1, <3>2
  <2>3. PICK k \in Call :
          /\ call' = [call EXCEPT ![t] = k]
          /\ k.at = "join" /\ k.ch = c /\ k.tid = ctx[c].tid /\ k.live = ctx[c].start
    <3> DEFINE y == [call[t] EXCEPT !.at = "join", !.tid = ctx[c].tid, !.live = ctx[c].start]
    <3>1. call' = [call EXCEPT ![t] = y]
      BY <1>3, <1>6 DEF StopMuxer, StopMuxerWith
    <3>2. /\ y \in Call /\ y.at = "join" /\ y.ch = c /\ y.tid = ctx[c].tid
          /\ y.live = ctx[c].start
      <4>1. PICK id \in Id \cup {None}, on \in BOOLEAN : id = ctx[c].tid /\ on = ctx[c].start
        BY <1>3 DEF Context
      <4>2. call[t] \in Call /\ call[t].ch = c /\ "join" \in Step
        BY <1>2, <1>3 DEF Step
      <4>3. y = [call[t] EXCEPT !.at = "join", !.tid = id, !.live = on]
        BY <4>1
      <4> HIDE DEF y
      <4> QED  BY <4>1, <4>2, <4>3 DEF Call
    <3> HIDE DEF y
    <3> QED  BY <3>1, <3>2
  <2>4. Stays(t, c, "join") /\ "join" \in Step
    BY <1>3, <2>1, <2>3 DEF Stays, Step
  <2>5. ctx'[c] = x /\ \A d \in Channel \ {c} : ctx'[d] = ctx[d]
    BY <1>3, <2>2
  <2>6. Sound'
    <3>1. open' \subseteq open \cup (Kind \X {Mine(t)}) /\ \A m \in mux' : m \in mux
      BY <2>1
    <3>2. \A id \in {x.muxer, x.socket, x.client} :
            id \in {None, Mine(t), ctx[c].muxer, ctx[c].socket, ctx[c].client}
      BY <2>2
    <3> QED  BY <1>1, <1>2, <2>1, <2>2, <2>4, <3>1, <3>2, CallSound
  <2>7. Touches(t, c, "join")
    BY <2>1, <2>4, <2>5 DEF Touches
  <2>8. Apart(c) /\ Life(c) => Raw(c)' /\ Stage(t)'
    <3> SUFFICES ASSUME Apart(c), Life(c) PROVE Raw(c)' /\ Stage(t)'
      OBVIOUS
    <3>1. Rest(c) /\ Raw(c)
      BY <1>2, <1>5, <2>1 DEF Stage, At
    <3>2. Held(ctx'[c]) = Held(ctx[c]) /\ Made(c)' = Made(c) /\ Mux(c)' = Mux(c)
      BY <2>1, <2>2, <2>5 DEF Held, Made, Mux, For
    <3>3. Made(c)' = IF ctx[c].start THEN Held(ctx'[c]) ELSE {}
      BY <3>1, <3>2 DEF Rest, Up, Down, Left
    <3>4. \A m \in Mux(c)' : ctx[c].start /\ m.id = ctx[c].tid
      BY <3>1, <3>2 DEF Rest, Up, Down
    <3>5. ~ctx[c].start => ~aac'[c].hdr
      BY <2>1, <3>1 DEF Rest, Up, Down
    <3>6. call'[t] = k
      BY <1>3, <2>3
    <3>7. Raw(c)'
      BY <2>1, <2>2, <2>5, <3>1 DEF Raw, Mux
    <3> QED  BY <2>2, <2>3, <2>5, <3>3, <3>4, <3>5, <3>6, <3>7 DEF Stage, At, Left
  <2> QED  BY <1>1, <1>2, <2>4, <2>6, <2>7, <2>8, TouchInv
<1>7. CASE Join(t)
  <2>1. /\ UNCHANGED <<ctx, open, aac, header, calls, shared, mux, viewVars>>
        /\ At(t, "join") /\ \A m \in mux : m.id # call[t].tid
    BY <1>7 DEF Join
  <2>2. /\ Stays(t, c, "close") /\ "close" \in Step
        /\ call'[t].tid = call[t].tid /\ call'[t].live = call[t].live
    BY <1>1, <1>2, <1>7, GotoStays DEF Join, Step
  <2>3. Sound' /\ Touches(t, c, "close")
    BY <1>1, <1>2, <2>1, <2>2, Goes
  <2>4. Apart(c) /\ Life(c) => Raw(c)' /\ Stage(t)'
    <3> SUFFICES ASSUME Apart(c), Life(c) PROVE Raw(c)' /\ Stage(t)'
      OBVIOUS
    <3>1. /\ ~ctx[c].start /\ Left(c, call[t].live) /\ Raw(c)
          /\ \A m \in Mux(c) : m.id = call[t].tid
      BY <1>2, <1>5, <2>1 DEF Stage, At
    <3>2. Mux(c) = {}
      BY <2>1, <3>1 DEF Mux
    <3>3. ~ctx'[c].start /\ Left(c, call[t].live)' /\ Raw(c)' /\ Mux(c)' = {}
      <4>1. Made(c)' = Made(c) /\ Mux(c)' = Mux(c) /\ ctx' = ctx /\ header' = header
        BY <2>1 DEF Made, Mux, For
      <4>2. call'[t].live = call[t].live
        BY <2>2
      <4> QED  BY <3>1, <3>2, <4>1, <4>2 DEF Left, Raw, Held
    <3> QED  BY <2>2, <3>3 DEF Stage, Stays, At, Left
  <2> QED  BY <1>1, <1>2, <2>2, <2>3, <2>4, TouchInv
<1>8. CASE CloseAac(t)
  <2>1. /\ UNCHANGED <<ctx, open, header, calls, shared, mux, viewVars>> /\ At(t, "close")
        /\ aac' = [aac EXCEPT ![c] = [on |-> FALSE, hdr |-> FALSE]]
    BY <1>2, <1>8 DEF CloseAac
  <2>2. /\ Stays(t, c, "destroy") /\ "destroy" \in Step
        /\ call'[t].live = call[t].live
    BY <1>1, <1>2, <1>8, GotoStays DEF CloseAac, Step
  <2>3. /\ aac' \in [Channel -> [on : BOOLEAN, hdr : BOOLEAN]]
        /\ ~aac'[c].hdr /\ \A d \in Channel \ {c} : aac'[d] = aac[d]
    <3>1. [on |-> FALSE, hdr |-> FALSE] \in [on : BOOLEAN, hdr : BOOLEAN]
      OBVIOUS
    <3>2. ~[on |-> FALSE, hdr |-> FALSE].hdr
      OBVIOUS
    <3>3. aac'[c] = [on |-> FALSE, hdr |-> FALSE]
      BY <1>3, <2>1
    <3> QED  BY <1>3, <2>1, <3>1, <3>2, <3>3
  <2>4. Sound'
    BY <1>1, <1>2, <2>1, <2>2, <2>3, SameSound
  <2>5. Touches(t, c, "destroy")
    BY <2>1, <2>2, <2>3 DEF Touches
  <2>6. Apart(c) /\ Life(c) => Raw(c)' /\ Stage(t)'
    <3> SUFFICES ASSUME Apart(c), Life(c) PROVE Raw(c)' /\ Stage(t)'
      OBVIOUS
    <3>1. ~ctx[c].start /\ Left(c, call[t].live) /\ Raw(c) /\ Mux(c) = {}
      BY <1>2, <1>5, <2>1 DEF Stage, At
    <3>2. /\ Made(c)' = Made(c) /\ Mux(c)' = Mux(c) /\ ctx' = ctx /\ header' = header
          /\ call'[t].live = call[t].live
      BY <2>1, <2>2 DEF Made, Mux, For
    <3>3. ~ctx'[c].start /\ Left(c, call[t].live)' /\ Raw(c)' /\ Mux(c)' = {}
      BY <3>1, <3>2 DEF Left, Raw, Held
    <3> QED  BY <2>2, <2>3, <3>3 DEF Stage, Stays, At, Left
  <2> QED  BY <1>1, <1>2, <2>2, <2>4, <2>5, <2>6, TouchInv
<1>9. CASE DestroyAll(t)
  <2>1. /\ UNCHANGED <<ctx, aac, header, calls, shared, mux, viewVars>> /\ At(t, "destroy")
        /\ open' = open \ Held(ctx[c])
    BY <1>3, <1>9 DEF DestroyAll
  <2>2. Stays(t, c, "off") /\ "off" \in Step
    BY <1>1, <1>2, <1>9, ReturnStays DEF DestroyAll, Step
  <2>3. Sound'
    <3>1. /\ open' \subseteq open
          /\ aac' \in [Channel -> [on : BOOLEAN, hdr : BOOLEAN]]
      BY <1>3, <2>1
    <3> QED  BY <1>1, <1>2, <2>1, <2>2, <3>1, SameSound
  <2>4. Touches(t, c, "off")
    BY <1>4, <2>1, <2>2 DEF Touches
  <2>5. Apart(c) /\ Life(c) => Raw(c)' /\ Rest(c)'
    <3> SUFFICES ASSUME Apart(c), Life(c) PROVE Raw(c)' /\ Rest(c)'
      OBVIOUS
    <3>1. ~ctx[c].start /\ Left(c, call[t].live) /\ Mux(c) = {} /\ ~aac[c].hdr
      BY <1>2, <1>5, <2>1 DEF Stage, At
    <3>2. Made(c)' = {}
      BY <2>1, <3>1 DEF Left, Made, For
    <3> QED  BY <2>1, <3>1, <3>2 DEF Rest, Down, Mux, Raw
  <2> QED  BY <1>1, <1>2, <2>2, <2>3, <2>4, <2>5, TouchInv
<1> QED  BY <1>6, <1>7, <1>8, <1>9 DEF ChannelDeinit

\* A call begins.  If none was about its channel, the channel is at rest;
\* otherwise it is shared from now on.
LEMMA CallNextStep ==
  ASSUME Inv, NEW t \in Thread, CallNext(t)
  PROVE  Inv'
<1> USE DEF viewVars
<1>1. /\ Sound /\ TypeOK /\ At(t, "off") /\ call \in [Thread -> Call]
      /\ calls \in [Thread -> Nat]
  BY DEF CallNext, Inv, Sound, TypeOK, Call
<1>2. PICK c \in Channel, step \in {"check", "stop"} :
        /\ Scripts[t][calls[t] + 1][2] = c
        /\ Begin(t, c, step)
  <2> DEFINE entry == Scripts[t][calls[t] + 1]
  <2>1. calls[t] \in Nat /\ calls[t] + 1 \in 1 .. Len(Scripts[t])
    BY <1>1, RtmpAssumption DEF CallNext
  <2>2. Scripts[t] \in Seq({"init", "deinit"} \X Channel)
    BY RtmpAssumption
  <2>3. entry \in {"init", "deinit"} \X Channel
    BY <2>1, <2>2
  <2>4. Begin(t, entry[2], IF entry[1] = "init" THEN "check" ELSE "stop")
    BY DEF CallNext
  <2> HIDE DEF entry
  <2>5. entry[2] \in Channel
    BY <2>3
  <2> QED  BY <2>4, <2>5 DEF entry
<1>3. UNCHANGED <<ctx, open, aac, header, mux, viewVars>>
  BY DEF CallNext
<1>4. PICK k \in Call :
        /\ call' = [call EXCEPT ![t] = k] /\ k.at = step /\ k.ch = c
  <2> DEFINE y == [NoCall EXCEPT !.at = step, !.ch = c]
  <2>1. PICK none \in Call : none = NoCall
    BY DEF NoCall, Call, Step
  <2>2. y \in Call /\ y.at = step /\ y.ch = c
    <3>1. step \in Step
      BY DEF Step
    <3>2. y = [none EXCEPT !.at = step, !.ch = c]
      BY <2>1
    <3> HIDE DEF y
    <3> QED  BY <3>1, <3>2 DEF Call
  <2>3. call' = [call EXCEPT ![t] = y]
    BY <1>2 DEF Begin
  <2> HIDE DEF y
  <2> QED  BY <2>2, <2>3
<1>5. /\ call'[t] = k /\ call' \in [Thread -> Call]
      /\ \A u \in Thread \ {t} : call'[u] = call[u]
  BY <1>1, <1>4
<1>6. /\ calls' \in [Thread -> Nat] /\ calls'[t] = calls[t] + 1
      /\ \A u \in Thread \ {t} : calls'[u] = calls[u]
  BY <1>1, <1>2 DEF Begin
<1>7. /\ shared' \subseteq shared \cup {c} /\ shared \subseteq shared'
      /\ (\E u \in Thread : call[u].ch = c) => c \in shared'
  BY <1>2 DEF Begin
<1>8. Sound'
  <2>1. TypeOK'
    BY <1>1, <1>3, <1>5, <1>6, <1>7 DEF TypeOK, Call
  <2>2. Framed' /\ Owned' /\ Bounded'
    BY <1>1, <1>3 DEF Sound, Framed, Owned, Bounded, For
  <2>3. Called'
    <3> SUFFICES ASSUME NEW u \in Thread
                 PROVE  IF call'[u].at = "off" THEN call'[u].ch = None
                        ELSE call'[u].ch \in Channel /\ For(Mine(u)') = call'[u].ch
      BY DEF Called, At, For
    <3>1. CASE u # t
      <4>1. Mine(u)' = Mine(u) /\ call'[u] = call[u]
        BY <1>5, <1>6, <3>1 DEF Mine
      <4> QED  BY <1>1, <3>1, <4>1 DEF Sound, Called, At
    <3>2. CASE u = t
      <4>1. For(Mine(t)') = c
        BY <1>2, <1>6 DEF Mine, For
      <4> QED  BY <1>4, <1>5, <3>2, <4>1
    <3> QED  BY <3>1, <3>2
  <2> QED  BY <2>1, <2>2, <2>3 DEF Sound
<1>9. ASSUME NEW d \in Channel, Apart(d)' PROVE Life(d)'
  <2>1. Apart(d) /\ Life(d)
    BY <1>7, <1>9 DEF Inv, Apart
  <2>2. call[t].ch = None
    BY <1>1 DEF Sound, Called
  <2>3. CASE d # c
    <3>1. Beside(d)
      BY <1>3, <1>4, <1>5, <2>2, <2>3, NoneIsNone DEF Beside
    <3> QED  BY <2>1, <3>1, BesideLife
  <2>4. CASE d = c
    <3>1. Idle(c)
      BY <1>7, <1>9, <2>4 DEF Apart, Idle
    <3>2. Rest(c) /\ Raw(c)
      BY <2>1, <2>4, <3>1 DEF Life
    <3>3. Rest(c)' /\ Raw(c)'
      BY <1>3, <3>2 DEF Rest, Raw, Up, Down, Made, Mux, Counted, For
    <3>4. Stage(t)'
      BY <1>4, <1>5, <3>3 DEF Stage, At
    <3> QED  BY <1>5, <2>4, <3>1, <3>3, <3>4 DEF Life, Idle
  <2> QED  BY <2>3, <2>4
<1> QED  BY <1>8, <1>9 DEF Inv

(***************************************************************************)
(* The muxer threads and the events                                        *)
(***************************************************************************)
\* What one step of a muxer thread does to its channel.
LEMMA MuxerDoes ==
  ASSUME Sound, NEW m \in mux, MuxerThread(m), NEW c \in Channel, m.ch = c
  PROVE  /\ Sound' /\ UNCHANGED <<ctx, open, callVars, viewVars>>
         /\ \A d \in Channel \ {c} : aac'[d] = aac[d]
         /\ header \subseteq header'
         /\ \A n \in mux \cup mux' : n.ch # c => (n \in mux' <=> n \in mux)
         /\ \A n \in Mux(c)' : \E o \in Mux(c) : n.id = o.id
         /\ ctx[c].start => Mux(c)' # {}
         /\ ctx[c].start /\ aac'[c].hdr => aac[c].hdr \/ ctx[c].client \in header'
         /\ \A n \in Mux(c)' : n.at = "push" /\ n.what = "raw" =>
              n \in Mux(c) \/ (ctx[c].start /\ aac[c].hdr)
<1> USE DEF viewVars, callVars
<1> DEFINE States == {"top", "frame", "video", "audio", "push"}
           Whats == {None, "video", "audio", "header", "raw"}
           Threads == [id : Id, ch : Channel, at : States, what : Whats]
<1>1. /\ TypeOK /\ Framed /\ Called /\ Owned /\ Bounded
      /\ m \in Threads /\ mux \subseteq Threads
  BY DEF Sound, TypeOK
<1>2. UNCHANGED <<ctx, open, call, calls, shared, viewers, events>>
  BY DEF MuxerThread, TakeFrame, CheckReference, WriteVideo, WriteAudio, Push
<1>3. \/ mux' = mux \ {m} /\ ~ctx[c].start
      \/ \E step \in States, what \in Whats :
           /\ Go(m, step, what) /\ (step = "frame" => what \in {"video", "audio"})
           /\ step = "push" /\ what = "raw" => ctx[c].start /\ aac[c].hdr
  <2>1. CASE TakeFrame(m)
    BY <2>1 DEF TakeFrame
  <2>2. CASE CheckReference(m)
    <3>1. m.what \in {"video", "audio"}
      BY <1>1, <2>2 DEF Framed, CheckReference
    <3> QED  BY <2>2, <3>1 DEF CheckReference
  <2>3. CASE WriteVideo(m)
    BY <2>3 DEF WriteVideo
  <2>4. CASE WriteAudio(m)
    BY <2>4 DEF WriteAudio
  <2>5. CASE Push(m)
    BY <2>5 DEF Push
  <2> QED  BY <2>1, <2>2, <2>3, <2>4, <2>5 DEF MuxerThread
<1>4. /\ mux' \subseteq Threads /\ Framed'
      /\ \A n \in mux \cup mux' : n.ch # c => (n \in mux' <=> n \in mux)
      /\ \A n \in Mux(c)' : \E o \in Mux(c) : n.id = o.id
      /\ ctx[c].start => Mux(c)' # {}
      /\ \A n \in Mux(c)' : n.at = "push" /\ n.what = "raw" =>
           n \in Mux(c) \/ (ctx[c].start /\ aac[c].hdr)
  <2>1. CASE mux' = mux \ {m} /\ ~ctx[c].start
    BY <1>1, <2>1 DEF Framed, Mux
  <2>2. CASE \E step \in States, what \in Whats :
               /\ Go(m, step, what) /\ (step = "frame" => what \in {"video", "audio"})
               /\ step = "push" /\ what = "raw" => ctx[c].start /\ aac[c].hdr
    <3>1. PICK step \in States, what \in Whats :
            /\ Go(m, step, what) /\ (step = "frame" => what \in {"video", "audio"})
            /\ step = "push" /\ what = "raw" => ctx[c].start /\ aac[c].hdr
      BY <2>2
    <3> DEFINE n == [m EXCEPT !.at = step, !.what = what]
    <3>2. /\ n \in Threads
          /\ n.id = m.id /\ n.ch = m.ch /\ n.at = step /\ n.what = what
      BY <1>1
    <3>3. mux' = (mux \ {m}) \cup {n}
      BY <3>1 DEF Go
    <3> HIDE DEF n, Threads, States, Whats
    <3> QED  BY <1>1, <3>1, <3>2, <3>3 DEF Framed, Mux
  <2> QED  BY <1>3, <2>1, <2>2
<1>5. /\ aac' \in [Channel -> [on : BOOLEAN, hdr : BOOLEAN]]
      /\ \A d \in Channel \ {c} : aac'[d] = aac[d]
      /\ ctx[c].start /\ aac'[c].hdr => aac[c].hdr \/ ctx[c].client \in header'
  <2>1. aac \in [Channel -> [on : BOOLEAN, hdr : BOOLEAN]] /\ m.ch = c
    BY <1>1 DEF TypeOK
  <2>2. CASE WriteAudio(m)
    <3> DEFINE opened == [on |-> TRUE, hdr |-> aac[c].hdr \/ ~ctx[c].start]
    <3>1. UNCHANGED aac \/ aac' = [aac EXCEPT ![c] = opened]
      BY <2>2, <2>1 DEF WriteAudio
    <3>2. opened \in [on : BOOLEAN, hdr : BOOLEAN] /\ (opened.hdr <=> aac[c].hdr \/ ~ctx[c].start)
      <4>1. (aac[c].hdr \/ ~ctx[c].start) \in BOOLEAN
        OBVIOUS
      <4>2. opened \in [on : BOOLEAN, hdr : BOOLEAN]
        BY <4>1, Zenon
      <4>3. opened.hdr <=> aac[c].hdr \/ ~ctx[c].start
        OBVIOUS
      <4> QED  BY <4>2, <4>3
    <3> HIDE DEF opened
    <3> QED  BY <2>1, <3>1, <3>2
  <2>3. CASE Push(m)
    <3>1. UNCHANGED aac \/ (aac' = [aac EXCEPT ![c].hdr = TRUE] /\ ctx[c].client \in header')
      BY <2>1, <2>3 DEF Push
    <3> QED  BY <2>1, <3>1
  <2>4. CASE TakeFrame(m) \/ CheckReference(m) \/ WriteVideo(m)
    BY <2>1, <2>4 DEF TakeFrame, CheckReference, WriteVideo
  <2> QED  BY <2>2, <2>3, <2>4 DEF MuxerThread
<1>6. header' \subseteq Id \cup {None} /\ header \subseteq header'
  <2>1. ctx[c].client \in Id \cup {None}
    BY <1>1 DEF TypeOK, Context
  <2>2. header' = header \/ header' = header \cup {ctx[c].client}
    BY DEF MuxerThread, TakeFrame, CheckReference, WriteVideo, WriteAudio, Push
  <2> QED  BY <1>1, <2>1, <2>2 DEF TypeOK
<1>7. Sound'
  <2>1. TypeOK'
    BY <1>1, <1>2, <1>4, <1>5, <1>6 DEF TypeOK
  <2>2. Called' /\ Owned' /\ Bounded'
    BY <1>1, <1>2 DEF Called, Owned, Bounded, For, At, Mine
  <2> QED  BY <1>4, <2>1, <2>2 DEF Sound
<1> QED  BY <1>2, <1>4, <1>5, <1>6, <1>7

\* A step of a muxer thread keeps the invariant: its channel is up, or deinit
\* waits for the thread.
LEMMA MuxerStep ==
  ASSUME Inv, NEW m \in mux, MuxerThread(m)
  PROVE  Inv'
<1>1. PICK c \in Channel : c = m.ch
  BY DEF Inv, Sound, TypeOK
<1>2. /\ Sound' /\ UNCHANGED <<ctx, open, callVars, viewVars>>
      /\ \A d \in Channel \ {c} : aac'[d] = aac[d]
      /\ header \subseteq header'
      /\ \A n \in mux \cup mux' : n.ch # c => (n \in mux' <=> n \in mux)
      /\ \A n \in Mux(c)' : \E o \in Mux(c) : n.id = o.id
      /\ ctx[c].start => Mux(c)' # {}
      /\ ctx[c].start /\ aac'[c].hdr => aac[c].hdr \/ ctx[c].client \in header'
      /\ \A n \in Mux(c)' : n.at = "push" /\ n.what = "raw" =>
           n \in Mux(c) \/ (ctx[c].start /\ aac[c].hdr)
  BY <1>1, MuxerDoes DEF Inv
<1>3. UNCHANGED <<ctx, open, call, calls, shared, viewers>>
  BY <1>2 DEF callVars, viewVars
<1>4. ASSUME NEW d \in Channel, Apart(d)' PROVE Life(d)'
  <2>1. Life(d)
    BY <1>3, <1>4 DEF Inv, Apart
  <2>2. CASE d # c
    <3>1. Beside(d)
      BY <1>2, <1>3, <2>2 DEF Beside
    <3> QED  BY <2>1, <3>1, BesideLife
  <2>3. CASE d = c
    <3>1. m \in Mux(c) /\ Made(c)' = Made(c) /\ Held(ctx[c])' = Held(ctx[c])
      BY <1>1, <1>3 DEF Mux, Made, Held, For
    <3>2. Rest(c) => Up(c)
      BY <3>1 DEF Rest, Down
    <3>3. Up(c) => Up(c)'
      BY <1>2, <1>3, <3>1 DEF Up, Counted
    <3>4. Idle(c)' => Rest(c)'
      BY <1>3, <2>1, <2>3, <3>2, <3>3 DEF Life, Idle, Rest
    <3>5. ASSUME NEW u \in Thread, call[u].ch = c PROVE Stage(u)'
      <4>1. Stage(u) /\ call' = call
        BY <1>3, <2>1, <2>3, <3>5 DEF Life
      <4>2. CASE call[u].at \in {"check", "stop"}
        <5>1. Up(c)'
          BY <3>2, <3>3, <3>5, <4>1, <4>2 DEF Stage
        <5> QED  BY <3>5, <4>1, <4>2, <5>1 DEF Stage, At, Rest
      <4>3. CASE call[u].at = "join"
        BY <1>2, <1>3, <3>1, <3>5, <4>1, <4>3 DEF Stage, At, Left
      <4>4. CASE call[u].at \in {"clear", "create", "connect", "handshake", "undo",
                                "start", "close", "destroy"}
        <5>1. Mux(c) = {}
          BY <3>5, <4>1, <4>4 DEF Stage, At, Down, Opening
        <5> QED  BY <3>1, <5>1
      <4>5. CASE call[u].at = "off"
        BY <4>1, <4>5 DEF Stage, At
      <4>6. call[u].at \in Step
        BY DEF Inv, Sound, TypeOK
      <4> QED  BY <4>2, <4>3, <4>4, <4>5, <4>6 DEF Step
    <3>6. ctx[c].start /\ aac[c].hdr => ctx[c].client \in header
      <4>1. CASE Idle(c)
        BY <2>1, <2>3, <3>2, <4>1 DEF Life, Up
      <4>2. CASE ~Idle(c)
        <5>1. PICK u \in Thread : call[u].ch = c
          BY <4>2 DEF Idle
        <5>2. Stage(u) /\ call[u].at \in Step /\ call[u].at # "off"
          BY <2>1, <2>3, <5>1, NoneIsNone DEF Life, Inv, Sound, TypeOK, Called, At
        <5>3. call[u].at \in {"check", "stop"} => Up(c)
          BY <3>2, <5>1, <5>2 DEF Stage
        <5>4. call[u].at \notin {"check", "stop"} => ~ctx[c].start
          BY <5>1, <5>2 DEF Stage, Step, At, Down, Opening
        <5> QED  BY <5>3, <5>4 DEF Up
      <4> QED  BY <4>1, <4>2
    <3>7. Raw(c)'
      BY <1>2, <1>3, <2>1, <2>3, <3>6 DEF Life, Raw
    <3> QED  BY <1>3, <2>1, <2>3, <3>4, <3>5, <3>7 DEF Life
  <2> QED  BY <2>2, <2>3
<1> QED  BY <1>2, <1>4 DEF Inv

\* A PLAY or DONE event counts a viewer and the reference alike.
LEMMA EventStep ==
  ASSUME Inv, NEW c \in Channel, Play(c) \/ PlayDone(c)
  PROVE  Inv'
<1> USE DEF viewVars, callVars
<1>1. TypeOK /\ Framed /\ Called /\ Owned /\ Bounded
  BY DEF Inv, Sound
<1>2. UNCHANGED <<open, aac, header, call, calls, shared, mux>>
  BY DEF Play, PlayCounting, PlayDone
<1>3. /\ viewers \in [Channel -> Nat] /\ viewers[c] \in Nat /\ ctx[c].ref \in Nat
      /\ events \in Nat /\ MaxViewers \in Nat /\ ctx[c] \in Context
      /\ ctx \in [Channel -> Context]
  BY <1>1, RtmpAssumption DEF TypeOK, Context
<1>4. PICK r \in Nat, v \in Nat :
        /\ ctx' = [ctx EXCEPT ![c].ref = r] /\ viewers' = [viewers EXCEPT ![c] = v]
        /\ v <= MaxViewers \/ v <= viewers[c]
        /\ viewers[c] <= ctx[c].ref => v <= r
  <2> DEFINE Count(r, v) ==
        /\ ctx' = [ctx EXCEPT ![c].ref = r] /\ viewers' = [viewers EXCEPT ![c] = v]
  <2>1. CASE Play(c)
    <3>1. /\ Count(ctx[c].ref + 1, viewers[c] + 1) /\ viewers[c] < MaxViewers
      BY <1>3, <2>1 DEF Play, PlayCounting
    <3> HIDE DEF Count
    <3>2. \E r \in Nat, v \in Nat :
            Count(r, v) /\ v <= MaxViewers /\ (viewers[c] <= ctx[c].ref => v <= r)
      BY <1>3, <3>1
    <3> QED  BY <3>2 DEF Count
  <2>2. CASE PlayDone(c)
    <3>1. /\ Count(IF ctx[c].ref > 0 THEN ctx[c].ref - 1 ELSE ctx[c].ref, viewers[c] - 1)
          /\ viewers[c] > 0
      BY <1>3, <2>2 DEF PlayDone
    <3> HIDE DEF Count
    <3>2. \E r \in Nat, v \in Nat :
            Count(r, v) /\ v <= viewers[c] /\ (viewers[c] <= ctx[c].ref => v <= r)
      BY <1>3, <3>1
    <3> QED  BY <3>2 DEF Count
  <2> QED  BY <2>1, <2>2
<1>5. PICK x \in Context :
        /\ ctx' = [ctx EXCEPT ![c] = x]
        /\ x.start = ctx[c].start /\ x.muxer = ctx[c].muxer /\ x.socket = ctx[c].socket
        /\ x.client = ctx[c].client /\ x.tid = ctx[c].tid /\ x.ref = r
  <2> DEFINE y == [ctx[c] EXCEPT !.ref = r]
  <2>1. ctx' = [ctx EXCEPT ![c] = y]
    BY <1>3, <1>4
  <2>2. /\ y \in Context /\ y.start = ctx[c].start /\ y.muxer = ctx[c].muxer
        /\ y.socket = ctx[c].socket /\ y.client = ctx[c].client /\ y.tid = ctx[c].tid
        /\ y.ref = r
    BY <1>3, <1>4 DEF Context
  <2> HIDE DEF y
  <2> QED  BY <2>1, <2>2
<1>6. /\ ctx' \in [Channel -> Context] /\ ctx'[c] = x
      /\ \A d \in Channel \ {c} : ctx'[d] = ctx[d]
  BY <1>3, <1>5, Stored
<1>7. /\ viewers' \in [Channel -> Nat] /\ viewers'[c] = v
      /\ \A d \in Channel \ {c} : viewers'[d] = viewers[d]
  BY <1>3, <1>4
<1>8. Sound'
  <2>1. events' \in Nat
    BY <1>3 DEF Play, PlayCounting, PlayDone
  <2>2. TypeOK'
    BY <1>1, <1>2, <1>6, <1>7, <2>1 DEF TypeOK
  <2>3. Framed' /\ Called'
    BY <1>1, <1>2 DEF Framed, Called, At, Mine, For
  <2>4. Owned'
    BY <1>1, <1>5, <1>6 DEF Owned, For
  <2>5. Bounded'
    <3>1. v <= MaxViewers
      BY <1>1, <1>3, <1>4 DEF Bounded
    <3> QED  BY <1>1, <1>7, <3>1 DEF Bounded
  <2> QED  BY <2>2, <2>3, <2>4, <2>5 DEF Sound
<1>9. ASSUME NEW d \in Channel, Apart(d)' PROVE Life(d)'
  <2>1. Life(d)
    BY <1>2, <1>9 DEF Inv, Apart
  <2>2. CASE d # c
    <3>1. Beside(d)
      BY <1>2, <1>6, <1>7, <2>2 DEF Beside
    <3> QED  BY <2>1, <3>1, BesideLife
  <2>3. CASE d = c
    <3>1. /\ Made(c)' = Made(c) /\ Mux(c)' = Mux(c) /\ Held(ctx[c])' = Held(ctx[c])
          /\ Half(c)' = Half(c) /\ ctx'[c].start = ctx[c].start
          /\ ctx'[c].muxer = ctx[c].muxer /\ ctx'[c].socket = ctx[c].socket
          /\ ctx'[c].client = ctx[c].client /\ ctx'[c].tid = ctx[c].tid
      BY <1>2, <1>5, <1>6 DEF Made, Mux, Held, Half, For
    <3>2. Counted(c) => Counted(c)'
      BY <1>4, <1>5, <1>6, <1>7 DEF Counted
    <3>3. /\ Down(c) => Down(c)'
          /\ Up(c) => Up(c)'
          /\ Opening(c) => Opening(c)'
          /\ \A live : Left(c, live) => Left(c, live)'
      BY <1>2, <3>1, <3>2 DEF Down, Up, Opening, Left
    <3>4. Rest(c) => Rest(c)'
      BY <3>3 DEF Rest
    <3>5. ASSUME NEW u \in Thread, call[u].ch = c PROVE Stage(u)'
      <4>1. Stage(u) /\ call' = call
        BY <1>2, <2>1, <2>3, <3>5 DEF Life
      <4> QED  BY <1>2, <3>1, <3>2, <3>3, <3>4, <3>5, <4>1 DEF Stage, At
    <3>6. Raw(c)'
      BY <1>2, <2>1, <2>3, <3>1 DEF Life, Raw
    <3> QED  BY <1>2, <2>1, <2>3, <3>4, <3>5, <3>6 DEF Life, Idle
  <2> QED  BY <2>2, <2>3
<1> QED  BY <1>8, <1>9 DEF Inv

\* Nothing changes when the threads have made all their calls.
LEMMA StutterStep == ASSUME Inv, UNCHANGED vars PROVE Inv'
<1>1. UNCHANGED <<ctx, open, aac, header, call, calls, shared, mux, viewers, events>>
  BY DEF vars, callVars, viewVars
<1>2. Sound'
  BY <1>1 DEF Inv, Sound, TypeOK, Framed, Called, Owned, Bounded, At, Mine, For
<1>3. ASSUME NEW c \in Channel, Apart(c)' PROVE Life(c)'
  <2>1. Life(c) /\ Beside(c)
    BY <1>1, <1>3 DEF Inv, Apart, Beside
  <2> QED  BY <2>1, BesideLife
<1> QED  BY <1>2, <1>3 DEF Inv

\* Inv is inductive, whatever calls overlap.
LEMMA Inductive == Spec => []Inv
<1>1. ASSUME Inv, [Next]_vars PROVE Inv'
  <2>1. CASE \E t \in Thread : CallNext(t) \/ ChannelInit(t) \/ ChannelDeinit(t)
    BY <1>1, <2>1, CallNextStep, InitStep, DeinitStep
  <2>2. CASE \E m \in mux : MuxerThread(m)
    BY <1>1, <2>2, MuxerStep
  <2>3. CASE \E c \in Named : Play(c) \/ PlayDone(c)
    BY <1>1, <2>3, EventStep, RtmpAssumption
  <2>4. CASE UNCHANGED vars
    BY <1>1, <2>4, StutterStep
  <2> QED  BY <1>1, <2>1, <2>2, <2>3, <2>4 DEF Next, Done
<1> QED  BY InitInv, <1>1, PTL DEF Spec

(***************************************************************************)
(* The properties                                                          *)
(***************************************************************************)
\* Every variable of the RTMP channels keeps its type, whatever calls overlap.
THEOREM TypeCorrect == Spec => []TypeOK
<1>1. Inv => TypeOK
  BY DEF Inv, Sound
<1> QED  BY <1>1, Inductive, PTL

\* Where a muxer thread runs, its channel is up or deinit waits for the thread.
LEMMA RunsWhole ==
  ASSUME Inv, NEW m \in mux, Apart(m.ch)
  PROVE  Held(ctx[m.ch]) \subseteq open
<1>1. PICK c \in Channel : c = m.ch
  BY DEF Inv, Sound, TypeOK
<1>2. Life(c) /\ m \in Mux(c)
  BY <1>1 DEF Inv, Mux
<1>3. Made(c) \subseteq open
  BY DEF Made
<1>4. Rest(c) => Made(c) = Held(ctx[c])
  BY <1>2 DEF Rest, Up, Down
<1>5. CASE Idle(c)
  BY <1>1, <1>2, <1>3, <1>4, <1>5 DEF Life
<1>6. CASE ~Idle(c)
  <2>1. PICK u \in Thread : call[u].ch = c
    BY <1>6 DEF Idle
  <2>2. Stage(u) /\ call[u].at \in Step /\ call[u].at # "off"
    BY <1>2, <2>1, NoneIsNone DEF Life, Inv, Sound, TypeOK, Called, At
  <2>3. call[u].at \in {"check", "stop"} => Rest(c)
    BY <2>1, <2>2 DEF Stage
  <2>4. call[u].at = "join" => Made(c) = Held(ctx[c])
    BY <1>2, <2>1, <2>2 DEF Stage, At, Left
  <2>5. call[u].at \in {"check", "stop", "join"}
    BY <1>2, <2>1, <2>2 DEF Stage, Step, At, Down, Opening
  <2> QED  BY <1>1, <1>3, <1>4, <2>3, <2>4, <2>5
<1> QED  BY <1>5, <1>6

\* flv_muxer_thread uses the muxer, the socket and the client of its channel
\* only while they exist, whatever happens to the other channels:
\* ms_rtmp_channel_deinit has waited for the thread before it destroys them.
THEOREM UseCorrect == Spec => []UsesOnlyOpen
<1>1. Inv => UsesOnlyOpen
  <2> SUFFICES ASSUME Inv, NEW m \in mux, Apart(m.ch) PROVE Held(ctx[m.ch]) \subseteq open
    BY DEF UsesOnlyOpen, Held
  <2> QED  BY RunsWhole
<1> QED  BY <1>1, Inductive, PTL

\* What ms_rtmp_channel_init takes back after a failure, and what
\* ms_rtmp_channel_deinit destroys of a channel that was started, exists: a
\* deinit without an init, which destroys what is gone already, takes nothing
\* from the init after it, and no call closes what belongs to another channel.
THEOREM CloseCorrect == Spec => []ClosesOnce
<1>1. Inv => ClosesOnce
  <2> SUFFICES ASSUME Inv, NEW t \in Thread, Apart(call[t].ch), Closing(t)
               PROVE  \A r \in Held(The(t)) : r[2] # None => r \in open
    BY DEF ClosesOnce
  <2>1. PICK c \in Channel : c = call[t].ch /\ ~At(t, "off")
    BY Busy DEF Inv, Closing, At
  <2>2. Life(c) /\ Stage(t) /\ Made(c) \subseteq open /\ The(t) = ctx[c]
    BY <2>1 DEF Inv, Life, Made, The
  <2>3. At(t, "undo") => Made(c) = Half(c)
    BY <2>1, <2>2 DEF Stage, Opening, At
  <2>4. call[t].at \in {"join", "close", "destroy"} /\ call[t].live => Made(c) = Held(ctx[c])
    BY <2>1, <2>2 DEF Stage, Left, At
  <2> QED  BY <2>2, <2>3, <2>4 DEF Closing, Half
<1> QED  BY <1>1, Inductive, PTL

\* When no call for a channel is in progress, what was made for it and exists is
\* what it uses if it is started, with its one muxer thread: whatever init
\* failed, came twice or not at all before deinit, nothing is left behind.
THEOREM OnceCorrect == Spec => []InitializedOnce
<1>1. Inv => InitializedOnce
  <2> SUFFICES ASSUME Inv, NEW c \in Channel, Apart(c), \A t \in Thread : call[t].ch # c
               PROVE  /\ Made(c) = IF ctx[c].start THEN Held(ctx[c]) ELSE {}
                      /\ {m.id : m \in Mux(c)} = IF ctx[c].start THEN {ctx[c].tid} ELSE {}
    BY DEF InitializedOnce, Made, Mux
  <2>1. Rest(c)
    BY DEF Inv, Life, Idle
  <2>2. CASE Up(c)
    BY <2>2 DEF Up
  <2>3. CASE Down(c)
    BY <2>3 DEF Down
  <2> QED  BY <2>1, <2>2, <2>3 DEF Rest
<1> QED  BY <1>1, Inductive, PTL

\* A client that is pushed a raw AAC frame has received the sequence header: the flag
\* of g_aac is not left over from the channel's last connection, although the thread
\* may set it without sending the header while deinit waits for it.
THEOREM HeaderCorrect == Spec => []HeaderFirst
<1>1. Inv => HeaderFirst
  <2> SUFFICES ASSUME Inv, NEW m \in mux, Apart(m.ch), m.at = "push", m.what = "raw"
               PROVE  ctx[m.ch].client \in header
    BY DEF HeaderFirst
  <2>1. m.ch \in Channel
    BY DEF Inv, Sound, TypeOK
  <2> QED  BY <2>1 DEF Inv, Life, Raw, Mux
<1> QED  BY <1>1, Inductive, PTL

\* The frames of a started channel that somebody watches are not thrown away, whatever
\* init and the events do in between, as long as there are no more viewers than the
\* initial reference makes up for.
THEOREM FedCorrect == Spec => []WatchedIsFed
<1>1. Inv => WatchedIsFed
  <2> SUFFICES ASSUME Inv, NEW c \in Channel, Apart(c), ctx[c].start, viewers[c] > 0
               PROVE  ctx[c].ref > 0
    BY DEF WatchedIsFed
  <2>1. viewers[c] \in Nat /\ ctx[c].ref \in Nat /\ Life(c)
    BY DEF Inv, Sound, TypeOK, Context
  <2>2. CASE Idle(c)
    BY <2>1, <2>2 DEF Life, Rest, Up, Down, Counted
  <2>3. CASE ~Idle(c)
    <3>1. PICK u \in Thread : call[u].ch = c
      BY <2>3 DEF Idle
    <3>2. Stage(u) /\ call[u].at \in Step /\ call[u].at # "off"
      BY <2>1, <3>1, NoneIsNone DEF Life, Inv, Sound, TypeOK, Called, At
    <3>3. call[u].at \in {"check", "stop"}
      BY <3>1, <3>2 DEF Stage, Step, At, Down, Opening
    <3>4. Up(c)
      BY <3>1, <3>2, <3>3 DEF Stage, Rest, Down
    <3> QED  BY <2>1, <3>4 DEF Up, Counted
  <2> QED  BY <2>2, <2>3
<1> QED  BY <1>1, Inductive, PTL
=============================================================================
