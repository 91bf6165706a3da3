---------------------------- MODULE SnapService ----------------------------
(***************************************************************************)
(* What Doordvr_Snap_Multi_Base64 (doordvr_jpeg_2.cpp) promises its        *)
(* caller, without contexts, threads, encoders or callbacks.  A client     *)
(* asks for a list of channels and is given an answer with one place per   *)
(* channel.  A picture of a channel is taken while its client waits, into  *)
(* the place of that channel in the list; once taken it is neither lost    *)
(* nor replaced, and the answer that is returned is what was taken.  A     *)
(* call may be void, from its start or from some later point: the service  *)
(* still ends it, but does not tell what it answers.                       *)
(***************************************************************************)
EXTENDS Naturals, Sequences

CONSTANTS
  Client,       \* the threads that call Doordvr_Snap_Multi_Base64
  Calls,        \* Calls[c]: the channel lists that client c asks for
  Encoded,      \* the channels that have an encoder
  MayRefuse,    \* whether a call may fail for want of memory
  None          \* no picture

VARIABLES
  callno,       \* [Client -> Nat]: calls made so far
  busy,         \* [Client -> BOOLEAN]: the client waits for its answer
  answer,       \* [Client -> Seq]: per channel asked for, None or its picture
  void          \* SUBSET Client: whose last call is void

vars == <<callno, busy, answer, void>>

Init ==
  /\ callno = [c \in Client |-> 0]
  /\ busy   = [c \in Client |-> FALSE]
  /\ answer = [c \in Client |-> <<>>]
  /\ void   = {}

Asked(c) == Calls[c][callno[c]]         \* the list of the call under way

NextCall(c) ==
  /\ ~busy[c] /\ callno[c] < Len(Calls[c])
  /\ callno' = [callno EXCEPT ![c] = @ + 1]
  /\ void' \in {void \cup {c}, void \ {c}}

\* The call returns at once, with nothing.
Refuse(c) ==
  /\ NextCall(c)
  /\ Asked(c)' = <<>> \/ MayRefuse
  /\ answer' = [answer EXCEPT ![c] = <<>>]
  /\ UNCHANGED busy

\* The call is under way: no picture has been taken.
Ask(c) ==
  /\ NextCall(c)
  /\ Asked(c)' # <<>>
  /\ busy' = [busy EXCEPT ![c] = TRUE]
  /\ answer' = [answer EXCEPT ![c] =
                  IF c \in void' THEN <<>> ELSE [i \in DOMAIN Asked(c)' |-> None]]

\* The one picture of the i-th channel asked for.
Take(c) ==
  /\ busy[c] /\ c \notin void
  /\ \E i \in DOMAIN Asked(c) :
       /\ Asked(c)[i] \in Encoded /\ answer[c][i] = None
       /\ answer' = [answer EXCEPT ![c][i] = Asked(c)[i]]
  /\ UNCHANGED <<callno, busy, void>>

\* The call returns what was taken.
Finish(c) ==
  /\ busy[c]
  /\ busy' = [busy EXCEPT ![c] = FALSE]
  /\ UNCHANGED <<callno, answer, void>>

\* Calls that are under way become void.
GiveUp(lost) ==
  /\ \A c \in lost : busy[c]
  /\ void' = void \cup lost
  /\ answer' = [c \in Client |-> IF c \in lost THEN <<>> ELSE answer[c]]
  /\ UNCHANGED <<callno, busy>>

Next ==
  \/ \E c \in Client : Refuse(c) \/ Ask(c) \/ Take(c) \/ Finish(c)
  \/ \E lost \in SUBSET Client : GiveUp(lost)

Spec == Init /\ [][Next]_vars
=============================================================================
