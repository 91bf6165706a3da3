----------------------------- MODULE KitIdentity -----------------------------
(***************************************************************************)
(* The identity of a kit (config_info.cpp): rk_create_kit asks             *)
(* rk_get_or_create_kitid for the kit ID that belongs to the fingerprint   *)
(* of the device, a file in rk-kitdb that the first call makes.            *)
(*                                                                         *)
(* Several rec_threads may ask at the same time, for the same fingerprint; *)
(* the file is read and written in steps, and the process may end between  *)
(* any two of them.  A file that was opened stays what it is when its name *)
(* is removed, so contents and names are kept apart.  A Fingerprint stands *)
(* for the 64-bit key that names the file: devices with one key are one.   *)
(***************************************************************************)
EXTENDS Naturals, FiniteSets

CONSTANTS
  Caller, Fingerprint,
  MaxKitCalls,       \* bound on the calls and on the times the process stops
  KitFaults          \* "stop", "random", "write", "newline": see the actions

NoFile == 0          \* the name does not exist
NoKit == 0

ASSUME KitAssumption ==
  /\ MaxKitCalls \in Nat
  /\ KitFaults \subseteq {"stop", "random", "write", "newline"}

VARIABLES
  usable,     \* the directories that exist or can be made; it does not change
  name,       \* [directory -> [Fingerprint -> a file, or NoFile]]
  content,    \* [file -> the ID it holds, or NoKit when it is short]
  asking,     \* [Caller -> the call under way]
  answers,    \* the IDs that calls returned, with what was asked and the directory
  withdrawn,  \* IDs that could be read before their file was removed
  kitCalls    \* how many calls and stops there were
kitVars == <<usable, name, content, asking, answers, withdrawn, kitCalls>>

Dirs == <<"var", "here">>    \* the candidates of rk_pick_dbdir, in this order
File == DOMAIN content
Asleep == [at |-> "off"]

KitInit ==
  /\ usable \in SUBSET {"var", "here"}
  /\ name = [d \in {"var", "here"} |-> [f \in Fingerprint |-> NoFile]]
  /\ content = [n \in {} |-> NoKit]
  /\ asking = [c \in Caller |-> Asleep]
  /\ answers = {} /\ withdrawn = {} /\ kitCalls = 0

(***************************************************************************)
(* Helpers                                                                 *)
(***************************************************************************)
Asks(c, step) == asking[c].at = step
Continue(c, step) == asking' = [asking EXCEPT ![c].at = step]
GiveUp(c) == asking' = [asking EXCEPT ![c] = Asleep]
Answer(c, id) ==
  /\ answers' = answers \cup {[fp |-> asking[c].fp, id |-> id]}
  /\ GiveUp(c)
Named(c) == name[asking[c].dir][asking[c].fp]
Name(c, n) == name' = [name EXCEPT ![asking[c].dir][asking[c].fp] = n]
SetContent(n, id) == content' = [k \in File \cup {n} |-> IF k = n THEN id ELSE content[k]]
FreshFile == Cardinality(File) + 1

(***************************************************************************)
(* rk_get_or_create_kitid                                                  *)
(***************************************************************************)
KitCall(c) ==
  /\ Asks(c, "off") /\ kitCalls < MaxKitCalls
  /\ \E f \in Fingerprint :
       asking' = [asking EXCEPT ![c] =
                    [at |-> "dir", nr |-> kitCalls + 1, fp |-> f, dir |-> Dirs[1],
                     fd |-> NoFile]]
  /\ kitCalls' = kitCalls + 1
  /\ UNCHANGED <<usable, name, content, answers, withdrawn>>

\* The first candidate that can be made or exists; without one the call fails.
rk_pick_dbdir(c) ==
  /\ Asks(c, "dir")
  /\ IF usable = {} THEN GiveUp(c)
     ELSE asking' = [asking EXCEPT ![c].at = "read",
                       ![c].dir = IF Dirs[1] \in usable THEN Dirs[1] ELSE Dirs[2]]
  /\ UNCHANGED <<usable, name, content, answers, withdrawn, kitCalls>>

\* open O_RDONLY: before the attempt to make the file, and after it failed.
OpenToRead(c) ==
  /\ Asks(c, "read") \/ Asks(c, "reread")
  /\ IF Named(c) # NoFile
     THEN asking' = [asking EXCEPT ![c].fd = Named(c),
                       ![c].at = IF @ = "read" THEN "has" ELSE "hasAgain"]
     ELSE IF Asks(c, "read") THEN Continue(c, "create") ELSE GiveUp(c)
  /\ UNCHANGED <<usable, name, content, answers, withdrawn, kitCalls>>

\* 36 bytes are an answer, whoever wrote them; with fewer the second attempt fails.
ReadKit(c) ==
  /\ Asks(c, "has") \/ Asks(c, "hasAgain")
  /\ LET id == content[asking[c].fd] IN
     IF id # NoKit THEN Answer(c, id)
     ELSE /\ IF Asks(c, "has") THEN Continue(c, "create") ELSE GiveUp(c)
          /\ UNCHANGED answers
  /\ UNCHANGED <<usable, name, content, withdrawn, kitCalls>>

\* Mutated form: without O_EXCL it writes to the file that is there.
CreateKit_Shared(c) ==
  /\ Asks(c, "create")
  /\ LET n == IF Named(c) = NoFile THEN FreshFile ELSE Named(c) IN
     /\ Name(c, n) /\ SetContent(n, IF n \in File THEN content[n] ELSE NoKit)
     /\ asking' = [asking EXCEPT ![c].at = "generate", ![c].fd = n]
  /\ UNCHANGED <<usable, answers, withdrawn, kitCalls>>
\* open O_CREAT | O_EXCL; the call fails when the directory takes no new file.
CreateKit(c) ==
  /\ Asks(c, "create")
  /\ IF Named(c) # NoFile
     THEN Continue(c, "reread") /\ UNCHANGED <<name, content>>
     ELSE \/ /\ Name(c, FreshFile) /\ SetContent(FreshFile, NoKit)
             /\ asking' = [asking EXCEPT ![c].at = "generate", ![c].fd = FreshFile]
          \/ "write" \in KitFaults /\ GiveUp(c) /\ UNCHANGED <<name, content>>
  /\ UNCHANGED <<usable, answers, withdrawn, kitCalls>>

\* The call fails and removes the file.
RemoveFile(c) ==
  /\ Name(c, NoFile) /\ GiveUp(c)
  /\ withdrawn' = withdrawn \cup ({content[asking[c].fd]} \ {NoKit})
  /\ UNCHANGED <<usable, content, answers, kitCalls>>

\* A random ID that nobody had before: the number of the call stands for it.
rk_generate_uuid_v4(c) ==
  /\ Asks(c, "generate")
  /\ \/ Continue(c, "write") /\ UNCHANGED <<usable, name, content, answers, withdrawn, kitCalls>>
     \/ "random" \in KitFaults /\ RemoveFile(c)

\* 36 bytes, then a line end; the file is removed when either cannot be written.
WriteKit(c) ==
  /\ Asks(c, "write")
  /\ \/ /\ SetContent(asking[c].fd, asking[c].nr)
        /\ Continue(c, "newline")
        /\ UNCHANGED <<usable, name, answers, withdrawn, kitCalls>>
     \/ "write" \in KitFaults /\ RemoveFile(c)
EndKit(c) ==
  /\ Asks(c, "newline")
  /\ \/ Answer(c, asking[c].nr) /\ UNCHANGED <<usable, name, content, withdrawn, kitCalls>>
     \/ "newline" \in KitFaults /\ RemoveFile(c)

\* The process ends and starts again; the directories stay as they are.
StopKitServer ==
  /\ "stop" \in KitFaults /\ kitCalls < MaxKitCalls
  /\ asking' = [c \in Caller |-> Asleep]
  /\ kitCalls' = kitCalls + 1
  /\ UNCHANGED <<usable, name, content, answers, withdrawn>>

rk_get_or_create_kitid(c) ==
  \/ rk_pick_dbdir(c) \/ OpenToRead(c) \/ ReadKit(c) \/ CreateKit(c)
  \/ rk_generate_uuid_v4(c) \/ WriteKit(c) \/ EndKit(c)
KitNext == StopKitServer \/ \E c \in Caller : KitCall(c) \/ rk_get_or_create_kitid(c)
KitSpec == KitInit /\ [][KitNext]_kitVars

(***************************************************************************)
(* Properties                                                              *)
(***************************************************************************)
\* A device keeps its identity and shares it with no other: whoever asks, at the same
\* time or after the process ended at any point, the IDs answered for a fingerprint
\* are the same, and those for two fingerprints are not.  The exception is an ID that
\* was complete in the file when its line end could not be written.
SameKit ==
  \A a, b \in answers :
    {a.id, b.id} \cap withdrawn = {} => (a.fp = b.fp <=> a.id = b.id)
==============================================================================
