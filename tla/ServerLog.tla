------------------------------ MODULE ServerLog ------------------------------
(***************************************************************************)
(* The log of the server (server.c): numbered files under /userdata/log,   *)
(* rotated by the printing macro of server.c when the current one is full, *)
(* appended to without a test by the macro of server.h that the rest of    *)
(* the program uses, and opened anew by server_log_init.                   *)
(*                                                                         *)
(* server_log_init runs when the process starts, and once more in every    *)
(* call of rk_get_running_status.  The process may be stopped between any  *)
(* two steps; the files survive, the variables do not.  Calls are taken    *)
(* one after the other: two threads in check_and_advance_log at once would *)
(* use a FILE that is closed, and nothing could be said of the outcome.    *)
(***************************************************************************)
EXTENDS Integers, FiniteSets

CONSTANTS
  MAX_LOG_FILES, MAX_LOG_INDEX,   \* 10 and 50 in the code
  MaxHandles,                     \* FILEs a process may have open
  MaxInits                        \* bound on the calls of server_log_init

ASSUME LogAssumption ==
  /\ MAX_LOG_FILES \in Nat \ {0, 1} /\ MAX_LOG_INDEX \in Nat
  /\ MAX_LOG_FILES < MAX_LOG_INDEX
  /\ MaxHandles \in Nat \ {0} /\ MaxInits \in Nat

Index == 1 .. MAX_LOG_INDEX
NULL == 0

VARIABLES
  files,              \* the indices of the files that exist
  full,               \* those with MAX_LOG_SIZE bytes or more
  current_log_index,
  g_server_log_fp,    \* the index of the file it writes to, or NULL
  handles,            \* FILEs that are open
  lat,                \* the step of the call that is under way
  inits, reinits      \* calls of server_log_init: in all, and by this process's RPCs

logVars == <<files, full, current_log_index, g_server_log_fp, handles, lat,
             inits, reinits>>
disk == <<files, full>>
counts == <<inits, reinits>>

Booted(i) ==
  /\ current_log_index = 1 /\ g_server_log_fp = NULL /\ handles = 0
  /\ lat = "scan" /\ inits = i /\ reinits = 0
LogInit == files = {} /\ full = {} /\ Booted(1)

LogAt(step) == lat = step
LogGoto(step) == lat' = step

(***************************************************************************)
(* server_log_init                                                         *)
(***************************************************************************)
Newest == CHOOSE i \in files : \A j \in files : j <= i

\* The next index, counted from the largest one there is.
NextIndex == IF files = {} THEN 1
             ELSE IF Newest + 1 > MAX_LOG_INDEX THEN 1 ELSE Newest + 1
get_next_log_index ==
  /\ LogAt("scan")
  /\ current_log_index' = NextIndex
  /\ LogGoto("open")
  /\ UNCHANGED <<disk, g_server_log_fp, handles, counts>>

\* fopen with "a+": an existing file is kept.  Without a free FILE the process exits.
open_current_log_file ==
  /\ LogAt("open") /\ handles < MaxHandles
  /\ files' = files \cup {current_log_index}
  /\ g_server_log_fp' = current_log_index
  /\ handles' = handles + 1
  /\ LogGoto("print")
  /\ UNCHANGED <<full, current_log_index, counts>>

\* rk_get_running_status initialises the log again, with the old file still open.
running_status_log ==
  /\ LogAt("idle") /\ inits < MaxInits
  /\ inits' = inits + 1 /\ reinits' = reinits + 1
  /\ LogGoto("scan")
  /\ UNCHANGED <<disk, current_log_index, g_server_log_fp, handles>>

(***************************************************************************)
(* server_printf and check_and_advance_log                                 *)
(***************************************************************************)
check_size ==
  /\ LogAt("idle")
  /\ IF g_server_log_fp # NULL /\ current_log_index \in full
     THEN LogGoto("close") ELSE LogGoto("print")
  /\ UNCHANGED <<disk, current_log_index, g_server_log_fp, handles, counts>>

close_log ==
  /\ LogAt("close")
  /\ g_server_log_fp' = NULL /\ handles' = handles - 1
  /\ LogGoto("advance")
  /\ UNCHANGED <<disk, current_log_index, counts>>

advance_index ==
  /\ LogAt("advance")
  /\ current_log_index' =
       IF current_log_index + 1 > MAX_LOG_INDEX THEN 1 ELSE current_log_index + 1
  /\ LogGoto("delete")
  /\ UNCHANGED <<disk, g_server_log_fp, handles, counts>>

\* Mutated form: the count is not taken around the end.
Oldest_NoWrap == current_log_index - MAX_LOG_FILES
\* Mutated form: the wrap ends one file late.
Oldest_Current == LET i == current_log_index - MAX_LOG_FILES
                  IN  IF i <= 0 THEN current_log_index - 1 ELSE i
\* The file MAX_LOG_FILES before the current one, counted around the end.
Oldest == LET i == current_log_index - MAX_LOG_FILES
          IN  IF i <= 0 THEN i + MAX_LOG_INDEX ELSE i
delete_oldest_log_file ==
  /\ LogAt("delete")
  /\ files' = files \ {Oldest} /\ full' = full \ {Oldest}
  /\ LogGoto("open")
  /\ UNCHANGED <<current_log_index, g_server_log_fp, handles, counts>>

\* An entry is appended; it may be the one that makes the file full.
AppendEntry(next) ==
  /\ IF g_server_log_fp = NULL THEN full' = full
     ELSE \E fills \in BOOLEAN :
            full' = IF fills THEN full \cup {g_server_log_fp} ELSE full
  /\ LogGoto(next)
  /\ UNCHANGED <<files, current_log_index, g_server_log_fp, handles, counts>>
print_entry == LogAt("print") /\ AppendEntry("idle")

\* The macro of server.h: no test of the size.
print_unchecked == LogAt("idle") /\ AppendEntry("idle")

(***************************************************************************)
(* The process stops, by a power cut or because fopen failed, and starts   *)
(* again.                                                                  *)
(***************************************************************************)
LogRestart ==
  /\ inits < MaxInits \/ (LogAt("open") /\ handles = MaxHandles)
  /\ inits' = inits + 1 /\ reinits' = 0
  /\ current_log_index' = 1 /\ g_server_log_fp' = NULL /\ handles' = 0
  /\ LogGoto("scan")
  /\ UNCHANGED disk

LogStep == \/ get_next_log_index \/ open_current_log_file \/ check_size
           \/ close_log \/ advance_index \/ delete_oldest_log_file \/ print_entry
LogNext == LogStep \/ running_status_log \/ print_unchecked \/ LogRestart
LogSpec == LogInit /\ [][LogNext]_logVars

(***************************************************************************)
(* Properties                                                              *)
(***************************************************************************)
\* The rotation keeps the number of files at MAX_LOG_FILES, across the wrap of the
\* index and across a stop between any two of its steps; a call of server_log_init,
\* which deletes nothing and may leave the files of the last rotation for good, adds as
\* many at the most.
FilesBounded == Cardinality(files) <= MAX_LOG_FILES * inits

\* Neither the rotation nor a new start of the log takes away what was logged last:
\* the file that is written to exists and is the one the index names, and when the
\* next one is opened, the one before it is still there.
Previous == IF current_log_index = 1 THEN MAX_LOG_INDEX ELSE current_log_index - 1
LogKept ==
  /\ LogAt("idle") =>
       g_server_log_fp = current_log_index /\ g_server_log_fp \in files
  /\ LogAt("open") /\ files # {} => Previous \in files
==============================================================================
