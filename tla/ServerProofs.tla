---------------------------- MODULE ServerProofs ----------------------------
(***************************************************************************)
(* Theorems about the server: its log, for any number of files and         *)
(* indices, and the RPC server, for every set of clients.                  *)
(***************************************************************************)
EXTENDS ServerLog, RpcServer, SequenceTheorems, FiniteSetTheorems, TLAPS

(***************************************************************************)
(* The log: the files the rotation will delete in time are those of the    *)
(* last MAX_LOG_FILES indices.  The others are left over by an earlier     *)
(* call of server_log_init, and the rotation never adds to them.           *)
(***************************************************************************)
\* The index k files before i, counted around the end.
Back(i, k) == IF i - k <= 0 THEN i - k + MAX_LOG_INDEX ELSE i - k
Window(i) == {Back(i, k) : k \in 0 .. MAX_LOG_FILES - 1}

LogTypeOK ==
  /\ files \subseteq Index
  /\ current_log_index \in Index
  /\ lat \in {"scan", "open", "print", "idle", "close", "advance", "delete"}
  /\ inits \in Nat \ {0}

\* What a stop must leave: the file that was open last.
LastKept ==
  /\ lat \in {"print", "idle", "close"} =>
       g_server_log_fp = current_log_index /\ current_log_index \in files
  /\ lat = "advance" => current_log_index \in files
  /\ lat = "delete" => Previous \in files
  /\ lat = "open" /\ files # {} => Previous \in files

\* The files outside the window, before each call of server_log_init all of them.
Strays ==
  CASE lat = "scan" -> files
    [] lat = "delete" -> files \ Window(Previous)
    [] OTHER -> files \ Window(current_log_index)
FewStrays == Cardinality(Strays) <= MAX_LOG_FILES * (inits - 1)

LogInv == LogTypeOK /\ LastKept /\ FewStrays

\* The numbers of the module, and the sets made of them.
LEMMA LogNumbers ==
  /\ MAX_LOG_FILES \in Nat /\ MAX_LOG_INDEX \in Nat
  /\ 2 <= MAX_LOG_FILES /\ MAX_LOG_FILES < MAX_LOG_INDEX
  /\ 1 \in Index /\ MAX_LOG_INDEX \in Index
  /\ \A i : i \in Index <=> i \in Nat /\ 1 <= i /\ i <= MAX_LOG_INDEX
  BY LogAssumption DEF LogAssumption, Index

LEMMA FilesFinite ==
  ASSUME NEW S, S \subseteq Index
  PROVE  /\ IsFiniteSet(S) /\ Cardinality(S) \in Nat
         /\ \A T : T \subseteq S =>
              /\ IsFiniteSet(T) /\ Cardinality(T) \in Nat
              /\ Cardinality(T) <= Cardinality(S)
<1>1. IsFiniteSet(Index)
  BY LogNumbers, FS_Interval DEF Index
<1>2. IsFiniteSet(S)
  BY <1>1, FS_Subset
<1>. QED BY <1>2, FS_Subset, FS_CardinalityType

\* A window has MAX_LOG_FILES indices at the most.
LEMMA WindowSize ==
  ASSUME NEW i \in Index
  PROVE  IsFiniteSet(Window(i)) /\ Cardinality(Window(i)) <= MAX_LOG_FILES
<1> DEFINE D == 0 .. MAX_LOG_FILES - 1
           f == [k \in D |-> Back(i, k)]
<1>1. IsFiniteSet(D) /\ Cardinality(D) = MAX_LOG_FILES
  <2>1. 0 \in Int /\ MAX_LOG_FILES - 1 \in Int /\ ~(0 > MAX_LOG_FILES - 1)
        /\ MAX_LOG_FILES - 1 - 0 + 1 = MAX_LOG_FILES
    BY LogNumbers
  <2>2. IsFiniteSet(D) /\ Cardinality(D) = IF 0 > MAX_LOG_FILES - 1 THEN 0
                                           ELSE MAX_LOG_FILES - 1 - 0 + 1
    BY <2>1, FS_Interval, Zenon
  <2>. QED BY <2>1, <2>2
<1>2. f \in Surjection(D, Window(i))
  BY DEF Surjection, Window
<1>. QED BY <1>1, <1>2, FS_Surjection

\* Advancing the index brings it into the window, and drops the oldest.
LEMMA WindowAdvances ==
  ASSUME NEW i \in Index, NEW j \in Index,
         j = IF i + 1 > MAX_LOG_INDEX THEN 1 ELSE i + 1
  PROVE  /\ j \in Window(j)
         /\ Window(i) \subseteq Window(j) \cup {Back(j, MAX_LOG_FILES)}
<1>1. Back(j, 0) = j
  BY LogNumbers DEF Back
<1>2. \A k \in 0 .. MAX_LOG_FILES - 1 : Back(i, k) = Back(j, k + 1)
  BY LogNumbers DEF Back
<1>3. j \in Window(j)
  BY <1>1, LogNumbers DEF Window
<1>4. ASSUME NEW k \in 0 .. MAX_LOG_FILES - 1
      PROVE  Back(i, k) \in Window(j) \cup {Back(j, MAX_LOG_FILES)}
  <2>1. k + 1 = MAX_LOG_FILES \/ k + 1 \in 0 .. MAX_LOG_FILES - 1
    BY LogNumbers
  <2>. QED BY <1>2, <2>1 DEF Window
<1>. QED BY <1>3, <1>4 DEF Window

\* The current file is outside no window of its own.
LEMMA WindowHasCurrent == \A i \in Index : i \in Window(i)
<1>1. \A i \in Index : Back(i, 0) = i
  BY LogNumbers DEF Back
<1>. QED BY <1>1, LogNumbers DEF Window

\* All the files there are, at any time.
LEMMA FilesCount ==
  ASSUME LogInv
  PROVE  /\ Cardinality(files) \in Nat
         /\ Cardinality(files) <= MAX_LOG_FILES * inits
<1>1. IsFiniteSet(files) /\ Cardinality(files) \in Nat /\ IsFiniteSet(Strays)
      /\ Cardinality(Strays) \in Nat
  BY FilesFinite DEF LogInv, LogTypeOK, Strays
<1>2. MAX_LOG_FILES * inits = MAX_LOG_FILES * (inits - 1) + MAX_LOG_FILES
      /\ MAX_LOG_FILES * (inits - 1) \in Nat
  BY LogNumbers DEF LogInv, LogTypeOK
<1>3. CASE lat = "scan"
  BY <1>1, <1>2, <1>3, LogNumbers DEF LogInv, FewStrays, Strays
<1>4. CASE lat # "scan"
  <2>1. PICK i \in Index : Strays = files \ Window(i)
    BY <1>4, LogNumbers DEF LogInv, LogTypeOK, Strays, Previous
  <2>2. IsFiniteSet(Window(i)) /\ Cardinality(Window(i)) <= MAX_LOG_FILES
        /\ Cardinality(Window(i)) \in Nat
    BY WindowSize, FS_CardinalityType
  <2>3. /\ IsFiniteSet(Strays \cup Window(i))
        /\ Cardinality(Strays \cup Window(i)) \in Nat
        /\ Cardinality(Strays \cup Window(i)) <= Cardinality(Strays) + MAX_LOG_FILES
    <3>1. /\ IsFiniteSet(Strays \cup Window(i))
          /\ Cardinality(Strays \cup Window(i)) = Cardinality(Strays)
               + Cardinality(Window(i)) - Cardinality(Strays \cap Window(i))
      BY <1>1, <2>2, FS_Union
    <3>2. Cardinality(Strays \cap Window(i)) \in Nat
      BY <1>1, FS_Subset, FS_CardinalityType
    <3>3. Cardinality(Strays \cup Window(i)) \in Nat
      BY <3>1, FS_CardinalityType
    <3>. QED BY <1>1, <2>2, <3>1, <3>2, <3>3, LogNumbers
  <2>4. files \subseteq Strays \cup Window(i)
    BY <2>1
  <2>5. Cardinality(files) <= Cardinality(Strays \cup Window(i))
    BY <2>3, <2>4, FS_Subset
  <2>. QED BY <1>1, <1>2, <2>3, <2>5, LogNumbers DEF LogInv, FewStrays
<1>. QED BY <1>3, <1>4

LEMMA LogInitInv == LogInit => LogInv
  BY LogNumbers, FS_EmptySet
     DEF LogInit, Booted, LogInv, LogTypeOK, LastKept, FewStrays, Strays

\* Strays may disappear, they do not come.
LEMMA StraysShrink ==
  ASSUME LogInv, inits' = inits, files' \subseteq Index, Strays' \subseteq Strays
  PROVE  FewStrays'
<1>1. Strays \subseteq Index
  BY DEF LogInv, LogTypeOK, Strays
<1>2. Cardinality(Strays') <= Cardinality(Strays) /\ Cardinality(Strays) \in Nat
      /\ Cardinality(Strays') \in Nat
  BY <1>1, FilesFinite
<1>3. MAX_LOG_FILES * (inits - 1) \in Nat
  BY LogNumbers DEF LogInv, LogTypeOK
<1>. QED BY <1>2, <1>3 DEF LogInv, FewStrays

\* A new call of server_log_init counts all files as strays.
LEMMA ScanAgain ==
  ASSUME LogInv, inits' = inits + 1, files' = files, lat' = "scan"
  PROVE  FewStrays'
<1>1. Strays' = files
  BY DEF Strays
<1>. QED BY <1>1, FilesCount DEF FewStrays, LogInv, LogTypeOK

\* Every number set that is not empty has a least element, so files has a newest one.
LEMMA LeastNumber ==
  ASSUME NEW T, T \subseteq Nat, T # {}
  PROVE  \E x \in T : \A y \in T : x <= y
<1>1. PICK x \in T : \A y \in T : ~(<<y, x>> \in OpToRel(<, Nat))
  BY NatLessThanWellFounded, WFMin
<1>2. \A y \in T : ~(y < x)
  BY <1>1 DEF OpToRel
<1>. QED BY <1>2

LEMMA NewestExists ==
  ASSUME files \subseteq Index, files # {}
  PROVE  Newest \in files
<1> DEFINE T == {MAX_LOG_INDEX - i : i \in files}
<1>0. \A i \in files : i \in Nat /\ i <= MAX_LOG_INDEX
  BY LogNumbers
<1>1. T \subseteq Nat /\ T # {}
  <2>1. \A i \in files : MAX_LOG_INDEX - i \in Nat
    BY <1>0, LogNumbers
  <2>. QED BY <2>1, Zenon
<1>2. PICK x \in T : \A y \in T : x <= y
  BY <1>1, LeastNumber
<1>3. PICK i \in files : x = MAX_LOG_INDEX - i
  OBVIOUS
<1>4. \A j \in files : j <= i
  <2>1. \A j \in files : MAX_LOG_INDEX - i <= MAX_LOG_INDEX - j
    BY <1>2, <1>3, Zenon
  <2>. QED BY <1>0, <2>1, LogNumbers
<1>. QED BY <1>4 DEF Newest

LEMMA LogStepInv ==
  ASSUME LogInv, [LogNext]_logVars
  PROVE  LogInv'
<1>0. /\ files \subseteq Index /\ current_log_index \in Index /\ inits \in Nat \ {0}
  BY DEF LogInv, LogTypeOK
<1>1. CASE get_next_log_index
  <2>1. /\ lat = "scan" /\ lat' = "open" /\ current_log_index' = NextIndex
        /\ UNCHANGED <<files, inits>>
    BY <1>1 DEF get_next_log_index, LogAt, LogGoto, disk, counts
  <2>2. files # {} => Newest \in files /\ Newest \in Index
    BY <1>0, NewestExists
  <2>3. NextIndex \in Index /\ (files # {} =>
          Newest = IF NextIndex = 1 THEN MAX_LOG_INDEX ELSE NextIndex - 1)
    BY <2>2, LogNumbers DEF NextIndex
  <2>4. LogTypeOK'
    BY <2>1, <2>3 DEF LogInv, LogTypeOK
  <2>5. LastKept'
    BY <2>1, <2>2, <2>3 DEF LastKept, Previous
  <2>6. Strays' \subseteq Strays
    BY <2>1 DEF Strays
  <2>. QED BY <1>0, <2>1, <2>4, <2>5, <2>6, StraysShrink DEF LogInv
<1>2. CASE open_current_log_file
  <2>1. /\ lat = "open" /\ lat' = "print" /\ files' = files \cup {current_log_index}
        /\ g_server_log_fp' = current_log_index
        /\ UNCHANGED <<current_log_index, inits>>
    BY <1>2 DEF open_current_log_file, LogAt, LogGoto, counts
  <2>2. Strays' \subseteq Strays
    <3>1. /\ Strays = files \ Window(current_log_index)
          /\ Strays' = files' \ Window(current_log_index')
      BY <2>1 DEF Strays
    <3>2. Window(current_log_index') = Window(current_log_index)
      BY <2>1
    <3>. QED BY <1>0, <2>1, <3>1, <3>2, WindowHasCurrent
  <2>3. LogTypeOK' /\ LastKept'
    BY <1>0, <2>1 DEF LogInv, LogTypeOK, LastKept
  <2>. QED BY <1>0, <2>1, <2>2, <2>3, StraysShrink DEF LogInv, LogTypeOK
<1>3. CASE running_status_log
  <2>1. /\ lat' = "scan" /\ inits' = inits + 1 /\ UNCHANGED <<files, current_log_index>>
    BY <1>3 DEF running_status_log, LogGoto, disk
  <2>2. LogTypeOK' /\ LastKept'
    BY <2>1 DEF LogInv, LogTypeOK, LastKept
  <2>. QED BY <2>1, <2>2, ScanAgain DEF LogInv
<1>4. CASE LogRestart
  <2>1. /\ lat' = "scan" /\ inits' = inits + 1 /\ files' = files
        /\ current_log_index' = 1
    BY <1>4 DEF LogRestart, LogGoto, disk
  <2>2. LogTypeOK' /\ LastKept'
    BY <2>1, LogNumbers DEF LogInv, LogTypeOK, LastKept
  <2>. QED BY <2>1, <2>2, ScanAgain DEF LogInv
<1>5. CASE check_size \/ close_log \/ print_entry \/ print_unchecked \/ UNCHANGED logVars
  <2>1. /\ UNCHANGED <<files, current_log_index, inits>>
        /\ \/ lat \in {"idle", "print"} /\ lat' \in {"idle", "print", "close"}
              /\ UNCHANGED g_server_log_fp
           \/ lat = "close" /\ lat' = "advance"
           \/ UNCHANGED <<lat, g_server_log_fp>>
    BY <1>5 DEF check_size, close_log, print_entry, print_unchecked, AppendEntry, LogAt,
                LogGoto, disk, counts, logVars
  <2>2. Window(current_log_index') = Window(current_log_index)
        /\ Window(Previous') = Window(Previous) /\ Previous' = Previous
    BY <2>1 DEF Previous
  <2>3. Strays' = Strays
    BY <2>1, <2>2 DEF Strays
  <2>4. LogTypeOK' /\ LastKept'
    BY <2>1, <2>2 DEF LogInv, LogTypeOK, LastKept
  <2>. QED BY <1>0, <2>1, <2>3, <2>4, StraysShrink DEF LogInv
<1>6. CASE advance_index
  <2>1. /\ lat = "advance" /\ lat' = "delete" /\ UNCHANGED <<files, inits>>
        /\ current_log_index' = IF current_log_index + 1 > MAX_LOG_INDEX
                                THEN 1 ELSE current_log_index + 1
    BY <1>6 DEF advance_index, LogAt, LogGoto, disk, counts
  <2>2. current_log_index' \in Index /\ Previous' = current_log_index
    BY <1>0, <2>1, LogNumbers DEF Previous
  <2>3. Strays' \subseteq Strays
    BY <2>1, <2>2 DEF Strays
  <2>4. LogTypeOK' /\ LastKept'
    BY <2>1, <2>2 DEF LogInv, LogTypeOK, LastKept
  <2>. QED BY <1>0, <2>1, <2>3, <2>4, StraysShrink DEF LogInv
<1>7. CASE delete_oldest_log_file
  <2>1. /\ lat = "delete" /\ lat' = "open" /\ files' = files \ {Oldest}
        /\ UNCHANGED <<current_log_index, inits>>
    BY <1>7 DEF delete_oldest_log_file, LogAt, LogGoto, counts
  <2>2. /\ Previous \in Index /\ Previous \in files /\ Oldest # Previous
        /\ Oldest = Back(current_log_index, MAX_LOG_FILES)
        /\ current_log_index = IF Previous + 1 > MAX_LOG_INDEX THEN 1 ELSE Previous + 1
    BY <1>0, <2>1, LogNumbers DEF LogInv, LastKept, Previous, Oldest, Back
  <2>3. Window(Previous) \subseteq Window(current_log_index) \cup {Oldest}
    BY <1>0, <2>2, WindowAdvances
  <2>4. Strays' \subseteq Strays
    <3>1. Strays = files \ Window(Previous)
          /\ Strays' = files' \ Window(current_log_index')
      BY <2>1 DEF Strays
    <3>2. Window(current_log_index') = Window(current_log_index)
      BY <2>1
    <3>. QED BY <2>1, <2>3, <3>1, <3>2
  <2>5. LogTypeOK' /\ LastKept'
    BY <1>0, <2>1, <2>2 DEF LogInv, LogTypeOK, LastKept, Previous
  <2>. QED BY <1>0, <2>1, <2>4, <2>5, StraysShrink DEF LogInv, LogTypeOK
<1>. QED BY <1>1, <1>2, <1>3, <1>4, <1>5, <1>6, <1>7 DEF LogNext, LogStep

LEMMA LogCorrect == LogSpec => []LogInv
  BY LogInitInv, LogStepInv, PTL DEF LogSpec

\* The rotation keeps MAX_LOG_FILES files, and a call of server_log_init, or a stop
\* between any two steps, adds as many at the most: for all numbers of files and
\* indices.
THEOREM FilesCorrect == LogSpec => []FilesBounded
  BY LogCorrect, FilesCount, PTL DEF FilesBounded

\* Neither the rotation, nor a stop in the middle of it, nor the next start takes away
\* the file that was written last.
THEOREM KeptCorrect == LogSpec => []LogKept
<1>1. LogInv => LogKept
  BY DEF LogInv, LastKept, LogKept, LogAt
<1>. QED BY <1>1, LogCorrect, PTL

(***************************************************************************)
(* The RPC server.  What its proofs need of the table: every handler reads *)
(* what the client library sends for it, no reply contains the end of one, *)
(* and two handlers only forget a buffer.                                  *)
(***************************************************************************)
\* What clients and handlers write, other than names and the ends of a message.
Data ==
  {"req", "resp", "ret", "cfg", "config", "count", "records", "drivers", "params", "len",
   "json", "info", "path", "value", "progress", "PlayControl", "drive_info", "RunStatus",
   "proinfo", "deviceconfig", "captureconfig", "kitID", "eventID", "startedDateTime",
   "imageIdCount", "imageIds", "kitInfo", "isValid", "imageCount", "errLen", "error",
   "id", "fileLen", "file"}
Buffers ==
  {"images", "error", "imageIds", "recordList", "jsonStr", "drivers", "records"}
Listing == {"rk_verify_get_records", "rk_capture_get_records"}

HandlerType ==
  [reads : Seq(Data), strict : BOOLEAN, replies : SUBSET Seq(Data), ends : SUBSET {0, 1},
   holds : SUBSET Buffers, forgets : SUBSET {"count", "records", "ret"}]

\* A handler that reads the request and forgets nothing.
Fits(handler, request) ==
  handler \in HandlerType /\ handler.reads = request /\ handler.forgets = {}

LEMMA HandlerFits ==
  ASSUME NEW reads \in Seq(Data), NEW replies \in SUBSET Seq(Data)
  PROVE  Fits(Handler(reads, replies), reads)
  BY DEF Fits, Handler, HandlerType

LEMMA VariantFits ==
  ASSUME NEW request, NEW h, Fits(h, request)
  PROVE  /\ Fits(Strict(h), request) /\ Fits(NoReturn(h), request)
         /\ Fits([h EXCEPT !.ends = {1}], request)
         /\ Fits([h EXCEPT !.ends = {0, 1}], request)
         /\ \A holds \in SUBSET Buffers : Fits([h EXCEPT !.holds = holds], request)
<1>1. Fits(Strict(h), request)
  BY DEF Strict, Fits, HandlerType
<1>2. \A ends \in SUBSET {0, 1} : Fits([h EXCEPT !.ends = ends], request)
  BY DEF Fits, HandlerType
<1>3. \A holds \in SUBSET Buffers : Fits([h EXCEPT !.holds = holds], request)
  BY DEF Fits, HandlerType
<1>. QED BY <1>1, <1>2, <1>3 DEF NoReturn

LEMMA SimpleFits ==
  ASSUME NEW data \in Data
  PROVE  Fits(Get(data), <<>>) /\ Fits(Set(data), <<data>>) /\ Fits(Do, <<>>)
<1>1. "ret" \in Data
  BY DEF Data
<1>2. <<>> \in Seq(Data) /\ <<data>> \in Seq(Data) /\ <<"ret">> \in Seq(Data)
      /\ <<data, "ret">> \in Seq(Data)
  BY <1>1
<1>. QED BY <1>2, HandlerFits DEF Get, Set, Do

\* The functions that fetch, store or do one thing.
LEMMA GetCommands ==
  ASSUME NEW cmd \in {"rk_adas_get_preview_config", "rk_storage_get_stream_config",
                      "rk_get_product_info", "rk_get_device_config",
                      "rk_capture_get_config", "rk_get_debug_feature_config"}
  PROVE  Fits(map[cmd], Request(cmd))
<1>1. {"cfg", "config", "proinfo", "deviceconfig", "captureconfig"} \subseteq Data
  BY DEF Data
<1>2. /\ map["rk_adas_get_preview_config"] = ser_rk_adas_get_preview_config
      /\ map["rk_storage_get_stream_config"] = ser_rk_storage_get_stream_config
      /\ map["rk_get_product_info"] = ser_rk_get_product_info
      /\ map["rk_get_device_config"] = ser_rk_get_device_config
      /\ map["rk_capture_get_config"] = ser_rk_capture_get_config
      /\ map["rk_get_debug_feature_config"] = ser_rk_get_debug_feature_config
  BY DEF map
<1>3. /\ Request("rk_adas_get_preview_config") = <<>>
      /\ Request("rk_storage_get_stream_config") = <<>>
      /\ Request("rk_get_product_info") = <<>>
      /\ Request("rk_get_device_config") = <<>>
      /\ Request("rk_capture_get_config") = <<>>
      /\ Request("rk_get_debug_feature_config") = <<>>
  BY DEF Request, Sends
<1>4. /\ Fits(ser_rk_adas_get_preview_config, <<>>)
      /\ Fits(ser_rk_storage_get_stream_config, <<>>)
      /\ Fits(ser_rk_get_product_info, <<>>)
      /\ Fits(ser_rk_get_device_config, <<>>)
      /\ Fits(ser_rk_capture_get_config, <<>>)
      /\ Fits(ser_rk_get_debug_feature_config, <<>>)
  BY <1>1, SimpleFits
     DEF ser_rk_adas_get_preview_config, ser_rk_storage_get_stream_config,
         ser_rk_get_product_info, ser_rk_get_device_config, ser_rk_capture_get_config,
         ser_rk_get_debug_feature_config
<1>. QED BY <1>2, <1>3, <1>4

LEMMA SetCommands ==
  ASSUME NEW cmd \in {"rk_adas_set_preview_config", "rk_dms_set_config",
                      "rk_adas_set_config", "ms_record_play_control",
                      "rk_storage_set_stream_config", "rk_storage_set_config",
                      "rk_set_device_config", "rk_capture_set_config"}
  PROVE  Fits(map[cmd], Request(cmd))
<1>1. {"cfg", "config", "PlayControl", "deviceconfig", "captureconfig"} \subseteq Data
  BY DEF Data
<1>2. /\ map["rk_adas_set_preview_config"] = ser_rk_adas_set_preview_config
      /\ map["rk_dms_set_config"] = set_rk_dms_set_config
      /\ map["rk_adas_set_config"] = ser_rk_adas_set_config
      /\ map["ms_record_play_control"] = ser_ms_record_play_control
      /\ map["rk_storage_set_stream_config"] = ser_rk_storage_set_stream_config
      /\ map["rk_storage_set_config"] = ser_rk_storage_set_config
      /\ map["rk_set_device_config"] = ser_rk_set_device_config
      /\ map["rk_capture_set_config"] = ser_rk_capture_set_config
  BY DEF map
<1>3. /\ Request("rk_adas_set_preview_config") = <<"cfg">>
      /\ Request("rk_dms_set_config") = <<"cfg">>
      /\ Request("rk_adas_set_config") = <<"cfg">>
      /\ Request("ms_record_play_control") = <<"PlayControl">>
      /\ Request("rk_storage_set_stream_config") = <<"config">>
      /\ Request("rk_storage_set_config") = <<"config">>
      /\ Request("rk_set_device_config") = <<"deviceconfig">>
      /\ Request("rk_capture_set_config") = <<"captureconfig">>
  BY DEF Request, Sends
<1>4. /\ Fits(ser_rk_adas_set_preview_config, <<"cfg">>)
      /\ Fits(set_rk_dms_set_config, <<"cfg">>)
      /\ Fits(ser_rk_adas_set_config, <<"cfg">>)
      /\ Fits(ser_ms_record_play_control, <<"PlayControl">>)
      /\ Fits(ser_rk_storage_set_stream_config, <<"config">>)
      /\ Fits(ser_rk_storage_set_config, <<"config">>)
      /\ Fits(ser_rk_set_device_config, <<"deviceconfig">>)
      /\ Fits(ser_rk_capture_set_config, <<"captureconfig">>)
  BY <1>1, SimpleFits
     DEF ser_rk_adas_set_preview_config, set_rk_dms_set_config,
         ser_rk_adas_set_config, ser_ms_record_play_control,
         ser_rk_storage_set_stream_config, ser_rk_storage_set_config,
         ser_rk_set_device_config, ser_rk_capture_set_config
<1>. QED BY <1>2, <1>3, <1>4

LEMMA DoCommands ==
  ASSUME NEW cmd \in {"rk_storage_format", "rk_storage_get_disk_format_status",
                      "rk_format_tf_card", "rk_driver_delete_info",
                      "rk_verify_clear_records"}
  PROVE  Fits(map[cmd], Request(cmd))
<1>1. "ret" \in Data
  BY DEF Data
<1>2. /\ map["rk_storage_format"] = ser_rk_storage_format
      /\ map["rk_storage_get_disk_format_status"] = ser_rk_storage_get_disk_format_status
      /\ map["rk_format_tf_card"] = ser_rk_format_tf_card
      /\ map["rk_driver_delete_info"] = ser_rk_driver_delete_info
      /\ map["rk_verify_clear_records"] = ser_rk_verify_clear_records
  BY DEF map
<1>3. /\ Request("rk_storage_format") = <<>>
      /\ Request("rk_storage_get_disk_format_status") = <<>>
      /\ Request("rk_format_tf_card") = <<>>
      /\ Request("rk_driver_delete_info") = <<>>
      /\ Request("rk_verify_clear_records") = <<>>
  BY DEF Request, Sends
<1>4. /\ Fits(ser_rk_storage_format, <<>>)
      /\ Fits(ser_rk_storage_get_disk_format_status, <<>>)
      /\ Fits(ser_rk_format_tf_card, <<>>)
      /\ Fits(ser_rk_driver_delete_info, <<>>)
      /\ Fits(ser_rk_verify_clear_records, <<>>)
  BY <1>1, SimpleFits
     DEF ser_rk_storage_format, ser_rk_storage_get_disk_format_status,
         ser_rk_format_tf_card, ser_rk_driver_delete_info, ser_rk_verify_clear_records
<1>. QED BY <1>2, <1>3, <1>4

\* Those that may fall off their end.
LEMMA NoReturnCommands ==
  ASSUME NEW cmd \in {"rk_driver_register", "rk_set_debug_feature_config",
                      "rk_clear_driver_register_info", "rk_capture_clear_records"}
  PROVE  Fits(map[cmd], Request(cmd))
<1>1. {"cfg", "drive_info"} \subseteq Data
  BY DEF Data
<1>2. Fits(Set("cfg"), <<"cfg">>) /\ Fits(Set("drive_info"), <<"drive_info">>)
      /\ Fits(Do, <<>>)
  BY <1>1, SimpleFits
<1>3. /\ map["rk_driver_register"] = ser_rk_driver_register
      /\ map["rk_set_debug_feature_config"] = ser_rk_set_debug_feature_config
      /\ map["rk_clear_driver_register_info"] = ser_rk_clear_driver_register_info
      /\ map["rk_capture_clear_records"] = ser_rk_capture_clear_records
  BY DEF map
<1>4. /\ Request("rk_driver_register") = <<"drive_info">>
      /\ Request("rk_set_debug_feature_config") = <<"cfg">>
      /\ Request("rk_clear_driver_register_info") = <<>>
      /\ Request("rk_capture_clear_records") = <<>>
  BY DEF Request, Sends
<1>5. /\ Fits(ser_rk_driver_register, <<"drive_info">>)
      /\ Fits(ser_rk_set_debug_feature_config, <<"cfg">>)
      /\ Fits(ser_rk_clear_driver_register_info, <<>>)
      /\ Fits(ser_rk_capture_clear_records, <<>>)
  BY <1>2, VariantFits
     DEF ser_rk_driver_register, ser_rk_set_debug_feature_config,
         ser_rk_clear_driver_register_info, ser_rk_capture_clear_records
<1>. QED BY <1>3, <1>4, <1>5

\* Those that read nothing and have a reply of their own.
LEMMA ReplyCommands ==
  ASSUME NEW cmd \in {"rk_dms_get_config", "rk_adas_get_config", "rk_storage_get_config",
                      "rk_get_running_status", "rk_system_get_update_type",
                      "rk_system_get_update_progress"}
  PROVE  Fits(map[cmd], Request(cmd))
<1>1. {"cfg", "config", "RunStatus", "value", "progress"} \subseteq Data
  BY DEF Data
<1>2. <<>> \in Seq(Data) /\ \A d \in Data : <<d>> \in Seq(Data) /\ <<d, d>> \in Seq(Data)
  OBVIOUS
<1>3. /\ Fits(Handler(<<>>, {<<"cfg">>, <<"cfg", "cfg">>}), <<>>)
      /\ Fits(Handler(<<>>, {<<"config">>}), <<>>)
      /\ Fits(Handler(<<>>, {<<"RunStatus">>}), <<>>)
      /\ Fits(Handler(<<>>, {<<"value">>}), <<>>)
      /\ Fits(Handler(<<>>, {<<"progress">>}), <<>>)
  BY <1>1, <1>2, HandlerFits
<1>4. /\ map["rk_dms_get_config"] = set_rk_dms_get_config
      /\ map["rk_adas_get_config"] = ser_rk_adas_get_config
      /\ map["rk_storage_get_config"] = ser_rk_storage_get_config
      /\ map["rk_get_running_status"] = ser_rk_get_running_status
      /\ map["rk_system_get_update_type"] = ser_rk_system_get_update_type
      /\ map["rk_system_get_update_progress"] = ser_rk_system_get_update_progress
  BY DEF map
<1>5. /\ Request("rk_dms_get_config") = <<>>
      /\ Request("rk_adas_get_config") = <<>>
      /\ Request("rk_storage_get_config") = <<>>
      /\ Request("rk_get_running_status") = <<>>
      /\ Request("rk_system_get_update_type") = <<>>
      /\ Request("rk_system_get_update_progress") = <<>>
  BY DEF Request, Sends
<1>6. /\ Fits(set_rk_dms_get_config, <<>>)
      /\ Fits(ser_rk_adas_get_config, <<>>)
      /\ Fits(ser_rk_storage_get_config, <<>>)
      /\ Fits(ser_rk_get_running_status, <<>>)
      /\ Fits(ser_rk_system_get_update_type, <<>>)
      /\ Fits(ser_rk_system_get_update_progress, <<>>)
  BY <1>3, VariantFits
     DEF set_rk_dms_get_config, ser_rk_adas_get_config, ser_rk_storage_get_config,
         ser_rk_get_running_status, ser_rk_system_get_update_type,
         ser_rk_system_get_update_progress
<1>. QED BY <1>4, <1>5, <1>6

\* Those of the server's cloud interface, which read one request.
LEMMA RequestCommands ==
  ASSUME NEW cmd \in {"rk_create_kit", "rk_get_device_info", "rk_get_current_location",
                      "rk_get_health_check", "rk_config_device_settings"}
  PROVE  Fits(map[cmd], Request(cmd))
<1>1. <<"req">> \in Seq(Data) /\ <<"resp", "ret">> \in Seq(Data)
  BY DEF Data
<1>2. Fits(Handler(<<"req">>, {<<"resp", "ret">>}), <<"req">>)
  BY <1>1, HandlerFits
<1>3. /\ map["rk_create_kit"] = ser_rk_create_kit
      /\ map["rk_get_device_info"] = ser_rk_get_device_info
      /\ map["rk_get_current_location"] = ser_rk_get_current_location
      /\ map["rk_get_health_check"] = ser_rk_get_health_check
      /\ map["rk_config_device_settings"] = ser_rk_config_device_settings
  BY DEF map
<1>4. /\ Request("rk_create_kit") = <<"req">>
      /\ Request("rk_get_device_info") = <<"req">>
      /\ Request("rk_get_current_location") = <<"req">>
      /\ Request("rk_get_health_check") = <<"req">>
      /\ Request("rk_config_device_settings") = <<"req">>
  BY DEF Request, Sends
<1>5. /\ Fits(ser_rk_create_kit, <<"req">>)
      /\ Fits(ser_rk_get_device_info, <<"req">>)
      /\ Fits(ser_rk_get_current_location, <<"req">>)
      /\ Fits(ser_rk_get_health_check, <<"req">>)
      /\ Fits(ser_rk_config_device_settings, <<"req">>)
  BY <1>2, VariantFits
     DEF ser_rk_create_kit, ser_rk_get_device_info, ser_rk_get_current_location,
         ser_rk_get_health_check, ser_rk_config_device_settings
<1>. QED BY <1>3, <1>4, <1>5

LEMMA ImagesCommand == Fits(ser_rk_get_incident_images, <<"req">>)
<1> DEFINE head == <<"imageCount", "kitID", "eventID", "isValid", "errLen">>
           texts == {<<>>, <<"error">>}
           images == {<<>>, <<"id", "fileLen">>, <<"id", "fileLen", "file">>,
                      <<"id", "fileLen", "file", "id", "fileLen">>}
           end == <<"ret">>
           replies == {head \o t \o i \o end : t \in texts, i \in images}
<1>1. /\ {"req", "imageCount", "kitID", "eventID", "isValid", "errLen", "error", "id",
          "fileLen", "file", "ret"} \subseteq Data
  BY DEF Data
<1>2. /\ head \in Seq(Data) /\ end \in Seq(Data) /\ <<"req">> \in Seq(Data)
      /\ texts \subseteq Seq(Data) /\ images \subseteq Seq(Data)
  BY <1>1
<1> HIDE DEF head, texts, images, end
<1>3. \A t \in texts, i \in images : head \o t \o i \o end \in Seq(Data)
  BY <1>2, ConcatProperties
<1>4. replies \in SUBSET Seq(Data)
  <2>1. \A r \in replies : \E t \in texts, i \in images : r = head \o t \o i \o end
    BY SMT
  <2> HIDE DEF replies
  <2>2. \A r \in replies : r \in Seq(Data)
    BY <1>3, <2>1
  <2>. QED BY <2>2
<1> HIDE DEF replies
<1>5. Fits(Handler(<<"req">>, replies), <<"req">>)
  BY <1>2, <1>4, HandlerFits
<1>6. Fits(Strict(Handler(<<"req">>, replies)), <<"req">>)
  BY <1>5, VariantFits
<1>7. {"images", "error"} \in SUBSET Buffers
  BY DEF Buffers
<1>8. Fits([Strict(Handler(<<"req">>, replies)) EXCEPT !.holds = {"images", "error"}],
           <<"req">>)
  BY <1>6, <1>7, VariantFits
<1>. QED BY <1>8 DEF ser_rk_get_incident_images, replies, head, texts, images, end

LEMMA IncidentCommand ==
  Fits(ser_rk_create_incident,
       <<"kitID", "eventID", "startedDateTime", "imageIdCount", "imageIds", "kitInfo">>)
<1> DEFINE fixed == <<"imageIdCount", "kitID", "eventID", "startedDateTime", "isValid",
                      "kitInfo">>
           reads == <<"kitID", "eventID", "startedDateTime", "imageIdCount", "imageIds",
                      "kitInfo">>
<1>1. {"kitID", "eventID", "startedDateTime", "imageIdCount", "imageIds", "kitInfo",
       "isValid"} \subseteq Data
  BY DEF Data
<1>2. reads \in Seq(Data) /\ fixed \in Seq(Data) /\ <<"imageIds">> \in Seq(Data)
  BY <1>1
<1> HIDE DEF reads, fixed
<1>3. fixed \o <<"imageIds">> \in Seq(Data)
  BY <1>2, ConcatProperties
<1>4. Fits(Strict(Handler(reads, {fixed, fixed \o <<"imageIds">>})), reads)
  BY <1>2, <1>3, HandlerFits, VariantFits
<1>5. {"imageIds"} \in SUBSET Buffers
  BY DEF Buffers
<1>. QED BY <1>4, <1>5, VariantFits DEF ser_rk_create_incident, reads, fixed

\* The playback of records, and the upgrade.
LEMMA RecordCommands ==
  ASSUME NEW cmd \in {"rk_system_upgrade", "rk_get_record_file_list",
                      "rk_record_file_play", "rk_driver_get_list"}
  PROVE  Fits(map[cmd], Request(cmd))
<1>1. {"len", "path", "ret", "params", "json", "info", "count", "drivers"} \subseteq Data
      /\ {"recordList", "jsonStr"} \in SUBSET Buffers /\ {"drivers"} \in SUBSET Buffers
  BY DEF Data, Buffers
<1>2. <<>> \in Seq(Data) /\ \A d, e, f \in Data : /\ <<d>> \in Seq(Data)
        /\ <<d, e>> \in Seq(Data) /\ <<d, e, f>> \in Seq(Data)
  OBVIOUS
<1>3. /\ Fits(Handler(<<"len", "path">>, {<<"ret">>}), <<"len", "path">>)
      /\ Fits(Handler(<<"params">>, {<<"len", "json", "ret">>}), <<"params">>)
      /\ Fits(Handler(<<"params">>, {<<"info">>}), <<"params">>)
      /\ Fits(Handler(<<>>, {<<"count", "ret">>, <<"count", "drivers", "ret">>}), <<>>)
  BY ZenonT(30), <1>1, <1>2, HandlerFits
<1>4. /\ map["rk_system_upgrade"] = ser_rk_system_upgrade
      /\ map["rk_get_record_file_list"] = ser_rk_get_record_file_list
      /\ map["rk_record_file_play"] = ser_rk_record_file_play
      /\ map["rk_driver_get_list"] = ser_rk_driver_get_list
  BY DEF map
<1>5. /\ Request("rk_system_upgrade") = <<"len", "path">>
      /\ Request("rk_get_record_file_list") = <<"params">>
      /\ Request("rk_record_file_play") = <<"params">>
      /\ Request("rk_driver_get_list") = <<>>
  BY DEF Request, Sends
<1>6. /\ Fits(ser_rk_system_upgrade, <<"len", "path">>)
      /\ Fits(ser_rk_get_record_file_list, <<"params">>)
      /\ Fits(ser_rk_record_file_play, <<"params">>)
      /\ Fits(ser_rk_driver_get_list, <<>>)
  BY <1>1, <1>3, VariantFits
     DEF ser_rk_system_upgrade, ser_rk_get_record_file_list, ser_rk_record_file_play,
         ser_rk_driver_get_list
<1>. QED BY <1>4, <1>5, <1>6

LEMMA ListingCommands ==
  ASSUME NEW cmd \in Listing
  PROVE  /\ map[cmd] \in HandlerType /\ map[cmd].reads = Request(cmd)
         /\ map[cmd].holds = {"records"}
<1>1. <<>> \in Seq(Data) /\ <<"count", "records", "ret">> \in Seq(Data)
      /\ {"records"} \in SUBSET Buffers
  BY DEF Data, Buffers
<1> DEFINE h == Handler(<<>>, {<<"count", "records", "ret">>})
<1>2. h \in HandlerType /\ h.reads = <<>>
  BY <1>1, HandlerFits DEF Fits
<1>3. \A forgets \in SUBSET {"count", "records", "ret"} :
        LET g == [h EXCEPT !.holds = {"records"}, !.forgets = forgets] IN
        g \in HandlerType /\ g.reads = <<>> /\ g.holds = {"records"}
  <2>1. \A holds \in SUBSET Buffers, forgets \in SUBSET {"count", "records", "ret"} :
          LET g == [h EXCEPT !.holds = holds, !.forgets = forgets] IN
          g \in HandlerType /\ g.reads = h.reads /\ g.holds = holds
    BY <1>2 DEF HandlerType
  <2>. QED BY <1>1, <1>2, <2>1
<1>4. map["rk_verify_get_records"] = ser_rk_verify_get_records
      /\ map["rk_capture_get_records"] = ser_rk_capture_get_records
  BY DEF map
<1>5. Request("rk_verify_get_records") = <<>> /\ Request("rk_capture_get_records") = <<>>
  BY DEF Request, Sends
<1>6. \A g \in {ser_rk_verify_get_records, ser_rk_capture_get_records} :
        g \in HandlerType /\ g.reads = <<>> /\ g.holds = {"records"}
  BY ZenonT(30), <1>3 DEF ser_rk_verify_get_records, ser_rk_capture_get_records
<1>. QED BY <1>4, <1>5, <1>6 DEF Listing

\* The whole table.
LEMMA Table ==
  ASSUME NEW cmd \in Command
  PROVE  /\ map[cmd] \in HandlerType /\ map[cmd].reads = Request(cmd)
         /\ (map[cmd].forgets = {} \/ (cmd \in Listing /\ map[cmd].holds = {"records"}))
<1>1. map["rk_get_incident_images"] = ser_rk_get_incident_images
      /\ map["rk_create_incident"] = ser_rk_create_incident
  BY DEF map
<1>2. Request("rk_get_incident_images") = <<"req">>
      /\ Request("rk_create_incident") = <<"kitID", "eventID", "startedDateTime",
           "imageIdCount", "imageIds", "kitInfo">>
  BY DEF Request, Sends
<1>3. cmd \in {"rk_get_incident_images", "rk_create_incident"} =>
        Fits(map[cmd], Request(cmd))
  BY <1>1, <1>2, ImagesCommand, IncidentCommand
<1>4. cmd \notin {"rk_get_incident_images", "rk_create_incident"} \cup Listing =>
        Fits(map[cmd], Request(cmd))
  <2>1. Command = {"rk_get_incident_images", "rk_create_kit", "rk_get_current_location",
              "rk_get_health_check", "rk_config_device_settings",
              "rk_create_incident", "rk_adas_get_preview_config",
              "rk_adas_set_preview_config", "rk_dms_get_config",
              "rk_dms_set_config", "rk_adas_get_config", "rk_adas_set_config",
              "ms_record_play_control", "rk_get_record_file_list",
              "rk_storage_get_stream_config", "rk_storage_set_stream_config",
              "rk_storage_format", "rk_storage_set_config",
              "rk_storage_get_config", "rk_get_device_info",
              "rk_get_running_status", "rk_get_product_info",
              "rk_set_device_config", "rk_get_device_config",
              "rk_format_tf_card", "rk_driver_delete_info",
              "rk_driver_get_list", "rk_verify_get_records",
              "rk_verify_clear_records", "rk_record_file_play",
              "rk_driver_register", "rk_capture_get_config",
              "rk_capture_set_config", "rk_get_debug_feature_config",
              "rk_set_debug_feature_config", "rk_capture_get_records",
              "rk_clear_driver_register_info", "rk_capture_clear_records",
              "rk_storage_get_disk_format_status", "rk_system_upgrade",
              "rk_system_get_update_type", "rk_system_get_update_progress"}
    BY DEF Command, map
  <2>. QED BY <2>1, GetCommands, SetCommands, DoCommands, NoReturnCommands, ReplyCommands,
              RequestCommands, RecordCommands DEF Listing
<1>5. cmd \in Listing => /\ map[cmd] \in HandlerType /\ map[cmd].reads = Request(cmd)
                         /\ map[cmd].holds = {"records"}
  BY ListingCommands
<1>6. Fits(map[cmd], Request(cmd)) \/ cmd \in Listing
  BY <1>3, <1>4
<1>. QED BY <1>5, <1>6 DEF Fits

LEMMA UnknownIsNone == Unknown \notin Command /\ Request(Unknown) = <<>>
  BY DEF Unknown, Command, map, Request, Sends

(***************************************************************************)
(* Server and client in step.  While a client waits, what it has yet to    *)
(* send and what lies in the socket is together what the thread will read, *)
(* and the status, which ends the reply, comes last.                       *)
(***************************************************************************)
Message == Data \cup Command \cup {Unknown}
Reply == Data \cup {"greeting", "status"}

Conn ==
  [at : {"none", "queued", "orphan", "greet", "len", "name", "read", "write", "out"},
   cmd : Message, todo : Seq(Data), held : SUBSET (Buffers \cup {"name"})]
Peer ==
  [at : {"off", "greeting", "idle", "sending", "waiting"}, todo : Seq(Message)]

RpcTypeOK ==
  /\ conn \in [Client -> Conn] /\ peer \in [Client -> Peer]
  /\ toServer \in [Client -> Seq(Message)] /\ toClient \in [Client -> Seq(Reply)]

\* A thread that runs a handler has one, and holds no buffer but its own.
Serving(th) ==
  /\ th.at \in {"read", "write"} => th.cmd \in Command
  /\ th.at \in {"name", "read"} => th.held \subseteq {"name"}
  /\ th.at = "write" => th.held \subseteq {"name"} \cup map[th.cmd].holds

\* A command under way: rest is what the thread has yet to read, r what the client has.
Exchange(th, rest, r) ==
  \/ /\ th.at = "len" /\ th.held = {} /\ r = <<>>
     /\ \E cmd \in Command \cup {Unknown} : rest = <<"len", cmd>> \o Request(cmd)
  \/ /\ th.at = "name" /\ r = <<>>
     /\ \E cmd \in Command \cup {Unknown} : rest = <<cmd>> \o Request(cmd)
  \/ th.at = "read" /\ r = <<>> /\ rest = th.todo
  \/ th.at \in {"write", "out", "none"} /\ rest = <<>> /\ r \in Seq(Data)
  \/ /\ th.at = "len" /\ th.held = {} /\ rest = <<>>
     /\ \E q \in Seq(Data) : r = Append(q, "status")

Session(th, p, s, r) ==
  /\ p.at = "sending" <=> p.todo # <<>>
  /\ p.at = "greeting" =>
       /\ s = <<>> /\ th.held = {}
       /\ \/ th.at \in {"queued", "orphan", "greet"} /\ r = <<>>
          \/ th.at = "len" /\ r = <<"greeting">>
  /\ p.at = "idle" => s = <<>> /\ r = <<>> /\ th.at = "len" /\ th.held = {}
  /\ p.at \in {"sending", "waiting"} => Exchange(th, s \o p.todo, r)

SessionInv(c) ==
  /\ Serving(conn[c])
  /\ peer[c].at # "off" => Session(conn[c], peer[c], toServer[c], toClient[c])

RpcInv == RpcTypeOK /\ OnlyRecordsLeak /\ \A c \in Client : SessionInv(c)

LEMMA HeadTailConcat ==
  ASSUME NEW S, NEW s \in Seq(S), NEW t \in Seq(S), s # <<>>
  PROVE  /\ s \o t # <<>> /\ Head(s \o t) = Head(s) /\ Tail(s \o t) = Tail(s) \o t
<1>1. /\ s \o t \in Seq(S) /\ Len(s \o t) = Len(s) + Len(t) /\ Len(s) \in Nat \ {0}
      /\ Len(t) \in Nat
      /\ \A i \in 1 .. Len(s) + Len(t) :
           (s \o t)[i] = IF i <= Len(s) THEN s[i] ELSE t[i - Len(s)]
  BY ConcatProperties, EmptySeq, LenProperties
<1>2. s \o t # <<>>
  BY <1>1, EmptySeq
<1>3. Head(s \o t) = Head(s)
  BY <1>1, <1>2
<1>4. /\ Tail(s) \in Seq(S) /\ Len(Tail(s)) = Len(s) - 1
      /\ \A i \in 1 .. Len(Tail(s)) : Tail(s)[i] = s[i + 1]
  BY HeadTailProperties
<1>5. /\ Tail(s \o t) \in Seq(S) /\ Len(Tail(s \o t)) = Len(s \o t) - 1
      /\ \A i \in 1 .. Len(Tail(s \o t)) : Tail(s \o t)[i] = (s \o t)[i + 1]
  BY <1>1, <1>2, HeadTailProperties
<1>6. /\ Tail(s) \o t \in Seq(S) /\ Len(Tail(s) \o t) = Len(Tail(s)) + Len(t)
      /\ \A i \in 1 .. Len(Tail(s)) + Len(t) :
           (Tail(s) \o t)[i] = IF i <= Len(Tail(s)) THEN Tail(s)[i] ELSE t[i - Len(Tail(s))]
  BY <1>4, ConcatProperties
<1>7. Len(Tail(s \o t)) = Len(Tail(s) \o t)
  BY <1>1, <1>4, <1>5, <1>6
<1>8. ASSUME NEW i \in 1 .. Len(Tail(s \o t))
      PROVE  Tail(s \o t)[i] = (Tail(s) \o t)[i]
  <2>1. i \in Nat /\ 1 <= i /\ i <= Len(s) + Len(t) - 1
    BY <1>1, <1>5
  <2>2. Tail(s \o t)[i] = IF i + 1 <= Len(s) THEN s[i + 1] ELSE t[i + 1 - Len(s)]
    BY <1>1, <1>5, <2>1
  <2>3. (Tail(s) \o t)[i] = IF i <= Len(s) - 1 THEN Tail(s)[i] ELSE t[i - (Len(s) - 1)]
    BY <1>1, <1>4, <1>6, <2>1
  <2>4. i <= Len(s) - 1 => Tail(s)[i] = s[i + 1]
    BY <1>1, <1>4, <2>1
  <2>5. i - (Len(s) - 1) = i + 1 - Len(s) /\ (i <= Len(s) - 1 <=> i + 1 <= Len(s))
    BY <1>1, <2>1
  <2>. QED BY <2>2, <2>3, <2>4, <2>5
<1>9. Tail(s \o t) = Tail(s) \o t
  BY <1>5, <1>6, <1>7, <1>8, SeqEqual
<1>. QED BY <1>2, <1>3, <1>9

LEMMA MoveHead ==
  ASSUME NEW S, NEW s \in Seq(S), NEW t \in Seq(S), t # <<>>
  PROVE  Append(s, Head(t)) \o Tail(t) = s \o t
<1>1. Head(t) \in S /\ Tail(t) \in Seq(S) /\ <<Head(t)>> \in Seq(S)
  BY HeadTailProperties
<1>2. Append(s, Head(t)) = s \o <<Head(t)>>
  BY <1>1, AppendIsConcat
<1>3. (s \o <<Head(t)>>) \o Tail(t) = s \o (<<Head(t)>> \o Tail(t))
  BY <1>1, ConcatAssociative
<1>4. <<Head(t)>> \o Tail(t) = t
  <2>1. SubSeq(t, 1, Len(t)) = t /\ Len(t) \in Nat /\ Len(t) >= 1
    BY SubSeqFull, EmptySeq
  <2>2. SubSeq(t, 1, Len(t)) = <<t[1]>> \o SubSeq(t, 1 + 1, Len(t))
    BY <2>1, SubSeqRecursiveFirst
  <2>3. Tail(t) = SubSeq(t, 2, Len(t)) /\ Head(t) = t[1]
    BY TailIsSubSeq
  <2>. QED BY <2>1, <2>2, <2>3
<1>. QED BY <1>2, <1>3, <1>4

\* The messages, and how the strings that delimit them differ from the rest.
LEMMA Words ==
  /\ "len" \in Message /\ Unknown \in Message /\ Data \subseteq Message
  /\ Command \subseteq Message /\ Data \subseteq Reply
  /\ "greeting" \in Reply /\ "status" \in Reply
  /\ "greeting" \notin Data /\ "status" \notin Data
  BY DEF Message, Reply, Data

LEMMA RequestData ==
  ASSUME NEW cmd \in Command \cup {Unknown}
  PROVE  Request(cmd) \in Seq(Data) /\ Request(cmd) \in Seq(Message)
<1>1. Request(cmd) \in Seq(Data)
  <2>1. CASE cmd \in Command
    <3>1. map[cmd] \in HandlerType /\ map[cmd].reads = Request(cmd)
      BY <2>1, Table
    <3>. QED BY <3>1 DEF HandlerType
  <2>2. CASE cmd = Unknown
    BY <2>2, UnknownIsNone
  <2>. QED BY <2>1, <2>2
<1>. QED BY <1>1, Words, SeqMonotonic

\* What the steps make of a thread's record.
LEMMA ConnRecords ==
  /\ NoConn \in Conn
  /\ NoConn.at = "none" /\ NoConn.held = {} /\ NoConn.todo = <<>>
  /\ \A at \in {"queued", "len"} :
       /\ [NoConn EXCEPT !.at = at] \in Conn /\ [NoConn EXCEPT !.at = at].at = at
       /\ [NoConn EXCEPT !.at = at].held = {}
<1>1. Unknown \in Message /\ <<>> \in Seq(Data)
  BY Words
<1>. QED BY <1>1 DEF NoConn, Conn

LEMMA ConnUpdates ==
  ASSUME NEW th \in Conn
  PROVE  /\ \A at \in {"greet", "orphan", "len"} :
              /\ [th EXCEPT !.at = at] \in Conn /\ [th EXCEPT !.at = at].at = at
              /\ [th EXCEPT !.at = at].held = th.held
         /\ [th EXCEPT !.at = "name", !.held = {"name"}] \in Conn
         /\ [th EXCEPT !.at = "out", !.held = {"name"}] \in Conn
         /\ \A cmd \in Message : [th EXCEPT !.at = "out", !.cmd = cmd] \in Conn
         /\ \A cmd \in Message : \A todo \in Seq(Data) :
              [th EXCEPT !.at = "read", !.cmd = cmd, !.todo = todo] \in Conn
         /\ th.todo # <<>> => [th EXCEPT !.todo = Tail(@)] \in Conn
         /\ \A todo \in Seq(Data), holds \in SUBSET Buffers :
              [th EXCEPT !.at = "write", !.todo = todo, !.held = @ \cup holds] \in Conn
<1>1. \A at \in {"greet", "orphan", "len"} :
        /\ [th EXCEPT !.at = at] \in Conn /\ [th EXCEPT !.at = at].at = at
        /\ [th EXCEPT !.at = at].held = th.held
  BY DEF Conn
<1>2. [th EXCEPT !.at = "name", !.held = {"name"}] \in Conn
      /\ [th EXCEPT !.at = "out", !.held = {"name"}] \in Conn
  BY DEF Conn
<1>3. \A cmd \in Message : [th EXCEPT !.at = "out", !.cmd = cmd] \in Conn
  BY DEF Conn
<1>4. \A cmd \in Message : \A todo \in Seq(Data) :
        [th EXCEPT !.at = "read", !.cmd = cmd, !.todo = todo] \in Conn
  BY DEF Conn
<1>5. th.todo # <<>> => [th EXCEPT !.todo = Tail(@)] \in Conn
  <2>1. th.todo \in Seq(Data)
    BY DEF Conn
  <2>2. th.todo # <<>> => Tail(th.todo) \in Seq(Data)
    BY <2>1, HeadTailProperties
  <2>. QED BY <2>2 DEF Conn
<1>6. \A todo \in Seq(Data), holds \in SUBSET Buffers :
        [th EXCEPT !.at = "write", !.todo = todo, !.held = @ \cup holds] \in Conn
  BY DEF Conn
<1>. QED BY <1>1, <1>2, <1>3, <1>4, <1>5, <1>6

LEMMA RpcTypes ==
  ASSUME RpcInv, NEW c \in Client
  PROVE  /\ conn[c] \in Conn /\ peer[c] \in Peer
         /\ toServer[c] \in Seq(Message) /\ toClient[c] \in Seq(Reply)
         /\ conn[c].todo \in Seq(Data) /\ peer[c].todo \in Seq(Message)
         /\ conn[c].held \subseteq Buffers \cup {"name"}
         /\ Serving(conn[c])
         /\ ~Gone(c) => Session(conn[c], peer[c], toServer[c], toClient[c])
<1>1. conn[c] \in Conn /\ peer[c] \in Peer /\ SessionInv(c)
      /\ toServer[c] \in Seq(Message) /\ toClient[c] \in Seq(Reply)
  BY DEF RpcInv, RpcTypeOK
<1>. QED BY <1>1 DEF Conn, Peer, SessionInv, Gone

\* A step of one client's connection, on either side.
LEMMA OneClient ==
  ASSUME RpcInv, NEW c \in Client,
         NEW th \in Conn, conn' = [conn EXCEPT ![c] = th],
         NEW p \in Peer, peer' = [peer EXCEPT ![c] = p],
         NEW s \in Seq(Message), toServer' = [toServer EXCEPT ![c] = s],
         NEW r \in Seq(Reply), toClient' = [toClient EXCEPT ![c] = r],
         OnlyRecordsLeak', Serving(th), p.at # "off" => Session(th, p, s, r)
  PROVE  RpcInv'
<1>1. RpcTypeOK'
  BY DEF RpcInv, RpcTypeOK
<1>2. \A d \in Client : IF d = c
        THEN conn'[d] = th /\ peer'[d] = p /\ toServer'[d] = s /\ toClient'[d] = r
        ELSE /\ conn'[d] = conn[d] /\ peer'[d] = peer[d]
             /\ toServer'[d] = toServer[d] /\ toClient'[d] = toClient[d]
  BY DEF RpcInv, RpcTypeOK
<1>3. \A d \in Client : SessionInv(d)'
  BY <1>2 DEF RpcInv, SessionInv
<1>. QED BY <1>1, <1>3 DEF RpcInv

\* What is unchanged is assigned its value.
LEMMA Same ==
  ASSUME RpcInv, NEW c \in Client
  PROVE  /\ conn = [conn EXCEPT ![c] = conn[c]] /\ peer = [peer EXCEPT ![c] = peer[c]]
         /\ toServer = [toServer EXCEPT ![c] = toServer[c]]
         /\ toClient = [toClient EXCEPT ![c] = toClient[c]]
  BY DEF RpcInv, RpcTypeOK

\* A thread that closes its connection, or goes on, without forgetting a buffer.
LEMMA ThreadStep ==
  ASSUME RpcInv, NEW c \in Client, NEW th \in Conn,
         conn' = [conn EXCEPT ![c] = th], peer' = peer, leaks' = leaks,
         NEW s \in Seq(Message), toServer' = [toServer EXCEPT ![c] = s],
         NEW r \in Seq(Reply), toClient' = [toClient EXCEPT ![c] = r],
         Serving(th), ~Gone(c) => Session(th, peer[c], s, r)
  PROVE  RpcInv'
<1>1. OnlyRecordsLeak'
  BY DEF RpcInv, OnlyRecordsLeak
<1>2. peer[c] \in Peer
  BY RpcTypes
<1>. QED BY <1>1, <1>2, Same, OneClient DEF Gone

\* The end of a connection whose client is gone.
LEMMA Closed ==
  ASSUME RpcInv, NEW c \in Client, Gone(c), CloseConn(c, {}),
         UNCHANGED <<toServer, toClient>>
  PROVE  RpcInv'
<1>1. conn' = [conn EXCEPT ![c] = NoConn] /\ peer' = peer /\ leaks' = leaks
  BY DEF CloseConn, Become
<1>2. Serving(NoConn)
  BY ConnRecords DEF Serving
<1>. QED BY <1>1, <1>2, ConnRecords, RpcTypes, Same, ThreadStep

\* A thread takes an item, which the client has sent in whatever state it is now.
LEMMA Taken ==
  ASSUME RpcInv, NEW c \in Client, ReadData(c)
  PROVE  /\ toServer' = [toServer EXCEPT ![c] = Tail(toServer[c])]
         /\ toClient' = [toClient EXCEPT ![c] = toClient[c]]
         /\ Tail(toServer[c]) \in Seq(Message) /\ Head(toServer[c]) \in Message
         /\ LET rest == toServer[c] \o peer[c].todo IN
            /\ rest # <<>> /\ Head(rest) = Head(toServer[c])
            /\ Tail(rest) = Tail(toServer[c]) \o peer[c].todo
<1>1. toServer[c] # <<>> /\ toServer' = [toServer EXCEPT ![c] = Tail(toServer[c])]
      /\ toClient' = toClient
  BY DEF ReadData, RpcInv, RpcTypeOK
<1>2. toServer[c] \in Seq(Message) /\ peer[c].todo \in Seq(Message)
  BY RpcTypes
<1>3. Tail(toServer[c]) \in Seq(Message) /\ Head(toServer[c]) \in Message
  BY <1>1, <1>2, HeadTailProperties
<1>4. LET rest == toServer[c] \o peer[c].todo IN
      /\ rest # <<>> /\ Head(rest) = Head(toServer[c])
      /\ Tail(rest) = Tail(toServer[c]) \o peer[c].todo
  BY <1>1, <1>2, HeadTailConcat
<1>5. toClient' = [toClient EXCEPT ![c] = toClient[c]]
  BY <1>1, Same
<1>. QED BY <1>1, <1>3, <1>4, <1>5

\* A thread writes an item.
LEMMA Written ==
  ASSUME RpcInv, NEW c \in Client, NEW item \in Reply, WriteData(c, item)
  PROVE  /\ toClient' = [toClient EXCEPT ![c] = Append(toClient[c], item)]
         /\ toServer' = [toServer EXCEPT ![c] = toServer[c]]
         /\ Append(toClient[c], item) \in Seq(Reply) /\ ~Gone(c)
<1>1. toClient' = [toClient EXCEPT ![c] = Append(toClient[c], item)] /\ ~Gone(c)
      /\ toServer' = toServer
  BY DEF WriteData, RpcInv, RpcTypeOK
<1>2. toClient[c] \in Seq(Reply)
  BY RpcTypes
<1>. QED BY <1>1, <1>2, Same, AppendProperties

\* The thread of a connection.
LEMMA GreetStep ==
  ASSUME RpcInv, NEW c \in Client, Greet(c)
  PROVE  RpcInv'
<1>1. CASE WriteClosed(c) /\ CloseConn(c, {})
  BY <1>1, Closed DEF WriteClosed, sockets
<1>2. CASE WriteData(c, "greeting") /\ Proceed(c, [conn[c] EXCEPT !.at = "len"])
  <2> DEFINE th == [conn[c] EXCEPT !.at = "len"]
  <2>1. conn' = [conn EXCEPT ![c] = th] /\ peer' = peer /\ leaks' = leaks
        /\ conn[c].at = "greet"
    BY <1>2 DEF Proceed, Become, Greet
  <2>2. th \in Conn /\ th.at = "len" /\ th.held = conn[c].held
    BY RpcTypes, ConnUpdates
  <2> HIDE DEF th
  <2>3. Session(conn[c], peer[c], toServer[c], toClient[c]) /\ peer[c] \in Peer
    BY <1>2, RpcTypes DEF WriteData
  <2>4. peer[c].at = "greeting" /\ toClient[c] = <<>>
    BY <1>2, <2>1, <2>3 DEF Session, Exchange, WriteData, Gone, Peer
  <2>5. Session(th, peer[c], toServer[c], Append(toClient[c], "greeting"))
    BY <2>2, <2>3, <2>4 DEF Session
  <2>6. Serving(th)
    BY <2>2 DEF Serving
  <2>. QED BY <1>2, <2>1, <2>2, <2>5, <2>6, Written, RpcTypes, Words, ThreadStep
<1>. QED BY <1>1, <1>2 DEF Greet

LEMMA ReadLenStep ==
  ASSUME RpcInv, NEW c \in Client, ReadLen(c)
  PROVE  RpcInv'
<1>1. CASE (ReadError(c) \/ ReadClosed(c)) /\ CloseConn(c, {})
  BY <1>1, Closed DEF ReadError, ReadClosed, sockets
<1> DEFINE th == [conn[c] EXCEPT !.at = "name", !.held = {"name"}]
<1>2. th \in Conn /\ th.at = "name" /\ Serving(th)
  <2>1. conn[c] \in Conn
    BY RpcTypes
  <2>2. th \in Conn
    BY <2>1, ConnUpdates
  <2>3. th.at = "name" /\ th.held = {"name"}
    BY <2>1 DEF Conn
  <2>. QED BY <2>2, <2>3 DEF Serving
<1> HIDE DEF th
<1>3. CASE ReadError(c) /\ Proceed(c, th)
  <2>1. conn' = [conn EXCEPT ![c] = th] /\ peer' = peer /\ leaks' = leaks /\ Gone(c)
        /\ UNCHANGED <<toServer, toClient>>
    BY <1>3 DEF Proceed, Become, ReadError
  <2>. QED BY <1>2, <2>1, Same, RpcTypes, ThreadStep
<1>4. CASE ReadData(c) /\ Proceed(c, th)
  <2>1. conn' = [conn EXCEPT ![c] = th] /\ peer' = peer /\ leaks' = leaks
        /\ conn[c].at = "len" /\ toServer[c] # <<>>
    BY <1>4 DEF Proceed, Become, ReadLen, ReadData
  <2>2. ASSUME ~Gone(c)
        PROVE  Session(th, peer[c], Tail(toServer[c]), toClient[c])
    <3> DEFINE rest == toServer[c] \o peer[c].todo
    <3>1. Session(conn[c], peer[c], toServer[c], toClient[c]) /\ peer[c] \in Peer
      BY <2>2, RpcTypes
    <3>2. /\ rest # <<>> /\ Head(rest) = Head(toServer[c])
          /\ Tail(rest) = Tail(toServer[c]) \o peer[c].todo
      BY <1>4, Taken
    <3> HIDE DEF rest
    <3>3. peer[c].at \in {"sending", "waiting"} /\ Exchange(conn[c], rest, toClient[c])
      BY <2>1, <2>2, <3>1 DEF Session, Gone, Peer, rest
    <3>4. PICK cmd \in Command \cup {Unknown} :
            rest = <<"len", cmd>> \o Request(cmd) /\ toClient[c] = <<>>
      BY <2>1, <3>2, <3>3 DEF Exchange
    <3>5. Tail(rest) = <<cmd>> \o Request(cmd)
      <4>1. <<"len", cmd>> \in Seq(Message) /\ <<"len", cmd>> # <<>>
            /\ Tail(<<"len", cmd>>) = <<cmd>>
        BY Words
      <4>. QED BY <3>4, <4>1, RequestData, HeadTailConcat
    <3>. QED BY <1>2, <3>1, <3>2, <3>3, <3>4, <3>5 DEF Session, Exchange
  <2>. QED BY <1>2, <1>4, <2>1, <2>2, Taken, RpcTypes, ThreadStep
<1>. QED BY <1>1, <1>3, <1>4 DEF ReadLen, th

LEMMA ReadNameStep ==
  ASSUME RpcInv, NEW c \in Client, ReadName(c)
  PROVE  RpcInv'
<1>0. conn[c] \in Conn /\ conn[c].at = "name" /\ conn[c].held \subseteq {"name"}
      /\ Unknown \in Message /\ Command \subseteq Message
  BY RpcTypes, Words DEF ReadName, Serving
<1>1. CASE ReadClosed(c) /\ CloseConn(c, {})
  BY <1>1, Closed DEF ReadClosed, sockets
<1>2. CASE ReadError(c) /\ Proceed(c, [conn[c] EXCEPT !.at = "out", !.cmd = Unknown])
  <2> DEFINE th == [conn[c] EXCEPT !.at = "out", !.cmd = Unknown]
  <2>1. conn' = [conn EXCEPT ![c] = th] /\ peer' = peer /\ leaks' = leaks /\ Gone(c)
        /\ UNCHANGED <<toServer, toClient>>
    BY <1>2 DEF Proceed, Become, ReadError
  <2>2. th \in Conn
    BY <1>0, ConnUpdates
  <2>3. Serving(th)
    BY <1>0 DEF Serving, Conn
  <2> HIDE DEF th
  <2>. QED BY <2>1, <2>2, <2>3, Same, RpcTypes, ThreadStep
<1>3. ASSUME ReadData(c), NEW cmd, cmd = Head(toServer[c]),
             Proceed(c, IF cmd \in Command
                        THEN [conn[c] EXCEPT !.at = "read", !.cmd = cmd,
                                             !.todo = map[cmd].reads]
                        ELSE [conn[c] EXCEPT !.at = "out", !.cmd = cmd])
      PROVE  RpcInv'
  <2> DEFINE th == IF cmd \in Command
                   THEN [conn[c] EXCEPT !.at = "read", !.cmd = cmd,
                                        !.todo = map[cmd].reads]
                   ELSE [conn[c] EXCEPT !.at = "out", !.cmd = cmd]
  <2>1. conn' = [conn EXCEPT ![c] = th] /\ peer' = peer /\ leaks' = leaks
        /\ toServer[c] # <<>>
    BY <1>3 DEF Proceed, Become, ReadData
  <2>2. cmd \in Message
    BY <1>3, Taken
  <2>3. cmd \in Command => map[cmd].reads = Request(cmd) /\ map[cmd].reads \in Seq(Data)
    BY Table, RequestData
  <2>4. /\ th \in Conn /\ th.held = conn[c].held
        /\ (IF cmd \in Command THEN th.at = "read" /\ th.cmd = cmd
                                                /\ th.todo = Request(cmd)
                        ELSE th.at = "out")
    <3>1. CASE cmd \in Command
      <4>1. th = [conn[c] EXCEPT !.at = "read", !.cmd = cmd, !.todo = map[cmd].reads]
        BY <3>1
      <4>2. th \in Conn
        BY <1>0, <2>2, <2>3, <3>1, <4>1, ConnUpdates
      <4>. QED BY <1>0, <2>3, <3>1, <4>1, <4>2 DEF Conn
    <3>2. CASE cmd \notin Command
      <4>1. th = [conn[c] EXCEPT !.at = "out", !.cmd = cmd]
        BY <3>2
      <4>2. th \in Conn
        BY <1>0, <2>2, <4>1, ConnUpdates
      <4>. QED BY <1>0, <3>2, <4>1, <4>2 DEF Conn
    <3>. QED BY <3>1, <3>2
  <2> HIDE DEF th
  <2>5. Serving(th)
    BY <1>0, <2>4 DEF Serving
  <2>6. ASSUME ~Gone(c)
        PROVE  Session(th, peer[c], Tail(toServer[c]), toClient[c])
    <3> DEFINE rest == toServer[c] \o peer[c].todo
    <3>1. Session(conn[c], peer[c], toServer[c], toClient[c]) /\ peer[c] \in Peer
      BY <2>6, RpcTypes
    <3>2. /\ rest # <<>> /\ Head(rest) = Head(toServer[c])
          /\ Tail(rest) = Tail(toServer[c]) \o peer[c].todo
      BY <1>3, Taken
    <3> HIDE DEF rest
    <3>3. peer[c].at \in {"sending", "waiting"} /\ Exchange(conn[c], rest, toClient[c])
      BY <1>0, <2>6, <3>1 DEF Session, Gone, Peer, rest
    <3>4. PICK x \in Command \cup {Unknown} :
            rest = <<x>> \o Request(x) /\ toClient[c] = <<>>
      BY <1>0, <3>2, <3>3 DEF Exchange
    <3>5. Head(rest) = x /\ Tail(rest) = Request(x)
      <4>1. <<x>> \in Seq(Message) /\ <<x>> # <<>> /\ Tail(<<x>>) = <<>> /\ Head(<<x>>) = x
        BY Words
      <4>2. Request(x) \in Seq(Message)
        BY RequestData
      <4>. QED BY <3>4, <4>1, <4>2, HeadTailConcat, ConcatEmptySeq
    <3>6. x = cmd
      BY <1>3, <3>2, <3>5
    <3>7. cmd \notin Command => Request(cmd) = <<>>
      BY <3>6, UnknownIsNone
    <3>8. Exchange(th, Tail(rest), toClient[c])
      <4>1. <<>> \in Seq(Data)
        OBVIOUS
      <4>. QED BY <2>4, <3>4, <3>5, <3>6, <3>7, <4>1 DEF Exchange
    <3>. QED BY <3>1, <3>2, <3>3, <3>8 DEF Session
  <2>. QED BY <1>3, <2>1, <2>4, <2>5, <2>6, Taken, RpcTypes, ThreadStep
<1>. QED BY <1>1, <1>2, <1>3 DEF ReadName

LEMMA ReadItemStep ==
  ASSUME RpcInv, NEW c \in Client, ReadItem(c)
  PROVE  RpcInv'
<1> DEFINE th == [conn[c] EXCEPT !.todo = Tail(@)]
<1>0. conn[c] \in Conn /\ conn[c].at = "read" /\ conn[c].todo # <<>>
      /\ Serving(conn[c])
  BY RpcTypes DEF ReadItem
<1>1. CASE ReadClosed(c) /\ CloseConn(c, {})
  BY <1>1, Closed DEF ReadClosed, sockets
<1>2. th \in Conn
  BY <1>0, ConnUpdates
<1>3. /\ th.at = "read" /\ th.cmd = conn[c].cmd /\ th.todo = Tail(conn[c].todo)
      /\ th.held = conn[c].held
  BY <1>0 DEF Conn
<1> HIDE DEF th
<1>4. Serving(th)
  BY <1>0, <1>3 DEF Serving
<1>5. CASE ReadError(c) /\ Proceed(c, th)
  <2>1. conn' = [conn EXCEPT ![c] = th] /\ peer' = peer /\ leaks' = leaks /\ Gone(c)
        /\ UNCHANGED <<toServer, toClient>>
    BY <1>5 DEF Proceed, Become, ReadError
  <2>. QED BY <1>2, <1>4, <2>1, Same, RpcTypes, ThreadStep
<1>6. CASE ReadData(c) /\ Proceed(c, th)
  <2>1. conn' = [conn EXCEPT ![c] = th] /\ peer' = peer /\ leaks' = leaks
    BY <1>6 DEF Proceed, Become
  <2>2. ASSUME ~Gone(c)
        PROVE  Session(th, peer[c], Tail(toServer[c]), toClient[c])
    <3> DEFINE rest == toServer[c] \o peer[c].todo
    <3>1. Session(conn[c], peer[c], toServer[c], toClient[c]) /\ peer[c] \in Peer
      BY <2>2, RpcTypes
    <3>2. rest # <<>> /\ Tail(rest) = Tail(toServer[c]) \o peer[c].todo
      BY <1>6, Taken
    <3> HIDE DEF rest
    <3>3. peer[c].at \in {"sending", "waiting"} /\ Exchange(conn[c], rest, toClient[c])
      BY <1>0, <2>2, <3>1 DEF Session, Gone, Peer, rest
    <3>4. Exchange(th, Tail(rest), toClient[c])
      BY <1>0, <1>3, <3>3 DEF Exchange
    <3>. QED BY <3>1, <3>2, <3>3, <3>4 DEF Session
  <2>. QED BY <1>2, <1>4, <1>6, <2>1, <2>2, Taken, RpcTypes, ThreadStep
<1>. QED BY <1>1, <1>5, <1>6 DEF ReadItem, th

LEMMA CallStep ==
  ASSUME RpcInv, NEW c \in Client, Call(c)
  PROVE  RpcInv'
<1>0. /\ conn[c] \in Conn /\ conn[c].at = "read" /\ conn[c].todo = <<>>
      /\ conn[c].cmd \in Command /\ UNCHANGED <<toServer, toClient>>
      /\ map[conn[c].cmd] \in HandlerType
  BY RpcTypes, Table DEF Call, sockets, Serving
<1>1. ASSUME NEW th \in Conn, th.at \in {"none", "write"}, Serving(th),
             conn' = [conn EXCEPT ![c] = th], peer' = peer, leaks' = leaks
      PROVE  RpcInv'
  <2>1. ASSUME ~Gone(c)
        PROVE  Session(th, peer[c], toServer[c], toClient[c])
    <3>1. Session(conn[c], peer[c], toServer[c], toClient[c]) /\ peer[c] \in Peer
      BY <2>1, RpcTypes
    <3>2. peer[c].at \in {"sending", "waiting"}
          /\ Exchange(conn[c], toServer[c] \o peer[c].todo, toClient[c])
      BY <1>0, <2>1, <3>1 DEF Session, Gone, Peer
    <3>3. <<>> \in Seq(Data)
      OBVIOUS
    <3>4. Exchange(th, toServer[c] \o peer[c].todo, toClient[c])
      BY <1>0, <1>1, <3>2, <3>3 DEF Exchange
    <3>. QED BY <3>1, <3>2, <3>4 DEF Session
  <2>. QED BY <1>0, <1>1, <2>1, Same, RpcTypes, ThreadStep
<1>2. CASE CloseConn(c, {})
  <2>1. conn' = [conn EXCEPT ![c] = NoConn] /\ peer' = peer /\ leaks' = leaks
    BY <1>2 DEF CloseConn, Become
  <2>2. Serving(NoConn)
    BY ConnRecords DEF Serving
  <2>. QED BY <1>1, <2>1, <2>2, ConnRecords
<1>3. ASSUME NEW reply \in map[conn[c].cmd].replies,
             Proceed(c, [conn[c] EXCEPT !.at = "write", !.todo = reply,
                                        !.held = @ \cup map[conn[c].cmd].holds])
      PROVE  RpcInv'
  <2> DEFINE th == [conn[c] EXCEPT !.at = "write", !.todo = reply,
                                   !.held = @ \cup map[conn[c].cmd].holds]
  <2>1. conn' = [conn EXCEPT ![c] = th] /\ peer' = peer /\ leaks' = leaks
    BY <1>3 DEF Proceed, Become
  <2>2. reply \in Seq(Data) /\ map[conn[c].cmd].holds \in SUBSET Buffers
    BY <1>0, <1>3 DEF HandlerType
  <2>3. th \in Conn
    BY <1>0, <2>2, ConnUpdates
  <2>4. th.at = "write" /\ th.cmd = conn[c].cmd
        /\ th.held = conn[c].held \cup map[conn[c].cmd].holds
    BY <1>0 DEF Conn
  <2> HIDE DEF th
  <2>5. conn[c].held \subseteq {"name"}
    BY <1>0, RpcTypes DEF Serving
  <2>6. Serving(th)
    BY <1>0, <2>4, <2>5 DEF Serving
  <2>. QED BY <1>1, <2>1, <2>3, <2>4, <2>6
<1>. QED BY <1>2, <1>3 DEF Call

LEMMA WriteItemStep ==
  ASSUME RpcInv, NEW c \in Client, WriteItem(c)
  PROVE  RpcInv'
<1> DEFINE item == Head(conn[c].todo)
<1>0. /\ conn[c] \in Conn /\ conn[c].at = "write" /\ conn[c].todo # <<>>
      /\ conn[c].cmd \in Command /\ Serving(conn[c])
      /\ conn[c].held \subseteq {"name"} \cup map[conn[c].cmd].holds
  BY RpcTypes DEF WriteItem, Serving
<1>1. conn[c].todo \in Seq(Data)
  BY RpcTypes
<1>2. item \in Data /\ item \in Reply
  BY <1>0, <1>1, HeadTailProperties, Words
<1>3. CASE WriteData(c, item) /\ Proceed(c, [conn[c] EXCEPT !.todo = Tail(@)])
  <2> DEFINE th == [conn[c] EXCEPT !.todo = Tail(@)]
  <2>1. conn' = [conn EXCEPT ![c] = th] /\ peer' = peer /\ leaks' = leaks
    BY <1>3 DEF Proceed, Become
  <2>2. th \in Conn
    BY <1>0, ConnUpdates
  <2>3. th.at = "write" /\ th.cmd = conn[c].cmd /\ th.held = conn[c].held
    BY <1>0 DEF Conn
  <2> HIDE DEF th, item
  <2>4. Serving(th)
    BY <1>0, <2>3 DEF Serving
  <2>5. ASSUME ~Gone(c)
        PROVE  Session(th, peer[c], toServer[c], Append(toClient[c], item))
    <3>1. Session(conn[c], peer[c], toServer[c], toClient[c]) /\ peer[c] \in Peer
      BY <2>5, RpcTypes
    <3>2. peer[c].at \in {"sending", "waiting"}
          /\ Exchange(conn[c], toServer[c] \o peer[c].todo, toClient[c])
      BY <1>0, <2>5, <3>1 DEF Session, Gone, Peer
    <3>3. toServer[c] \o peer[c].todo = <<>> /\ toClient[c] \in Seq(Data)
      BY <1>0, <3>2 DEF Exchange
    <3>4. Append(toClient[c], item) \in Seq(Data)
      BY <1>2, <3>3, AppendProperties
    <3>5. Exchange(th, toServer[c] \o peer[c].todo, Append(toClient[c], item))
      BY <2>3, <3>3, <3>4 DEF Exchange
    <3>. QED BY <3>1, <3>2, <3>5 DEF Session
  <2>. QED BY <1>2, <1>3, <2>1, <2>2, <2>4, <2>5, Written, RpcTypes, ThreadStep
<1>4. ASSUME NEW held, held = (IF item \in map[conn[c].cmd].forgets
                               THEN conn[c].held \ {"name"} ELSE {}),
             WriteClosed(c), CloseConn(c, held)
      PROVE  RpcInv'
  <2>1. /\ conn' = [conn EXCEPT ![c] = NoConn] /\ peer' = peer /\ Gone(c)
        /\ leaks' = leaks \cup {<<conn[c].cmd, b>> : b \in held}
        /\ UNCHANGED <<toServer, toClient>>
    BY <1>4 DEF CloseConn, Become, WriteClosed, sockets
  <2>2. held = {} \/ (conn[c].cmd \in Listing /\ held \subseteq {"records"})
    <3>1. map[conn[c].cmd].forgets = {}
          \/ (conn[c].cmd \in Listing /\ map[conn[c].cmd].holds = {"records"})
      BY <1>0, Table
    <3> HIDE DEF item
    <3>. QED BY <1>0, <1>4, <3>1
  <2>3. OnlyRecordsLeak'
    BY <2>1, <2>2 DEF RpcInv, OnlyRecordsLeak, Listing
  <2>4. Serving(NoConn)
    BY ConnRecords DEF Serving
  <2>. QED BY <2>1, <2>3, <2>4, ConnRecords, RpcTypes, Same, OneClient DEF Gone
<1>. QED BY <1>3, <1>4 DEF WriteItem

LEMMA EndsStep ==
  ASSUME RpcInv, NEW c \in Client, Ends(c)
  PROVE  RpcInv'
<1>0. /\ conn[c] \in Conn /\ conn[c].at = "write" /\ UNCHANGED <<toServer, toClient>>
  BY RpcTypes DEF Ends, sockets
<1>1. ASSUME NEW th \in Conn, th.at \in {"none", "out"},
             conn' = [conn EXCEPT ![c] = th], peer' = peer, leaks' = leaks
      PROVE  RpcInv'
  <2>1. ASSUME ~Gone(c)
        PROVE  Session(th, peer[c], toServer[c], toClient[c])
    <3>1. Session(conn[c], peer[c], toServer[c], toClient[c]) /\ peer[c] \in Peer
      BY <2>1, RpcTypes
    <3>2. peer[c].at \in {"sending", "waiting"}
          /\ Exchange(conn[c], toServer[c] \o peer[c].todo, toClient[c])
      BY <1>0, <2>1, <3>1 DEF Session, Gone, Peer
    <3>3. Exchange(th, toServer[c] \o peer[c].todo, toClient[c])
      BY <1>0, <1>1, <3>2 DEF Exchange
    <3>. QED BY <3>1, <3>2, <3>3 DEF Session
  <2>2. Serving(th)
    BY <1>1 DEF Serving
  <2>. QED BY <1>0, <1>1, <2>1, <2>2, Same, RpcTypes, ThreadStep
<1>2. CASE CloseConn(c, {})
  <2>1. conn' = [conn EXCEPT ![c] = NoConn] /\ peer' = peer /\ leaks' = leaks
    BY <1>2 DEF CloseConn, Become
  <2>. QED BY <1>1, <2>1, ConnRecords
<1>3. CASE Proceed(c, [conn[c] EXCEPT !.at = "out", !.held = {"name"}])
  <2> DEFINE th == [conn[c] EXCEPT !.at = "out", !.held = {"name"}]
  <2>1. conn' = [conn EXCEPT ![c] = th] /\ peer' = peer /\ leaks' = leaks
    BY <1>3 DEF Proceed, Become
  <2>2. th \in Conn
    BY <1>0, ConnUpdates
  <2>3. th.at = "out"
    BY <1>0 DEF Conn
  <2> HIDE DEF th
  <2>. QED BY <1>1, <2>1, <2>2, <2>3
<1>. QED BY <1>2, <1>3 DEF Ends

LEMMA OutStep ==
  ASSUME RpcInv, NEW c \in Client, Out(c)
  PROVE  RpcInv'
<1> DEFINE th == [NoConn EXCEPT !.at = "len"]
<1>1. /\ conn[c] \in Conn /\ conn[c].at = "out" /\ conn' = [conn EXCEPT ![c] = th]
      /\ peer' = peer /\ leaks' = leaks
  BY RpcTypes DEF Out, Proceed, Become
<1>2. th \in Conn /\ th.at = "len" /\ th.held = {}
  BY ConnRecords
<1> HIDE DEF th
<1>3. Serving(th)
  BY <1>2 DEF Serving
<1>4. CASE WriteClosed(c)
  <2>1. Gone(c) /\ UNCHANGED <<toServer, toClient>>
    BY <1>4 DEF WriteClosed, sockets
  <2>. QED BY <1>1, <1>2, <1>3, <2>1, Same, RpcTypes, ThreadStep
<1>5. CASE WriteData(c, "status")
  <2>1. ASSUME ~Gone(c)
        PROVE  Session(th, peer[c], toServer[c], Append(toClient[c], "status"))
    <3>1. Session(conn[c], peer[c], toServer[c], toClient[c]) /\ peer[c] \in Peer
      BY <2>1, RpcTypes
    <3>2. peer[c].at \in {"sending", "waiting"}
          /\ Exchange(conn[c], toServer[c] \o peer[c].todo, toClient[c])
      BY <1>1, <2>1, <3>1 DEF Session, Gone, Peer
    <3>3. toServer[c] \o peer[c].todo = <<>> /\ toClient[c] \in Seq(Data)
      BY <1>1, <3>2 DEF Exchange
    <3>4. Exchange(th, toServer[c] \o peer[c].todo, Append(toClient[c], "status"))
      BY <1>2, <3>3 DEF Exchange
    <3>. QED BY <3>1, <3>2, <3>4 DEF Session
  <2>. QED BY <1>1, <1>2, <1>3, <1>5, <2>1, Written, RpcTypes, Words, ThreadStep
<1>. QED BY <1>4, <1>5 DEF Out

\* The listening thread.
LEMMA AcceptStep ==
  ASSUME RpcInv, NEW c \in Client, Accept(c)
  PROVE  RpcInv'
<1>0. conn[c] \in Conn /\ conn[c].at = "queued" /\ peer' = peer /\ leaks' = leaks
      /\ UNCHANGED <<toServer, toClient>>
  BY RpcTypes DEF Accept, sockets
<1>1. PICK at \in {"greet", "orphan"} : conn' = [conn EXCEPT ![c] = [conn[c] EXCEPT !.at = at]]
  BY DEF Accept, Become
<1> DEFINE th == [conn[c] EXCEPT !.at = at]
<1>2. th \in Conn /\ th.at = at /\ th.held = conn[c].held
  <2>1. \A x \in {"greet", "orphan", "len"} :
          /\ [conn[c] EXCEPT !.at = x] \in Conn /\ [conn[c] EXCEPT !.at = x].at = x
          /\ [conn[c] EXCEPT !.at = x].held = conn[c].held
    BY <1>0, ConnUpdates
  <2>2. at \in {"greet", "orphan", "len"}
    OBVIOUS
  <2>. QED BY <2>1, <2>2
<1>3. conn' = [conn EXCEPT ![c] = th]
  BY <1>1
<1> HIDE DEF th
<1>4. Serving(th)
  BY <1>2 DEF Serving
<1>5. ASSUME ~Gone(c)
      PROVE  Session(th, peer[c], toServer[c], toClient[c])
  <2>1. Session(conn[c], peer[c], toServer[c], toClient[c]) /\ peer[c] \in Peer
    BY <1>5, RpcTypes
  <2>2. peer[c].at = "greeting"
    BY <1>0, <1>5, <2>1 DEF Session, Exchange, Gone, Peer
  <2>. QED BY <1>0, <1>2, <2>1, <2>2 DEF Session
<1>. QED BY <1>0, <1>2, <1>3, <1>4, <1>5, Same, RpcTypes, ThreadStep

\* The client's side.
LEMMA ClientStep ==
  ASSUME RpcInv, NEW c \in Client, conn' = conn, leaks' = leaks,
         NEW p \in Peer, peer' = [peer EXCEPT ![c] = p],
         NEW s \in Seq(Message), toServer' = [toServer EXCEPT ![c] = s],
         NEW r \in Seq(Reply), toClient' = [toClient EXCEPT ![c] = r],
         p.at # "off" => Session(conn[c], p, s, r)
  PROVE  RpcInv'
<1>1. OnlyRecordsLeak'
  BY DEF RpcInv, OnlyRecordsLeak
<1>. QED BY <1>1, RpcTypes, Same, OneClient

LEMMA ConnectStep ==
  ASSUME RpcInv, NEW c \in Client, Connect(c)
  PROVE  RpcInv'
<1> DEFINE th == [NoConn EXCEPT !.at = "queued"]
           p == [at |-> "greeting", todo |-> <<>>]
<1>1. /\ conn' = [conn EXCEPT ![c] = th] /\ peer' = [peer EXCEPT ![c] = p]
      /\ toServer' = [toServer EXCEPT ![c] = <<>>]
      /\ toClient' = [toClient EXCEPT ![c] = <<>>] /\ leaks' = leaks
  BY DEF Connect, Become, ClientTurn
<1>2. th \in Conn /\ th.at = "queued" /\ th.held = {}
  BY ConnRecords
<1>3. p \in Peer /\ p.at = "greeting" /\ p.todo = <<>>
  BY DEF Peer
<1> HIDE DEF th, p
<1>4. Serving(th) /\ Session(th, p, <<>>, <<>>)
  BY <1>2, <1>3 DEF Serving, Session
<1>5. OnlyRecordsLeak'
  BY <1>1 DEF RpcInv, OnlyRecordsLeak
<1>6. <<>> \in Seq(Message) /\ <<>> \in Seq(Reply)
  OBVIOUS
<1>. QED BY <1>1, <1>2, <1>3, <1>4, <1>5, <1>6, OneClient

LEMMA AskStep ==
  ASSUME RpcInv, NEW c \in Client, Ask(c)
  PROVE  RpcInv'
<1>1. PICK cmd \in Asks[c] :
        peer' = [peer EXCEPT ![c] = [at |-> "sending", todo |-> <<"len", cmd>> \o Request(cmd)]]
  BY DEF Ask, ClientTurn
<1> DEFINE p == [at |-> "sending", todo |-> <<"len", cmd>> \o Request(cmd)]
<1>2. cmd \in Command \cup {Unknown}
  BY <1>1, RpcAssumption
<1>3. /\ <<"len", cmd>> \o Request(cmd) \in Seq(Message)
      /\ <<"len", cmd>> \o Request(cmd) # <<>>
      /\ <<>> \o (<<"len", cmd>> \o Request(cmd)) = <<"len", cmd>> \o Request(cmd)
  <2>1. <<"len", cmd>> \in Seq(Message) /\ <<"len", cmd>> # <<>>
    BY <1>2, Words
  <2>2. Request(cmd) \in Seq(Message)
    BY <1>2, RequestData
  <2>3. <<"len", cmd>> \o Request(cmd) \in Seq(Message)
    BY <2>1, <2>2, ConcatProperties
  <2>. QED BY <2>1, <2>2, <2>3, HeadTailConcat, ConcatEmptySeq
<1>4. p \in Peer /\ p.at = "sending" /\ p.todo = <<"len", cmd>> \o Request(cmd)
  BY <1>3 DEF Peer
<1>5. peer' = [peer EXCEPT ![c] = p] /\ conn' = conn /\ leaks' = leaks
      /\ UNCHANGED <<toServer, toClient>> /\ peer[c].at = "idle"
  BY <1>1 DEF Ask, sockets
<1> HIDE DEF p
<1>6. Session(conn[c], peer[c], toServer[c], toClient[c])
  BY <1>5, RpcTypes DEF Gone
<1>7. toServer[c] = <<>> /\ toClient[c] = <<>> /\ conn[c].at = "len" /\ conn[c].held = {}
  BY <1>5, <1>6 DEF Session
<1>8. Exchange(conn[c], toServer[c] \o p.todo, toClient[c])
  BY <1>2, <1>3, <1>4, <1>7 DEF Exchange
<1>9. Session(conn[c], p, toServer[c], toClient[c])
  BY <1>3, <1>4, <1>8 DEF Session
<1>. QED BY <1>4, <1>5, <1>9, RpcTypes, Same, ClientStep

LEMMA SendItemStep ==
  ASSUME RpcInv, NEW c \in Client, SendItem(c)
  PROVE  RpcInv'
<1> DEFINE todo == peer[c].todo
           p == [at |-> IF Len(todo) = 1 THEN "waiting" ELSE "sending", todo |-> Tail(todo)]
           s == Append(toServer[c], Head(todo))
<1>1. /\ peer[c].at = "sending" /\ peer' = [peer EXCEPT ![c] = p]
      /\ toServer' = [toServer EXCEPT ![c] = s]
      /\ conn' = conn /\ leaks' = leaks /\ toClient' = toClient
  BY DEF SendItem, ClientTurn, RpcInv, RpcTypeOK
<1>2. Session(conn[c], peer[c], toServer[c], toClient[c])
  BY <1>1, RpcTypes DEF Gone
<1>3. todo \in Seq(Message) /\ todo # <<>> /\ toServer[c] \in Seq(Message)
  BY <1>1, <1>2, RpcTypes DEF Session
<1>4. Head(todo) \in Message /\ Tail(todo) \in Seq(Message) /\ Len(Tail(todo)) = Len(todo) - 1
      /\ Len(todo) \in Nat
  BY <1>3, HeadTailProperties, LenProperties
<1>5. Tail(todo) = <<>> <=> Len(todo) = 1
  <2>1. Tail(todo) = <<>> <=> Len(Tail(todo)) = 0
    BY <1>4, EmptySeq
  <2>. QED BY <1>4, <2>1
<1>6. s \in Seq(Message) /\ s \o Tail(todo) = toServer[c] \o todo
  BY <1>3, <1>4, MoveHead, AppendProperties
<1>7. /\ p \in Peer /\ p.todo = Tail(todo)
      /\ p.at = IF Len(todo) = 1 THEN "waiting" ELSE "sending"
  BY <1>4 DEF Peer
<1>8. Exchange(conn[c], toServer[c] \o todo, toClient[c])
  BY <1>1, <1>2 DEF Session
<1> HIDE DEF p, s, todo
<1>9. Session(conn[c], p, s, toClient[c])
  BY <1>5, <1>6, <1>7, <1>8 DEF Session
<1>. QED BY <1>1, <1>6, <1>7, <1>9, RpcTypes, Same, ClientStep

LEMMA ReceiveStep ==
  ASSUME RpcInv, NEW c \in Client, Receive(c)
  PROVE  RpcInv'
<1> DEFINE p == [at |-> IF Head(toClient[c]) \in {"greeting", "status"} THEN "idle"
                        ELSE peer[c].at, todo |-> <<>>]
<1>1. /\ peer[c].at \in {"greeting", "waiting"} /\ toClient[c] # <<>>
      /\ toClient' = [toClient EXCEPT ![c] = Tail(toClient[c])]
      /\ peer' = [peer EXCEPT ![c] = p]
      /\ conn' = conn /\ leaks' = leaks /\ toServer' = toServer
  BY DEF Receive, ClientTurn, RpcInv, RpcTypeOK
<1>2. /\ Session(conn[c], peer[c], toServer[c], toClient[c]) /\ toClient[c] \in Seq(Reply)
      /\ toServer[c] \in Seq(Message) /\ peer[c] \in Peer
  BY <1>1, RpcTypes DEF Gone
<1>3. Tail(toClient[c]) \in Seq(Reply)
  BY <1>1, <1>2, HeadTailProperties
<1>4. /\ p \in Peer /\ p.todo = <<>>
      /\ p.at = IF Head(toClient[c]) \in {"greeting", "status"} THEN "idle" ELSE peer[c].at
  BY <1>2 DEF Peer
<1> HIDE DEF p
<1>5. Session(conn[c], p, toServer[c], Tail(toClient[c]))
  <2>1. CASE peer[c].at = "greeting"
    <3>1. /\ toServer[c] = <<>> /\ conn[c].held = {} /\ conn[c].at = "len"
          /\ toClient[c] = <<"greeting">>
      BY <1>1, <1>2, <2>1 DEF Session
    <3>2. Head(toClient[c]) = "greeting" /\ Tail(toClient[c]) = <<>>
      BY <3>1
    <3>. QED BY <1>4, <3>1, <3>2 DEF Session
  <2>2. CASE peer[c].at = "waiting"
    <3>1. Exchange(conn[c], toServer[c] \o peer[c].todo, toClient[c]) /\ peer[c].todo = <<>>
      BY <1>2, <2>2 DEF Session
    <3>2. toServer[c] \o peer[c].todo = toServer[c] /\ toServer[c] \o <<>> = toServer[c]
      BY <1>2, <3>1, ConcatEmptySeq
    <3>3. CASE /\ conn[c].at \in {"write", "out", "none"} /\ toServer[c] = <<>>
               /\ toClient[c] \in Seq(Data)
      <4>1. Head(toClient[c]) \in Data /\ Tail(toClient[c]) \in Seq(Data)
        BY <1>1, <3>3, HeadTailProperties
      <4>2. p.at = "waiting"
        BY <1>4, <2>2, <4>1, Words
      <4>3. Exchange(conn[c], toServer[c] \o p.todo, Tail(toClient[c]))
        BY <1>4, <3>2, <3>3, <4>1 DEF Exchange
      <4>. QED BY <1>4, <4>2, <4>3 DEF Session
    <3>4. ASSUME conn[c].at = "len", conn[c].held = {}, toServer[c] = <<>>,
                 NEW q \in Seq(Data), toClient[c] = Append(q, "status")
          PROVE  Session(conn[c], p, toServer[c], Tail(toClient[c]))
      <4>1. CASE q = <<>>
        <5>1. toClient[c] = <<"status">>
          BY <3>4, <4>1
        <5>2. Head(toClient[c]) = "status" /\ Tail(toClient[c]) = <<>>
          BY <5>1
        <5>. QED BY <1>4, <3>4, <5>2 DEF Session
      <4>2. CASE q # <<>>
        <5>1. q \in Seq(Reply) /\ "status" \in Reply
          BY Words, SeqMonotonic
        <5>2. Head(q) \in Data /\ Tail(q) \in Seq(Data)
          BY <4>2, HeadTailProperties
        <5>3. Head(toClient[c]) = Head(q) /\ Tail(toClient[c]) = Append(Tail(q), "status")
          <6>1. toClient[c] = q \o <<"status">> /\ <<"status">> \in Seq(Reply)
            BY <3>4, <5>1, AppendIsConcat
          <6>2. Head(toClient[c]) = Head(q) /\ Tail(toClient[c]) = Tail(q) \o <<"status">>
            BY <4>2, <5>1, <6>1, HeadTailConcat
          <6>3. Tail(q) \in Seq(Reply)
            BY <5>2, Words, SeqMonotonic
          <6>. QED BY <5>1, <6>2, <6>3, AppendIsConcat
        <5>4. p.at = "waiting"
          BY <1>4, <2>2, <5>2, <5>3, Words
        <5>5. Exchange(conn[c], toServer[c] \o p.todo, Tail(toClient[c]))
          BY <1>4, <3>2, <3>4, <5>2, <5>3 DEF Exchange
        <5>. QED BY <1>4, <5>4, <5>5 DEF Session
      <4>. QED BY <4>1, <4>2
    <3>. QED BY <1>1, <3>1, <3>2, <3>3, <3>4 DEF Exchange
  <2>. QED BY <1>1, <2>1, <2>2
<1>. QED BY <1>1, <1>3, <1>4, <1>5, RpcTypes, Same, ClientStep

LEMMA LeaveStep ==
  ASSUME RpcInv, NEW c \in Client, ReceiveEnd(c) \/ Drop(c)
  PROVE  RpcInv'
<1> DEFINE p == [at |-> "off", todo |-> <<>>]
<1>1. p \in Peer /\ p.at = "off" /\ <<>> \in Seq(Reply)
  BY DEF Peer
<1>2. /\ peer' = [peer EXCEPT ![c] = p] /\ conn' = conn /\ leaks' = leaks
      /\ toServer' = toServer
      /\ toClient' = toClient \/ toClient' = [toClient EXCEPT ![c] = <<>>]
  BY DEF ReceiveEnd, Drop, ClientTurn, sockets
<1> HIDE DEF p
<1>. QED BY <1>1, <1>2, RpcTypes, Same, ClientStep

LEMMA RpcStepInv == RpcInv /\ [RpcNext]_rpcVars => RpcInv'
<1> SUFFICES ASSUME RpcInv, [RpcNext]_rpcVars
             PROVE  RpcInv'
  OBVIOUS
<1>1. ASSUME UNCHANGED <<conn, peer, toServer, toClient, leaks>>
      PROVE  RpcInv'
  <2>1. RpcTypeOK' /\ OnlyRecordsLeak' /\ \A c \in Client : SessionInv(c)'
    BY <1>1 DEF RpcInv, RpcTypeOK, OnlyRecordsLeak, SessionInv
  <2>. QED BY <2>1 DEF RpcInv
<1>2. CASE UNCHANGED rpcVars \/ TestRun \/ rkipc_server_deinit
  BY <1>1, <1>2 DEF rpcVars, TestRun, rkipc_server_deinit, sockets
<1>3. ASSUME NEW c \in Client, rec_thread(c)
      PROVE  RpcInv'
  BY <1>3, GreetStep, ReadLenStep, ReadNameStep, ReadItemStep, CallStep, WriteItemStep,
     EndsStep, OutStep DEF rec_thread
<1>4. ASSUME NEW c \in Client, Accept(c) \/ ClientNext(c)
      PROVE  RpcInv'
  BY <1>4, AcceptStep, ConnectStep, AskStep, SendItemStep, ReceiveStep, LeaveStep
  DEF ClientNext
<1>. QED BY <1>2, <1>3, <1>4 DEF RpcNext

LEMMA RpcInitInv == RpcInit => RpcInv
<1> SUFFICES ASSUME RpcInit
             PROVE  RpcInv
  OBVIOUS
<1>1. [at |-> "off", todo |-> <<>>] \in Peer
  BY DEF Peer
<1>2. RpcTypeOK
  BY <1>1, ConnRecords DEF RpcInit, RpcTypeOK
<1>3. OnlyRecordsLeak
  BY DEF RpcInit, OnlyRecordsLeak
<1>4. \A c \in Client : SessionInv(c)
  BY ConnRecords DEF RpcInit, SessionInv, Serving
<1>. QED BY <1>2, <1>3, <1>4 DEF RpcInv

LEMMA RpcSpecInv == RpcSpec => []RpcInv
  BY RpcInitInv, RpcStepInv, PTL DEF RpcSpec

\* A client that has read a status finds both directions empty, and the thread that
\* serves it reading the length of the next name with no buffer of the last command
\* (sock_read and sock_write in the handlers of server.c agree with the library's).
THEOREM InStepCorrect == RpcSpec => []InStep
<1>1. RpcInv => InStep
  BY DEF RpcInv, SessionInv, Session, InStep
<1>. QED BY <1>1, RpcSpecInv, PTL

\* A client that dies costs the server no buffer, except the records of two handlers.
THEOREM LeaksCorrect == RpcSpec => []OnlyRecordsLeak
<1>1. RpcInv => OnlyRecordsLeak
  BY DEF RpcInv
<1>. QED BY <1>1, RpcSpecInv, PTL

=============================================================================
