------------------------------ MODULE RpcServer ------------------------------
(***************************************************************************)
(* The RPC server (server.c, socket.c): one thread accepts connections on  *)
(* a unix socket, one rec_thread per connection reads the name of a        *)
(* function, looks it up in a table and runs its handler, which reads the  *)
(* request and writes the reply item by item.  A handler that returns 0 is *)
(* followed by a status and the next command; any other value closes the   *)
(* connection.                                                             *)
(*                                                                         *)
(* A handler is a record: what it reads, whether it gives up when the call *)
(* fails, the replies it may write, what it may return, the buffers it     *)
(* holds, and those it forgets when a write fails.  The interpretation of  *)
(* that record by a connection is the state machine.                       *)
(*                                                                         *)
(* Messages are named, their contents are not modelled.                    *)
(***************************************************************************)
EXTENDS Integers, Sequences, FiniteSets

CONSTANTS
  Client,
  Asks,            \* [Client -> the commands it may send]
  MaxCommands,     \* bound on the commands all clients send
  RpcFaults        \* "drop", "reset", "thread": see the actions

(***************************************************************************)
(* The handlers                                                            *)
(***************************************************************************)
\* Most return -1 when reading or writing finds the connection closed, and 0 at
\* the end.
Handler(reads, replies) ==
  [reads |-> reads, strict |-> FALSE, replies |-> replies, ends |-> {0},
   holds |-> {}, forgets |-> {}]
Strict(handler) == [handler EXCEPT !.strict = TRUE]
NoReturn(handler) == [handler EXCEPT !.ends = {0, 1}]   \* falls off its end
Get(data) == Handler(<<>>, {<<data, "ret">>})
Set(data) == Handler(<<data>>, {<<"ret">>})
Do == Handler(<<>>, {<<"ret">>})

ser_rk_create_kit == Handler(<<"req">>, {<<"resp", "ret">>})
ser_rk_get_device_info == Strict(Handler(<<"req">>, {<<"resp", "ret">>}))
ser_rk_get_current_location == Strict(Handler(<<"req">>, {<<"resp", "ret">>}))
ser_rk_get_health_check == Strict(Handler(<<"req">>, {<<"resp", "ret">>}))
ser_rk_config_device_settings == Strict(Handler(<<"req">>, {<<"resp", "ret">>}))

\* The images, each with its length, and the text of the error if there is one.
ser_rk_get_incident_images ==
  LET Head4 == <<"imageCount", "kitID", "eventID", "isValid", "errLen">>
      Images == {<<>>, <<"id", "fileLen">>, <<"id", "fileLen", "file">>,
                 <<"id", "fileLen", "file", "id", "fileLen">>}
  IN  [Strict(Handler(<<"req">>,
              {Head4 \o error \o images \o <<"ret">> :
                 error \in {<<>>, <<"error">>}, images \in Images}))
         EXCEPT !.holds = {"images", "error"}]

ser_rk_create_incident ==
  LET Fixed == <<"imageIdCount", "kitID", "eventID", "startedDateTime", "isValid",
                 "kitInfo">>
  IN  [Strict(Handler(<<"kitID", "eventID", "startedDateTime", "imageIdCount",
                        "imageIds", "kitInfo">>,
                      {Fixed, Fixed \o <<"imageIds">>}))
         EXCEPT !.holds = {"imageIds"}]

ser_rk_adas_get_preview_config == Get("cfg")
ser_rk_adas_set_preview_config == Set("cfg")
\* The configuration is written twice when the call succeeds, its result never.
set_rk_dms_get_config == Handler(<<>>, {<<"cfg">>, <<"cfg", "cfg">>})
set_rk_dms_set_config == Set("cfg")
ser_rk_adas_get_config == Handler(<<>>, {<<"cfg">>, <<"cfg", "cfg">>})
ser_rk_adas_set_config == Set("cfg")

\* The path is not empty.  The connection is closed although all went well.
ser_rk_system_upgrade ==
  [Handler(<<"len", "path">>, {<<"ret">>}) EXCEPT !.ends = {1}]
ser_rk_system_get_update_type == Strict(Handler(<<>>, {<<"value">>}))
ser_rk_system_get_update_progress == Strict(Handler(<<>>, {<<"progress">>}))

ser_ms_record_play_control == Set("PlayControl")
ser_rk_driver_register == NoReturn(Set("drive_info"))
ser_rk_get_record_file_list ==
  [Handler(<<"params">>, {<<"len", "json", "ret">>})
     EXCEPT !.holds = {"recordList", "jsonStr"}]
ser_rk_record_file_play ==
  [Handler(<<"params">>, {<<"info">>}) EXCEPT !.ends = {0, 1}]

ser_rk_storage_get_stream_config == Get("config")
ser_rk_storage_set_stream_config == Set("config")
ser_rk_storage_get_config == Handler(<<>>, {<<"config">>})
ser_rk_storage_set_config == Set("config")
ser_rk_storage_format == Do
ser_rk_storage_get_disk_format_status == Do
ser_rk_get_running_status == Handler(<<>>, {<<"RunStatus">>})
ser_rk_get_product_info == Get("proinfo")
ser_rk_set_device_config == Set("deviceconfig")
ser_rk_get_device_config == Get("deviceconfig")
ser_rk_format_tf_card == Do
ser_rk_driver_delete_info == Do

ser_rk_driver_get_list ==
  [Handler(<<>>, {<<"count", "ret">>, <<"count", "drivers", "ret">>})
     EXCEPT !.holds = {"drivers"}]
ser_rk_verify_get_records ==
  [Handler(<<>>, {<<"count", "records", "ret">>})
     EXCEPT !.holds = {"records"}, !.forgets = {"count", "ret"}]
ser_rk_verify_clear_records == Do
ser_rk_capture_set_config == Set("captureconfig")
ser_rk_capture_get_config == Get("captureconfig")
ser_rk_get_debug_feature_config == Get("cfg")
ser_rk_set_debug_feature_config == NoReturn(Set("cfg"))
ser_rk_capture_get_records ==
  [Handler(<<>>, {<<"count", "records", "ret">>})
     EXCEPT !.holds = {"records"}, !.forgets = {"count", "records", "ret"}]
ser_rk_clear_driver_register_info == NoReturn(Do)
ser_rk_capture_clear_records == NoReturn(Do)

map ==
 [rk_get_incident_images |-> ser_rk_get_incident_images,
  rk_create_kit |-> ser_rk_create_kit,
  rk_get_current_location |-> ser_rk_get_current_location,
  rk_get_health_check |-> ser_rk_get_health_check,
  rk_config_device_settings |-> ser_rk_config_device_settings,
  rk_create_incident |-> ser_rk_create_incident,
  rk_adas_get_preview_config |-> ser_rk_adas_get_preview_config,
  rk_adas_set_preview_config |-> ser_rk_adas_set_preview_config,
  rk_dms_get_config |-> set_rk_dms_get_config,
  rk_dms_set_config |-> set_rk_dms_set_config,
  rk_adas_get_config |-> ser_rk_adas_get_config,
  rk_adas_set_config |-> ser_rk_adas_set_config,
  ms_record_play_control |-> ser_ms_record_play_control,
  rk_get_record_file_list |-> ser_rk_get_record_file_list,
  rk_storage_get_stream_config |-> ser_rk_storage_get_stream_config,
  rk_storage_set_stream_config |-> ser_rk_storage_set_stream_config,
  rk_storage_format |-> ser_rk_storage_format,
  rk_storage_set_config |-> ser_rk_storage_set_config,
  rk_storage_get_config |-> ser_rk_storage_get_config,
  rk_get_device_info |-> ser_rk_get_device_info,
  rk_get_running_status |-> ser_rk_get_running_status,
  rk_get_product_info |-> ser_rk_get_product_info,
  rk_set_device_config |-> ser_rk_set_device_config,
  rk_get_device_config |-> ser_rk_get_device_config,
  rk_format_tf_card |-> ser_rk_format_tf_card,
  rk_driver_delete_info |-> ser_rk_driver_delete_info,
  rk_driver_get_list |-> ser_rk_driver_get_list,
  rk_verify_get_records |-> ser_rk_verify_get_records,
  rk_verify_clear_records |-> ser_rk_verify_clear_records,
  rk_record_file_play |-> ser_rk_record_file_play,
  rk_driver_register |-> ser_rk_driver_register,
  rk_capture_get_config |-> ser_rk_capture_get_config,
  rk_capture_set_config |-> ser_rk_capture_set_config,
  rk_get_debug_feature_config |-> ser_rk_get_debug_feature_config,
  rk_set_debug_feature_config |-> ser_rk_set_debug_feature_config,
  rk_capture_get_records |-> ser_rk_capture_get_records,
  rk_clear_driver_register_info |-> ser_rk_clear_driver_register_info,
  rk_capture_clear_records |-> ser_rk_capture_clear_records,
  rk_storage_get_disk_format_status |-> ser_rk_storage_get_disk_format_status,
  rk_system_upgrade |-> ser_rk_system_upgrade,
  rk_system_get_update_type |-> ser_rk_system_get_update_type,
  rk_system_get_update_progress |-> ser_rk_system_get_update_progress]

Command == DOMAIN map
Unknown == "unknown"               \* a name that is not in the table

\* What the client library sends after the name.
Sends ==
 [rk_create_kit |-> <<"req">>, rk_get_device_info |-> <<"req">>,
  rk_get_current_location |-> <<"req">>, rk_get_health_check |-> <<"req">>,
  rk_config_device_settings |-> <<"req">>, rk_get_incident_images |-> <<"req">>,
  rk_create_incident |->
    <<"kitID", "eventID", "startedDateTime", "imageIdCount", "imageIds", "kitInfo">>,
  rk_adas_set_preview_config |-> <<"cfg">>, rk_dms_set_config |-> <<"cfg">>,
  rk_adas_set_config |-> <<"cfg">>, rk_set_debug_feature_config |-> <<"cfg">>,
  rk_storage_set_stream_config |-> <<"config">>, rk_storage_set_config |-> <<"config">>,
  ms_record_play_control |-> <<"PlayControl">>, rk_driver_register |-> <<"drive_info">>,
  rk_get_record_file_list |-> <<"params">>, rk_record_file_play |-> <<"params">>,
  rk_set_device_config |-> <<"deviceconfig">>,
  rk_capture_set_config |-> <<"captureconfig">>,
  rk_system_upgrade |-> <<"len", "path">>]
Request(cmd) == IF cmd \in DOMAIN Sends THEN Sends[cmd] ELSE <<>>

ASSUME RpcAssumption ==
  /\ Asks \in [Client -> SUBSET (Command \cup {Unknown})]
  /\ MaxCommands \in Nat
  /\ RpcFaults \subseteq {"drop", "reset", "thread"}

(***************************************************************************)
(* State                                                                   *)
(***************************************************************************)
VARIABLES
  conn,       \* [Client -> the rec_thread of its connection]
  peer,       \* [Client -> the client's side]
  toServer, toClient,    \* [Client -> what is in the socket]
  broken,     \* the connections whose next read from an empty socket is ECONNRESET
  leaks,      \* pairs <<command, buffer>> of buffers nobody will free
  RkIpcServerRun,
  listener,   \* "loop", "accept" or "stopped"
  commands    \* the number of commands sent

rpcVars == <<conn, peer, toServer, toClient, broken, leaks, RkIpcServerRun,
             listener, commands>>
sockets == <<toServer, toClient, broken>>
listening == <<RkIpcServerRun, listener>>

NoConn == [at |-> "none", cmd |-> Unknown, todo |-> <<>>,
           held |-> {}]
RpcInit ==
  /\ conn = [c \in Client |-> NoConn]
  /\ peer = [c \in Client |-> [at |-> "off", todo |-> <<>>]]
  /\ toServer = [c \in Client |-> <<>>]
  /\ toClient = [c \in Client |-> <<>>]
  /\ broken = {} /\ leaks = {}
  /\ RkIpcServerRun = TRUE /\ listener = "loop"
  /\ commands = 0

(***************************************************************************)
(* sock_read and sock_write.  A read waits for data; with none left and    *)
(* the client gone it is SOCKERR_CLOSED, or SOCKERR_IO once if the client  *)
(* left data unread.  A write to a client that is gone is SOCKERR_CLOSED.  *)
(***************************************************************************)
Gone(c) == peer[c].at = "off"
ReadData(c) ==
  /\ toServer[c] # <<>>
  /\ toServer' = [toServer EXCEPT ![c] = Tail(@)]
  /\ UNCHANGED <<toClient, broken>>
ReadError(c) ==
  /\ toServer[c] = <<>> /\ Gone(c) /\ c \in broken
  /\ broken' = broken \ {c}
  /\ UNCHANGED <<toServer, toClient>>
ReadClosed(c) ==
  /\ toServer[c] = <<>> /\ Gone(c) /\ c \notin broken
  /\ UNCHANGED sockets
WriteData(c, item) ==
  /\ ~Gone(c)
  /\ toClient' = [toClient EXCEPT ![c] = Append(@, item)]
  /\ UNCHANGED <<toServer, broken>>
WriteClosed(c) == Gone(c) /\ UNCHANGED sockets

Become(c, thread) == conn' = [conn EXCEPT ![c] = thread]
\* The end of rec_thread: the name is freed, the connection closed; what the handler
\* still holds is lost.
CloseConn(c, held) ==
  /\ Become(c, NoConn)
  /\ leaks' = leaks \cup {<<conn[c].cmd, b>> : b \in held}
  /\ UNCHANGED <<peer, commands, listening>>
Proceed(c, thread) ==
  /\ Become(c, thread)
  /\ UNCHANGED <<peer, leaks, commands, listening>>

(***************************************************************************)
(* rec_thread                                                              *)
(***************************************************************************)
Greet(c) ==
  /\ conn[c].at = "greet"
  /\ \/ WriteData(c, "greeting") /\ Proceed(c, [conn[c] EXCEPT !.at = "len"])
     \/ WriteClosed(c) /\ CloseConn(c, {})

\* After an error the length is what it was: not positive, or that of the last name.
ReadLen(c) ==
  /\ conn[c].at = "len"
  /\ \/ /\ ReadData(c) \/ ReadError(c)
        /\ Proceed(c, [conn[c] EXCEPT !.at = "name", !.held = {"name"}])
     \/ ReadError(c) /\ CloseConn(c, {})
     \/ ReadClosed(c) /\ CloseConn(c, {})

\* The name is looked up in the table.  A name that is not there is answered like a
\* call that succeeded.
ReadName(c) ==
  /\ conn[c].at = "name"
  /\ \/ LET cmd == Head(toServer[c]) IN
        /\ ReadData(c)
        /\ Proceed(c, IF cmd \in Command
                      THEN [conn[c] EXCEPT !.at = "read", !.cmd = cmd,
                                           !.todo = map[cmd].reads]
                      ELSE [conn[c] EXCEPT !.at = "out", !.cmd = cmd])
     \/ ReadError(c) /\ Proceed(c, [conn[c] EXCEPT !.at = "out", !.cmd = Unknown])
     \/ ReadClosed(c) /\ CloseConn(c, {})

\* A handler reads its request; only SOCKERR_CLOSED makes it give up.
ReadItem(c) ==
  /\ conn[c].at = "read" /\ conn[c].todo # <<>>
  /\ \/ /\ ReadData(c) \/ ReadError(c)
        /\ Proceed(c, [conn[c] EXCEPT !.todo = Tail(@)])
     \/ ReadClosed(c) /\ CloseConn(c, {})

Call(c) ==
  /\ conn[c].at = "read" /\ conn[c].todo = <<>>
  /\ \/ \E reply \in map[conn[c].cmd].replies :
          Proceed(c, [conn[c] EXCEPT !.at = "write", !.todo = reply,
                                     !.held = @ \cup map[conn[c].cmd].holds])
     \/ map[conn[c].cmd].strict /\ CloseConn(c, {})
  /\ UNCHANGED sockets

\* Mutated form: no handler frees its buffers when a write fails.
WriteItem_NoFree(c) ==
  /\ conn[c].at = "write" /\ conn[c].todo # <<>>
  /\ LET item == Head(conn[c].todo) IN
     \/ WriteData(c, item) /\ Proceed(c, [conn[c] EXCEPT !.todo = Tail(@)])
     \/ WriteClosed(c) /\ CloseConn(c, conn[c].held \ {"name"})
WriteItem(c) ==
  /\ conn[c].at = "write" /\ conn[c].todo # <<>>
  /\ LET item == Head(conn[c].todo) IN
     \/ WriteData(c, item) /\ Proceed(c, [conn[c] EXCEPT !.todo = Tail(@)])
     \/ /\ WriteClosed(c)
        /\ CloseConn(c, IF item \in map[conn[c].cmd].forgets
                        THEN conn[c].held \ {"name"} ELSE {})

Ends(c) ==
  /\ conn[c].at = "write" /\ conn[c].todo = <<>>
  /\ \E ret \in map[conn[c].cmd].ends :
       IF ret = 0 THEN Proceed(c, [conn[c] EXCEPT !.at = "out", !.held = {"name"}])
       ELSE CloseConn(c, {})
  /\ UNCHANGED sockets

\* Mutated form: the name of the function is not freed.
Out_KeepName(c) ==
  /\ conn[c].at = "out"
  /\ WriteData(c, "status") \/ WriteClosed(c)
  /\ Proceed(c, [NoConn EXCEPT !.at = "len", !.held = {"name"}])
\* Mutated form: no status is sent.
Out_NoStatus(c) ==
  /\ conn[c].at = "out"
  /\ UNCHANGED sockets
  /\ Proceed(c, [NoConn EXCEPT !.at = "len"])
\* The label out: the status, whose write is not tested, and the next command.
Out(c) ==
  /\ conn[c].at = "out"
  /\ WriteData(c, "status") \/ WriteClosed(c)
  /\ Proceed(c, [NoConn EXCEPT !.at = "len"])

rec_thread(c) ==
  \/ Greet(c) \/ ReadLen(c) \/ ReadName(c) \/ ReadItem(c) \/ Call(c)
  \/ WriteItem(c) \/ Ends(c) \/ Out(c)

(***************************************************************************)
(* rkipc_server_thread and rkipc_server_deinit                             *)
(***************************************************************************)
TestRun ==
  /\ listener = "loop"
  /\ listener' = IF RkIpcServerRun THEN "accept" ELSE "stopped"
  /\ UNCHANGED <<conn, peer, sockets, leaks, RkIpcServerRun, commands>>
\* When the thread cannot be created the connection stays open, and is nobody's.
Accept(c) ==
  /\ listener = "accept" /\ conn[c].at = "queued"
  /\ \/ Become(c, [conn[c] EXCEPT !.at = "greet"])
     \/ "thread" \in RpcFaults /\ Become(c, [conn[c] EXCEPT !.at = "orphan"])
  /\ listener' = "loop"
  /\ UNCHANGED <<peer, sockets, leaks, RkIpcServerRun, commands>>

\* It cannot wake the thread that waits in accept.
rkipc_server_deinit ==
  /\ RkIpcServerRun
  /\ RkIpcServerRun' = FALSE
  /\ UNCHANGED <<conn, peer, sockets, leaks, listener, commands>>

(***************************************************************************)
(* The client library                                                      *)
(***************************************************************************)
ClientTurn(c, at, todo) == peer' = [peer EXCEPT ![c] = [at |-> at, todo |-> todo]]

Connect(c) ==
  /\ Gone(c) /\ conn[c].at = "none" /\ commands < MaxCommands
  /\ ClientTurn(c, "greeting", <<>>)
  /\ Become(c, [NoConn EXCEPT !.at = "queued"])
  /\ toServer' = [toServer EXCEPT ![c] = <<>>]
  /\ toClient' = [toClient EXCEPT ![c] = <<>>]
  /\ broken' = broken \ {c}
  /\ UNCHANGED <<leaks, listening, commands>>

Ask(c) ==
  /\ peer[c].at = "idle" /\ commands < MaxCommands
  /\ \E cmd \in Asks[c] : ClientTurn(c, "sending", <<"len", cmd>> \o Request(cmd))
  /\ commands' = commands + 1
  /\ UNCHANGED <<conn, sockets, leaks, listening>>

SendItem(c) ==
  /\ peer[c].at = "sending"
  /\ LET todo == peer[c].todo IN
     /\ toServer' = [toServer EXCEPT ![c] = Append(@, Head(todo))]
     /\ ClientTurn(c, IF Len(todo) = 1 THEN "waiting" ELSE "sending", Tail(todo))
  /\ UNCHANGED <<conn, toClient, broken, leaks, listening, commands>>

\* It reads the greeting, or a reply to its end, which is the status.
Receive(c) ==
  /\ peer[c].at \in {"greeting", "waiting"} /\ toClient[c] # <<>>
  /\ toClient' = [toClient EXCEPT ![c] = Tail(@)]
  /\ ClientTurn(c, IF Head(toClient[c]) \in {"greeting", "status"} THEN "idle"
                   ELSE peer[c].at, <<>>)
  /\ UNCHANGED <<conn, toServer, broken, leaks, listening, commands>>

\* The end of the stream: the server has closed the connection.
ReceiveEnd(c) ==
  /\ peer[c].at \in {"greeting", "waiting"}
  /\ toClient[c] = <<>> /\ conn[c].at = "none"
  /\ ClientTurn(c, "off", <<>>)
  /\ UNCHANGED <<conn, sockets, leaks, listening, commands>>

\* The client ends or dies.  Data it has not read breaks the server's next read.
Drop(c) ==
  /\ ~Gone(c)
  /\ IF toClient[c] = <<>> THEN "drop" \in RpcFaults /\ UNCHANGED broken
     ELSE "reset" \in RpcFaults /\ broken' = broken \cup {c}
  /\ ClientTurn(c, "off", <<>>)
  /\ toClient' = [toClient EXCEPT ![c] = <<>>]
  /\ UNCHANGED <<conn, toServer, leaks, listening, commands>>

ClientNext(c) == \/ Connect(c) \/ Ask(c) \/ SendItem(c) \/ Receive(c)
                 \/ ReceiveEnd(c) \/ Drop(c)
RpcNext ==
  \/ \E c \in Client : rec_thread(c) \/ Accept(c) \/ ClientNext(c)
  \/ TestRun \/ rkipc_server_deinit
RpcSpec == RpcInit /\ [][RpcNext]_rpcVars

\* A thread that can run runs, and the calls of the handlers return; a client that
\* has begun a command sends all of it and reads the reply.
RpcFairness ==
  \A c \in Client :
    /\ WF_rpcVars(rec_thread(c))
    /\ WF_rpcVars(SendItem(c) \/ Receive(c) \/ ReceiveEnd(c))
RpcFairSpec == RpcSpec /\ RpcFairness

(***************************************************************************)
(* Properties                                                              *)
(***************************************************************************)
\* Request and reply stay in step: when a client has read a status, nothing of this or
\* an earlier command is left in the socket, and the thread waits for the next command
\* with no buffer of the last one.
InStep ==
  \A c \in Client : peer[c].at = "idle" =>
    /\ toServer[c] = <<>> /\ toClient[c] = <<>>
    /\ conn[c].at = "len" /\ conn[c].held = {}

\* A lost client costs no memory, whatever the item its connection breaks at, except
\* in the two handlers that list records.
OnlyRecordsLeak ==
  leaks \subseteq {<<"rk_verify_get_records", "records">>,
                   <<"rk_capture_get_records", "records">>}

\* A client that has sent a command gets its reply, or the end of the connection:
\* neither a failing call nor a handler that returns no value leaves it waiting.
Answered ==
  \A c \in Client :
    peer[c].at = "waiting" /\ conn[c].at # "orphan" ~> peer[c].at # "waiting"
==============================================================================
