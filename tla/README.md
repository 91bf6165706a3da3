# V020RK recorder: TLA+ models, model checks and proofs

The repository holds the application layer of a vehicle video recorder on a
Rockchip board: up to eight local cameras, up to eight IP cameras, preview,
RTMP streaming, JPEG snapshots, a configuration store and a unix-socket RPC
server through which other processes drive all of it. There is no test suite
and no design document; the code, its comments and its log messages are the
only statement of intent. Most files exist in several numbered snapshots of
the same source; the models follow the newest one of each family
(`doordvr_jpeg_2.cpp`, `rtmp_ms_7.cpp`, `doordvr_ipcammanage_5.cpp`,
`mediaStream_5.cpp`, `doordvr_getsetconfig_2.cpp`) and say so when an older one
differs. The one exception is `IncidentImages`, which follows the version of
`doordvr_getsetconfig_4.cpp` and `doordvr_ipcamanage_3.cpp`, the only one in which the
pictures of an incident go through files and back to the client.

## Inventory

| Component | Source | State it keeps | Operations | What makes it correct |
|---|---|---|---|---|
| JPEG snapshot engine | doordvr_jpeg_2.cpp | `g_ctx_by_venc`, one `SnapContext` per channel of a call, RGA and VENC channels of the media library | `Doordvr_Snap_Multi_Base64`, `single_snap_thread`, `create_rga_round_robin`, `video_packet_cb`, `Doordvr_Snap_StartJpeg` | a late callback never touches a freed context; each error path undoes what was done; a picture is returned under its own channel |
| RTMP channels | rtmp_ms_7.cpp | `rtmp_ctx[]`, `g_aac[]`, one muxer thread per channel | `ms_rtmp_channel_init/deinit`, `ms_rtmp_stream_event`, `flv_muxer_thread`, `on_flv_packet` | the muxer thread only uses what is open; nothing is closed twice; viewers are counted exactly |
| Audio transcoder | rtmp_ms_7.cpp | the S16 FIFO and the AAC encoder of a channel | `transcode_g711_and_push`, `encode_and_push_from_s16`, `s16_fifo_*` | the sequence header precedes raw frames; no sample lost or repeated; time stamps advance |
| IP camera sessions | doordvr_ipcammanage_5.cpp | `m_mapIpCamStreamQuery`, `m_IpCamConfig`, `g_inited_rtmp_channels`, the check thread | `Init/Start/StopManageIpCam`, `ChangeChnConfig`, `Create/Destroy/StartIpCamStream`, `GetVideoLost` | sessions follow the configuration, none is orphaned, every started camera is streamed |
| IP camera preview and snapshot | doordvr_ipcammanage_5.cpp | `m_mapIpcVdec`, the sessions' callbacks, `m_u8NeedIFrame`, `m_updatetime` | `BindVdec`, `GetVDecChn`, `IpCamCb`, `EnsureVdecForAbsCh_`, `SnapshotJpegMultiToMem` | a decoder serves one channel and starts with an I frame |
| Local streaming | mediaStream_5.cpp | the state of each `DVR_H264_StreamServer`, the locks of the encoders | create, destroy, pause, run, `GetVideoLock` | who holds the video lock finds whole frames; changed parameters reach the encoder |
| RPC server | server.c, socket.c | one connection per `rec_thread` | `rkipc_server_thread`, `rec_thread`, the `ser_*` handlers | request and reply stay in step; a lost client costs nothing; who asked is answered |
| Server log | server.c | `g_server_log_fp`, the current index, the log files | `server_printf`, `check_and_advance_log`, `server_log_init` | the number of files is bounded; what was logged last is kept |
| Configuration store | doordvr_getsetconfig_2.cpp | the global parameter block, `g_cfg_dirty`, `config_lock`, the file | `DVR_GetConfig`, `DVR_SetConfig`, `SaveParam`, `SaveLocalParam`, `LoadDefault*`, the `rk_*` functions | an accepted change is not forgotten; a stop leaves a readable file; the lock is released |
| Device RPC operations | doordvr_getsetconfig_2.cpp, doordvr_getsetconfig_4.cpp, doordvr_ipcamanage_3.cpp | kit, driver and incident records, pictures under /tmp | `rk_*`, `SnapshotJpegMulti` | pictures carry their camera's ID; the hardware is returned whatever fails |
| Overspeed monitor | doordvr_getsetconfig_2.cpp | times of the last warning, alarm and begin of speeding | `OverspeedMonitorThread` | the platform's warning follows the speed; lasting speeding is reported |
| Kit identity | config_info.cpp | the kit ID file | `rk_get_or_create_kitid` | one ID per fingerprint, for ever |
| Codecs and parsers | config_info.cpp, rtmp_ms_7.cpp | none | base64, G.711, GPS | agree with their definition at the boundaries |
| Earlier versions | the other numbered files | – | superseded copies of the files above | history, not modelled |
| Deployment | nginx*.conf | none | none | configuration of a third-party server, not modelled |

How they interact. The RPC server calls the device operations, which call the
snapshot engine for local cameras and the IP camera manager for the others and
read and write the configuration store. The IP camera manager opens RTMP
channels for the cameras it starts. Local streaming and the IP cameras feed the
muxer threads of the RTMP channels. All of them share the hardware channels
(VI, RGA, VENC, VDEC) of the media library.

### What is hard about it

- *Concurrency without locks.* RPC threads, the screen's thread, one thread per
  IP camera stream, one muxer thread per RTMP channel and the callbacks of the
  media library share `g_ctx_by_venc`, `m_mapIpcVdec`, `rtmp_ctx[]` and the log.
- *Pools.* RGA, VENC and VDEC channels are numbered, global, and created by
  whoever comes first; each user undoes its own steps on each error path.
- *Time.* A frame may come after the wait for it has timed out; a server may
  refuse a connection, or answer late.
- *Order.* Sessions, hooks, decoders and RTMP channels are built and torn down
  in several steps, and the configuration that says which changes in between.

The hazards, each at its line, with the properties that would catch it going
wrong, are listed in `PROJECT.json`.

## Plan

| Order | Module | Abstract specification or composition | Properties and theorems | Status |
|---|---|---|---|---|
| 1 | `JpegSnap` | implements `SnapService`; the media library is external | late callbacks, ownership, error paths, termination; every safety property proved | done |
| 2 | `IpCamPreview` | the same library, other pools | decoders and streams, leaks, termination; every safety property proved | done |
| 3 | `RtmpChannel` | | life cycle of a channel, sequence header, viewers; every safety property proved | done |
| 4 | `IpCamSessions` | composes `RtmpChannel` | sessions follow the configuration, started cameras are streamed; both proved | done |
| 5 | `ServerLog`, `RpcServer` | composed in `MCServer` | bounded log, last entries kept; request and reply in step, no leak, everyone answered; every safety property proved | done |
| 6 | `ConfigStore` | called by the threads of `RpcServer`, composed in `MCServer` | unsaved is dirty, saved survives a stop, whole reads, free lock; all four proved | done |
| 7 | `KitIdentity`, `Overspeed`, `AacTranscode`, `LocalStream`, `IncidentImages`, `Base64` | composed in `MCDevice` | see their sections; every safety property proved | done |
| 8 | `JpegSnapProofs`, `JpegPipeProofs`, `RtmpChannelProofs`, `IpCamPreviewProofs`, `IpCamSessionsProofs`, `ServerProofs`, `ConfigProofs`, `DeviceProofs` | | every invariant of the passing runs, as a theorem of its specification | done |
| 9 | `SnapService`: what a client of a snapshot is promised (every channel has its place in the answer, with its own picture, taken once, or none) | `JpegSnap` implements it under a refinement mapping | refinement checked, then proved step by step | done |
| 10 | `WarningsCorrect` with stops, where no other thread saves outside `config_lock` | | wider hypothesis for the theorem | done |

The number of runs is kept at a dozen so that the whole project can be checked in
a few minutes. Components that share no state are therefore checked in one run, each
in behaviours of its own (`part` in `MCServer` and `MCDevice`): nothing is lost, since
an interleaving of steps that have no variable in common adds no behaviour to either.

## JPEG snapshot engine: `JpegSnap`

`JpegSnap` models `doordvr_jpeg_2.cpp`. A *client* is an RPC thread in
`Doordvr_Snap_Multi_Base64`; its loops are the steps of `cpc` (publish a context,
create a thread, test and clear the slot, collect the result). A *session* is a
`single_snap_thread`, named by the address of its `SnapContext`, or a caller of
`Doordvr_Snap_StartJpeg`; its steps are those of `pc`, one per call of the media
library, and the labels of the error path are the steps of the teardown.
`PacketCb` and `Deliver` are the two halves of `video_packet_cb`: the look-up in
`g_ctx_by_venc`, and the store under the context's lock. An address is reused
after `free`, so a stale pointer may point to the context of another call.

`SnapService` is what remains for a client: it asks for a list of channels (`Ask`, or is
refused at once, `Refuse`), a picture of a channel is taken while it waits, into the place
of that channel, and never replaced (`Take`), and what was taken is returned (`Finish`).
There are no contexts, threads, encoders or callbacks in it. A call may be *void* from its
start or from a later point on (`GiveUp`): of such a call nothing is promised but that it
ends. `JpegSnap` maps its state to that of the service in `Service`: a client is busy while
its `cpc` is not "idle", and its answer is, place by place, the picture in the context of
the channel as long as the call owns that context, and `results` after it has been collected
(`Answer`); of a void call it is not told. `AnswersAreTaken` says that every behaviour of
the engine is one of the service.

Three variables are history and guard nothing. `clash`: two sessions have used one encoder at
once (two calls for one channel, one call that names it twice, or a call beside `StartJpeg`).
`wild`: a callback has written to a context after its end. `void`: the clients whose last call
was under way during a clash, or started a thread after a channel that got none. A call that
finds the engine idle, with nothing written wildly, ends the clash.

| Run | Instance | What it shows |
|---|---|---|
| `snap_calls` | two clients: one asks for channels 0 and 1, the other for 0 and then for one without an encoder; two RGA channels, two frames per request; encoding and the creation of threads may fail | until two sessions use one encoder at once no callback reaches a freed context and no frame that arrived in time is lost; the answers of every call that is not void implement `SnapService`: pictures are taken once, come back under their channel and are not lost on the way |
| `snap_overlap` | both calls want channel 0, one RGA channel, binding may fail; with fairness | the types, error paths destroy only what their thread owns, no freed context stays in the table, every call returns |
| `snap_faults` | one call and a `StartJpeg`, every library and system call may fail, another subsystem uses the RGA | nothing is leaked |

*Bounds.* Two clients are enough for every race on a slot (a slot has one writer
per call); three addresses let a freed address be reused while two are in use;
two frames let one follow the first; one or two RGA channels for two or three
threads make the pool both sufficient and exhausted. In `snap_calls` the two calls for
channel 0 may meet or follow each other, so that the properties are checked before a clash,
in the call that comes after one, and in behaviours without. `SNAP_VENC_BASE` and
`SNAP_VENC_MAX` are scaled down so that the test for an encoder out of range is taken; that
channel is asked for in a call of its own, which also makes a client call twice.

*Assumption.* `RK_MPI_VENC_DestroyChn` returns after a running callback has
returned. The code frees a context after it has joined the thread that destroyed
the encoder and has no other protection, so it relies on it.

*What the code does not promise.* In a clash the second call replaces the entry of the first
in `g_ctx_by_venc`, whose frames then go to the other context, and a callback may come after
its context is gone: calls that a clash has met are exempt from the properties about frames
and answers, but not from `SlotNeverDangling`, `OwnsWhatItUses`, `NothingLeaked` and
`CallReturns`. And the join loop stores the picture of the i-th created thread in
`results[i]`, whose channel is that of the i-th request (`doordvr_jpeg_2.cpp:309`), so that a
call answers under the wrong channel when a thread starts after one that did not, or after a
channel without an encoder: such a call is void. Both are the exact extent of the exemption,
and `ImageCorrect` proves that there is no third way to a wrong channel.

*Abstracted.* Memory exhaustion in the base64 conversion and the pixel work are "the frame
yields no picture".

## IP camera preview and snapshot: `IpCamPreview`

`IpCamPreview` models `BindVdec` (`ClearAll` to `Insert`, one action per access
of a shared structure), `IpCamCb` (`IpCamCb`, `CheckIFrame`, `SendFrame`) and
`SnapshotJpegMultiToMem` with `IpcSnapMemThreadProc_` (`EnsureVdec` to `SnapReturns`).
`bind[t]` holds the local variables of a call of `BindVdec` (`vDecChn` is `v`), `vdecOf` is
`m_mapIpcVdec`, `needI` is `m_u8NeedIFrame`, indexed as the code indexes it. `links[t]` is what
a snapshot has linked, started and got. Each exit of `IpcSnapMemThreadProc_` is an `Exit` with
the list of what the code gives back there, in its order (`undo[t]`), and `GiveBack` gives back
one thing per step, so that streams, bindings and other users of the pools come between. Which
streams exist is constant here; the sessions change in `IpCamSessions`.

`BindVdec` has no lock, and an RPC thread calls it for a snapshot (`EnsureVdecForAbsCh_`) while
the screen does: the calls interleave step by step. `mixed` is history: the call that began
last, or one still under way, ran beside another. `DecoderServesOne` and `HookedIsBound` are
about every moment when no call is under way and the last was not mixed (`Calm`), whatever
calls that were have left in the tables before it; what overlapping calls leave, for example
two channels with one decoder, stays until the next call that runs alone, and no longer.

| Run | Instance | What it shows |
|---|---|---|
| `prev_ui` | two cameras; the screen shows one and then both while a snapshot of camera 9 is taken, whose calls of `BindVdec` may run beside the screen's; frames arrive at any time | after a binding that ran alone a decoder serves one channel, and one stream feeds each decoder |
| `prev_snap` | a snapshot of a channel out of range and of camera 9 while the screen binds camera 10, every call may fail; with fairness | every exit gives back what is there and its own, no RGA or VENC channel before its bindings, nothing is left behind, the snapshot returns |
| `prev_iframe` | camera 10 alone on the screen | **violated**: `m_u8NeedIFrame` is set by list position and read by channel |

*Bounds.* Two cameras, one with both streams and one without a sub stream, cover
the branches of the choice of streams; two bindings of the screen and those of the snapshot
reach the transitions between one and several channels, in either order and overlapping. The
undefined behaviour of a `std::map` that is read while it changes is outside the model: each
access is one step.

*Noted while modelling, not a property.* A snapshot links the decoder it found for its
channel without a lock against `BindVdec`: when the screen gives the decoder to another
camera before the picture comes, that camera's picture is returned and logged for the
channel (`doordvr_ipcammanage_5.cpp:1000`). `GetEncoderFormat` answers -1 for a
stream that does not exist and callers read that as H.264; a list of several
channels asks for the codec of the sub stream even when it hooks the main stream;
`SnapshotJpegMultiToMem` binds an invalid channel, which clears the screen.

## RTMP channels: `RtmpChannel`

`RtmpChannel` models `rtmp_ms_7.cpp`: `ms_rtmp_channel_init` (`CheckStart` to
`StartMuxer`, `Undo` is the error path), `ms_rtmp_channel_deinit` (`StopMuxer` to
`DestroyAll`), `flv_muxer_thread` with `on_flv_packet` and the life cycle of the
AAC encoder (`TakeFrame` to `Push`), and the PLAY and DONE events. `open` is the
set of muxers, sockets and clients that exist, named by the call that created
them; a pointer in a context that has been cleared or closed stays what it was.
The callers are a script per thread (`Scripts`), and any call may begin at any time: a second
`init` while the first is connecting, a `deinit` of a channel that is not open, whose `init`
failed, or that another thread is opening. `ms_rtmp_channel_deinit` has no test and destroys
again what its stale pointers name. `live` notes whether the channel was started when it cleared
the flag, and `shared` the channels of which two calls were in progress at once; both are
history. `Apart(c)`: of channel c no two calls ever were.

| Run | Instance | What it shows |
|---|---|---|
| `rtmp_open` | one thread opens, closes and opens channel 0, another opens channel 8 and closes channel 0 before, between, during or after those; connections, handshakes, pushes and the encoder fail; three events; with fairness | of every channel that is `Apart`: nothing used after it was closed; what an `init` takes back and the `deinit` of a started channel destroys exists; nothing left behind; the sequence header comes first; a watched channel is fed; calls return |

*Bounds.* Three calls on a channel reach closing and reopening, failures
included; the fourth, of the other thread, the second close and the overlap. `reference`
starts at 100 in the code; `RefBase` scales it to 1, with no
more viewers than that at a time (`MaxViewers <= RefBase`): `WatchedIsFed` needs
exactly that relation, because `ms_rtmp_channel_init` resets the count while
viewers are there.

*What the code does not promise.* A `deinit` after a failed `init` closes what is closed
already; `ClosesOnce` claims nothing of such a call itself, and does claim that it takes
nothing from the `init` after it, nor from another channel. Calls that overlap on one
channel cost that channel: `ms_rtmp_channel_init` tests `start_rtmp`, which it sets after
the handshake (`rtmp_ms_7.cpp:694`), and both `DVR_H264_StreamServer` and `StartIpCamStream`
call it, so that the channel may end with two muxer threads, and with a muxer, a socket and
a client that nobody will close. The overlap is in the run, and the properties say that it
never costs another channel.

*Assumptions.* A connection that is lost while
sending ends the packet: `on_flv_packet` has an `assert(0)` there, which a release
build does not have. The time stamps and
the FIFO of the audio are `AacTranscode`'s part.

## IP camera sessions: `IpCamSessions`

`IpCamSessions` models the manager's thread in `InitManageIpCam`, `StartManageIpCam`,
`StopManageIpCam` and `SetChnConfig`, with the loops of `CreateIpCamStream`,
`DestroyIpCamStream` and `StartIpCamStream` unrolled into steps of `mgr`. Its RTMP channels
are an instance of `RtmpChannel` whose only thread is the manager: `InitRtmp` starts a call
of `ms_rtmp_channel_init`, `RtmpStep` carries it on, `NoteRtmp` enters the channel into
`g_inited_rtmp_channels` whatever the call returned. `CreateIpCamStream` files the session
of camera c under the `Channel` of its configuration (`NumberKeys`), `DestroyIpCamStream`
looks for it under the camera's place (`KeysOf`), and the RTMP channel follows from the
configuration of the key's place (`LogicalOf`): the model keeps the three apart. `foreign`,
the keys under which a camera with another's number has made a session, and `refused`, the
channels whose one initialisation failed, are history. A session object is named by its key
and a serial number, so that an object that is in no map entry, or in two, can be told.

| Run | Instance | What it shows |
|---|---|---|
| `cam_sessions` | two cameras, start, stop and two changes of any configuration, with the camera's own number or the other's; the server may refuse the connection or the handshake; with fairness | a session object is orphaned only under a foreign key, a started camera is streamed unless its one initialisation failed, operations end |

*Bounds.* Two cameras distinguish "this camera" from "the other"; two changes
reach enable, change, renumber and disable of one camera with the other in any state.

*What the code does not promise.* Two cameras with one number share a key: the second
insertion does nothing and its object is lost, and a camera with another's number leaves its
session under a key that its own destruction does not look at. `NoOrphan` exempts exactly
the keys in `foreign`, so that every camera that keeps to its place is covered whatever the
others do. A camera whose first connection was refused is skipped as "already initialized"
at every later start (`doordvr_ipcammanage_5.cpp:979`) and never streamed:
`StartedIsStreamed` exempts exactly the channels in `refused`.

*Assumptions.* `StartManageIpCam` goes through the sessions in the order of the map, by key
(`Keys`). One thread calls the manager's operations. The number of an enabled camera is that
of some camera: with another one `StartManageIpCam` reads beyond `m_IpCamConfig`.
`StopThread` does not wait for the check thread. The muxer threads
take no steps here; what they do with a channel is `RtmpChannel`'s part. The
check thread's messages to the user interface are not modelled.

## Server log: `ServerLog`

One action per step of `check_and_advance_log` (`check_size`, `close_log`,
`advance_index`, `delete_oldest_log_file`, `open_current_log_file`, `print_entry`), of
`server_log_init` (`get_next_log_index`, then the opening), and `print_unchecked` for the
macro of `server.h`, which writes without testing the size. `LogRestart` stops the process
between any two of them. `files` is the directory, `full` the files of `MAX_LOG_SIZE` bytes.

`FilesBounded` says that the rotation keeps `MAX_LOG_FILES` files across the wrap of the
index, and how far restarts exceed the number. `server_log_init` takes the next index and
deletes nothing, and `rk_get_running_status` calls it too (and loses the `FILE` that was
open). The rotation deletes by index, so the files behind a call may stay for good: each
call may add as many as the rotation keeps, which is the bound `MAX_LOG_FILES * inits`, and
not one file each. `LogKept`: neither removes the file written last.

*Bounds.* Three files of eight indices, at most four calls of `server_log_init`
(`MaxInits`): the index wraps with gaps on either side. `MaxHandles` is the limit of open
files of a process, at which `fopen` fails and the process exits.

*Assumption.* Entries are written one after the other. Two `rec_thread`s in
`check_and_advance_log` at once may use a `FILE` that is closed; that is undefined and
nothing is claimed of it.

## RPC server: `RpcServer`

A handler is a record (`map`, the code's table): the items it reads, whether it gives up
when the device's function fails, the replies it may write, what it may return, the
buffers it holds and those it does not free when a write fails. `rec_thread` interprets it:
`Greet`, `ReadLen`, `ReadName`, `ReadItem`, `Call`, `WriteItem`, `Ends` and `Out`, one
action per call of `sock_read` or `sock_write`. `peer` is the client, `toServer` and
`toClient` the socket's two directions. A client may close the connection at any time
("drop"), also with data unread ("reset"), and a thread may not start ("thread").
`TestRun`, `Accept` and `rkipc_server_deinit` are the listening thread.

`InStep`: after a status nothing is left over, on either side or in the thread.
`OnlyRecordsLeak`: a connection that breaks at any item leaks nothing, except in the two
handlers that list records, which the property names. `Answered`: a client that has sent a
command gets a reply or the end of the connection; the exception is a connection that no
thread could be created for, which the server forgets without closing it.

*Bounds.* One client sends every function of the table and a name that is not in it, two
commands after each other; then two clients call at the same time. Connections share
nothing but the listener, so that two show their interference.

*Noted.* `SIGPIPE` is not handled in the sources; the models assume that it is ignored,
since a write to a closed connection would end the process otherwise.
`rkipc_server_deinit` logs success whatever happened, and does not wait for `rec_thread`s.

## Configuration store: `ConfigStore`

`mem` is `allConfig.AllConfigDef`, by fields that are changed as a whole; `fdata` and
`flen` are the file, in `Blocks`. Each function is a set of programs, one per way through
it, of steps: take or release `config_lock`, test, read, store, store with `PERSIST`,
save. `ReadLocalParam` and `LoadDefaultLocalParam` are the start; `StopProcess` ends the
process anywhere; "io" makes opens and writes fail. `since`, `torn`, `pending`, `met` and
`mixed` are history: the values of a field since the last save, whether the file was emptied and
not written from memory since, the fields `PERSIST` has changed that no whole save has
taken over (`SaveDone` compares the file with memory), the threads beside whose save another
one has changed memory or the file, and whether the save that ended last was one of those.

`UnsavedIsDirty` and `SavedSurvives` are for any number of callers, save beside save and
save beside change. `SaveParam` writes and then clears `g_cfg_dirty` without a lock, which
is the finding of `config_skip`: after a save that memory was changed beside (`mixed`) they
claim nothing, until a save that ran alone has ended, which makes both good again.
`SavedSurvives` also claims nothing while the file is emptied and made anew (`torn`), since
`SaveLocalParam` truncates it.

| Run | Instance | What it shows |
|---|---|---|
| `server` | the three modules above: the log alone; the server with one client, and with two; the configuration with one thread that calls every function, two calls with stops in between, with two threads in the ADAS functions, and with two that change and save at the same time | `FilesBounded`, `LogKept`, `InStep`, `OnlyRecordsLeak`, `Answered`, `UnsavedIsDirty`, `SavedSurvives`, `AdasWarningsWhole`, `LockIsReleased` |
| `config_skip` | two threads create a kit | **violated** `SkipsOnlyUnchanged`: a change is skipped as "not changed" and not saved |

*Bounds.* Two calls (`MaxCalls`, which counts the stops too) are a change and a save, a
save and a stop, or a stop during a save and the next start; for two savers, that each
changes and saves once. They store different values (`Requests`), so that whose is in the file
can be told.

*Noted.* After the defaults were written, memory stays zero until the next start.
A stop within `SaveLocalParam` leaves a short file, which the next start reads as far as
it goes and then replaces by the defaults (`torn`). `DVR_SetConfig` overwrites kit fields
without setting the flag. `drivlist.drivers`, a pointer, is saved in the file.
`SaveDriverInfoToFile` writes a driver over the configuration; it has no caller.
`rk_dms_get_config` and `rk_dms_set_config` do not take the lock.

## Kit identity: `KitIdentity`

`rk_get_or_create_kitid` by several callers: `rk_pick_dbdir`, `OpenToRead`, `ReadKit`,
`CreateKit` (`O_CREAT|O_EXCL`), `rk_generate_uuid_v4`, `WriteKit`, `EndKit`. A file and
its name are apart, because a failed write removes the name while another caller may have
the file open. "stop" ends the process anywhere, "random", "write" and "newline" are
failures. A `Fingerprint` is the 64-bit FNV key that names the file: two fingerprints of one
key would share an ID.

`SameKit` is the one property: IDs answered for one fingerprint are equal, those for two
differ, whatever was asked at the same time and wherever the process stopped. Its
exception, `withdrawn`: an ID that was complete in the file when its line end could not be
written; the file is removed although another caller may have been answered with it.

*Noted.* A caller that comes between the creation and the write is refused (-3), and a stop
in that window leaves an empty file that refuses every later caller.

*Bounds.* Two fingerprints, two callers, three calls and stops in all (`MaxKitCalls`).

## Overspeed monitor: `Overspeed`

A pass of `OverspeedMonitorThread` for one channel: `Pass` (sleep, clock, speed),
`CancelAlarm`, `CancelWarning`, `PreWarning`, `Alarm`. `WarningFollowsSpeed`: after a pass
the platform shows a warning exactly between the two limits. `LastingSpeedIsReported`:
who has been at the limit for longer than the persistence and the interval has been
reported.

*Bounds.* Six passes of one or two seconds (`MaxPasses`, `Pauses`) with intervals of two
to four seconds: each interval ends within a behaviour, at its limit and after it.

*Noted.* `last_alarm_state` is tested and cleared and never set, so the branch of
`CancelAlarm` is dead, an alarm is never cancelled and `last_overspeed_time` never
restarts, contrary to the comments at `doordvr_getsetconfig_2.cpp:255-256` and `:282`. A
clock that is set back silences warnings until it has caught up.

## Audio transcoder: `AacTranscode`

`ms_rtmp_write_audio_frame`, `aac_open_if_needed`, `send_aac_sequence_header_if_needed`,
`s16_fifo_write`, `s16_fifo_read`, `avcodec_send_frame`, `flv_push_aac_packet`,
`aac_close_if_open` and `DeleteAudio`, one action each, at the two rates of the encoder. A
sample is the time it was taken at, so that the properties compare what is pushed with
what was recorded. `PacketTimes`: each packet has the time of its first sample, however the
chunks lie in the frames and however long the encoder holds one back. `AudioInOrder`: what
was stored is what was pushed, held or left, in order. The exceptions, `skewed` and
`failed`, are what the code does not make up for: after a pause of the viewers, or a push
that failed, later packets have times that are too early by the audio that is missing.

*Bounds.* `FrameSize` 4 with chunks of 3 and 9 gives every alignment and a chunk of
several frames; `InitialCap` 4 makes the FIFO grow; `PtsModulus` and `MaxTime` let the time
stamp, which is unsigned and of fixed width in the code, wrap.

*Noted.* A failed opening of the encoder leaks its context. The table of A-law has the
polarity inverted and lacks the half step; the first frame is handed to the encoder with the
time 0 (`rtmp_ms_7.cpp:365`), which is not in the model, as nothing reads a frame's time
back; a push while the channel closes returns 0.

## Local streaming: `LocalStream`

`DVR_H264_StreamServer` as a machine per channel (`AddGetChStream` to `EndStream`), and a
client that creates, destroys, pauses, runs and locks the streams. `WholeFrames`: who has
`GetVideoLock` finds every frame in all three buffers or in none. `ParamsApplied`
(liveness): parameters that were changed reach the encoder, unless the thread was paused
or has ended.

*Bounds.* Two channels, one of which has no encoder of its own (`Doors`); the comparison
after `CheckEvery` frames and the end after `NullLimit` empty reads are scaled from the
constants of the code; frames are numbered modulo `IdModulus`, which is enough to tell a
frame from the one before it.

*Noted.* `memcmp` leaves out the last four integers of the parameters; a thread sets its
state to INITIAL after it has quit, and so overwrites a state that was set in between.
Who reads `RequireReStartVenc` is not in the repository.

## Pictures of an incident: `IncidentImages`

`rk_get_incident_images` over `SnapshotJpegMulti`: the IDs are turned into cameras, each
camera is bound if it has no decoder (`EnsureDecoder`), its picture is taken through an RGA
and a VENC channel and written to /tmp, the files are read back and packed into the answer,
which is cleared on entry. Every step may fail, and a camera may go at any time. Each exit of
`snap_once` (`Exit`) has the list of what the code gives back there, and gives it back step by
step (`GiveBack`) before `SnapReturns` goes on. `ImagesMatchIds`: a picture in the
answer has the ID of its camera, whatever was skipped, doubled or out of range.
`HardwareReturned`: between two attempts, two cameras and two calls nothing is held; what an
exit gives back is held, and no channel is destroyed while the way to it or from it is still
bound. `ImagesAreNew`, the property of `incident_stale`, does not hold: the files of an
earlier call are never removed. In its counterexample both cameras have a picture from the
first incident; for the second one of them gives no new frame and is skipped, the other does,
and the valid answer has the new picture and the old one.

*Bounds.* Two cameras, two calls (`MaxAsked`), lists with a duplicate, an ID out of range
and no ID.

*Noted.* The answer is marked invalid while its pictures are sent when saving them for
inspection fails; `response->error` is NULL, so that the texts never reach the client; in
`doordvr_getsetconfig_2.cpp` the numbers 0 to n-1 are used whatever the IDs are; two
`rec_thread`s share the files and the decoder.

## Base64: `Base64`

`base64_encode`, `base64_decode`, `normalize_b64` and `save_base64_to_file`, translated as
the byte arithmetic of the code. What the code does in a loop over characters is a
recursive function of the number of characters read (`Only`, `base64_decode`).
`Base64RoundTrip`: what was encoded is saved as it was, with its padding, without it, in
the URL form and behind the marker of a data URL; and a text that is accepted is the
encoding of what is saved, but for the spare bits of its last character and what follows
the padding. Every sequence of up to five bytes, and of up to five characters among letters,
padding, the URL form, a space and a bad character, is a state: this passes each remainder
of the length. The theorem is about every length.

| Run | Instance | What it shows |
|---|---|---|
| `device` | the six modules above, one per behaviour | `SameKit`, `WarningFollowsSpeed`, `LastingSpeedIsReported`, `PacketTimes`, `AudioInOrder`, `WholeFrames`, `ParamsApplied`, `ImagesMatchIds`, `HardwareReturned`, `Base64RoundTrip` |
| `incident_stale` | two incidents of two cameras, one of which delivers no frame for the second | **violated** `ImagesAreNew` |

## Fairness

Fairness is stated per thread, for the steps the thread takes by itself: a thread
that can run eventually runs, `pthread_cond_timedwait`, `sleep` and
`RK_MPI_SYS_GetMediaBuffer` with a timeout end. Nothing makes a client call, a
camera deliver a frame, a viewer come or another subsystem release a channel. The
liveness of `RtmpChannel` and `IpCamSessions` also needs a server that answers or
closes the connection: `socket_recv` in `ms_rtmp_channel_init` has no deadline, and
without that assumption no such call returns. `RpcFairness` lets the threads of the
server run and a client that has begun a command send all of it and read the reply: the
code has no deadline on either side, so nothing holds without it. `StreamFairness` lets
the threads of local streaming run, gives a lock that is free again and again to who
waits for it (strong fairness, a mutex of the system's scheduler), and has who holds the
video lock release it. `LogSpec`, the configuration, the kit and the monitor have
safety properties only.

## Proofs

Every invariant of the passing runs is also a theorem, for every value of the constants
that satisfies the assumption its module names. Where the code is right only as long as its
callers do not meet, the exemption is part of the property, as a history variable of the model
that the run checks and the theorem is proved with (`clash` and `void`, `shared`, `mixed`,
`foreign`, `refused`); no theorem assumes that they do not meet. Two hypotheses on the
constants remain, `ListsFit` and `WarningsGuarded`, operators of the proof modules; it is said
below why they are needed. The instances of the runs satisfy them in the behaviours the property
is about.

| Module | Theorems | Hypothesis |
|---|---|---|
| `JpegSnapProofs` | `TypeCorrect`, `SlotCorrect` (`SlotNeverDangling`) | |
| `JpegPipeProofs` | `OwnsCorrect` (`OwnsWhatItUses`), `LeakCorrect` (`NothingLeaked`), `CallbackCorrect` (`NoDanglingCallback`), `FrameCorrect` (`FrameReachesRequest`), `ImageCorrect` (`ImageMatchesChannel`, an invariant on the way), `ServiceCorrect` (`AnswersAreTaken`) | |
| `RtmpChannelProofs` | `TypeCorrect`, `UseCorrect` (`UsesOnlyOpen`), `CloseCorrect` (`ClosesOnce`), `OnceCorrect` (`InitializedOnce`), `HeaderCorrect` (`HeaderFirst`), `FedCorrect` (`WatchedIsFed`) | |
| `IpCamPreviewProofs` | `PreviewLeakCorrect` (`NothingLeaked`) | |
| | `ServesCorrect` (`DecoderServesOne`), `HookedCorrect` (`HookedIsBound`) | `ListsFit` |
| `IpCamSessionsProofs` | `OrphanCorrect` (`NoOrphan`), `StreamedCorrect` (`StartedIsStreamed`) | |
| `ServerProofs` | `FilesCorrect` (`FilesBounded`), `KeptCorrect` (`LogKept`), `InStepCorrect` (`InStep`), `LeaksCorrect` (`OnlyRecordsLeak`) | |
| `ConfigProofs` | `LockCorrect` (`LockIsReleased`), `SavedCorrect` (`SavedSurvives`), `DirtyCorrect` (`UnsavedIsDirty`) | |
| | `WarningsCorrect` (`AdasWarningsWhole`) | `WarningsGuarded` |
| `DeviceProofs` | `WarningCorrect` (`WarningFollowsSpeed`), `LastingCorrect` (`LastingSpeedIsReported`), `SameKitCorrect` (`SameKit`), `WholeCorrect` (`WholeFrames`), `ImagesCorrect` (`ImagesMatchIds`), `ReturnedCorrect` (`HardwareReturned`), `PacketTimesCorrect` (`PacketTimes`), `AudioInOrderCorrect` (`AudioInOrder`), `Base64Correct` (`Base64RoundTrip`) | |

None of these invariants is inductive. What each proof adds:

**Snapshots.** `TypeCorrect` needs `IndexOK` (the loops index `channels`, `ctxs` and
`results` within their lengths); it includes that `create_rga_round_robin` stays below
`RGA_MAX_CHN_NUM`. `SlotInv` says that a slot holds a live context of its own channel
(`SlotHome`), that a context a call has found overwritten never comes back
(`NotMineStays`; without it the unlocked test-then-clear of the join loop could not be
justified), and that the contexts of calls are live and owned once (`OwnedLive`,
`OwnedOnce`).

`PipeInv` is about the hardware. A thread lives no longer than its context
(`ThreadLife`), and an encoder or scaler belongs to a session exactly while the session's
pipeline is between its creation and its destruction (`Encoders`, `Scalers`), with the
bindings made so far (`Bound`). Hence nothing is used that is not owned and nothing is
left, whatever failed and however calls overlap.

The callbacks find their context through `g_ctx_by_venc`, which has one entry per encoder.
What holds in a clash too is `KeptInv`: a context in use belongs to one call (`LiveOwned`), a
callback runs only on an encoder that exists (`CbHeld`), a new context has no frame (`Fresh`),
and calls under way in a clash are void (`Marked`). `CleanInv` is what holds outside one:
sessions use encoders of their own (`Apart`), the entry of a context is its own for its whole
life (`SlotFull`), a callback holds the context of the thread that owns its encoder
(`CbHome`), and a frame that was emitted is in its context or in a callback on its way there
(`Met`). The invariant is `Past`: the one always, the other unless there is a clash. The
step that ends a clash has to make `CleanInv` true again, which it does because an idle engine
has no context, no session and no callback. `ImageCorrect` adds `Aligned`: the i-th context
of a call that is not void is that of its i-th channel.

`ServiceCorrect` is the refinement. The invariants above are not quite enough for it:
`PlaceInv` adds that an answer has a place for each channel and each context and that
nothing is in it while contexts are still made (`Places`), and that a context no callback
has reached has no picture (`Untaken`), so that a picture is taken once. Each step of the
engine is then a step of the service or one no client sees: beginning a call is `Ask` or
`Refuse` (`ServeCall`), the store of a callback is `Take` (`ServeDeliver`), the end of a
call is `Finish` (`ServeReturn`); a step that makes calls void is `GiveUp`; collecting a
result moves a picture from the context to `results` and is invisible (`ServeCollect`), as
is everything the threads and the library do (`ServeOthers`).

**RTMP channels.** The invariant has a part for each channel, `Life(c)`, which is claimed
while the channel is `Apart`: with no call about it the channel is whole and has its muxer
thread, or has nothing (`Rest`); a call about it has brought it to a certain stage (`Stage`),
which for a `deinit` depends on `live`; the sequence header counts as sent only where the
client has it, and the channel counts at least its viewers (`Counted`), which is where
`MaxViewers <= RefBase` enters. `Sound` is what holds of every channel: above all that no
pointer of a context leads to what was made for another channel (`Owned`), so that a step about
one channel leaves the others alone (`Beside`), even a step of calls that overlap.

**IP cameras.** `SnapInv` is the counterpart of `PipeInv` for the snapshots of the cameras:
what a thread holds is what its step says it has made, and on the way out what its exit
still owes (`Owed`); the lists of the seven exits are `Rests`.
`BindInv` follows a call of `BindVdec` that runs alone through its list: the first i - 1
channels have been given decoders of their own, and the decoders given are on, each for one
channel whose frames come from one stream (`Work`, `Given`). `CallsInv` claims it of a call that
is not mixed, and after it `Settled`, whatever the tables held when the call began: it clears
all of them first. `ListsFit`: no list is longer than `m_u8NeedIFrame`, which
`BindVdec` indexes by list position without a test.
`MakingInv` shows that a session object is made only under a key that has none or is foreign,
since a camera that is off has no session and one that changes is destroyed first. `RtmpInv`
relates the manager, its call and the channel: what is in
`g_inited_rtmp_channels` is open or was refused (`InitedOpen`), a call under way is about the
channel being started (`CallInit`), and a main stream that was started has its channel in the
set, is about to, or is being changed, which starts it again (`StartedInited`, `Pending`).

**RPC server and log.** `RpcInv` says that what the client has yet to send, with what lies in
the socket, is exactly what the thread will read, and that the status comes last in a reply
(`Exchange`); its facts about the table are that each handler reads what the client
library sends for its function and that only the two that list records forget a buffer.
No hypothesis on faults: the client may go at any point. `LogInv` separates the window
of the last `MAX_LOG_FILES` indices, which the rotation cleans, from the strays outside it,
of which there are at most `MAX_LOG_FILES * (inits - 1)` (`FewStrays`); the count over
indices that wrap is most of the proof. `LastKept` says which file each step must leave.

**Configuration.** `CallInv` describes what is left of a program: one that holds the lock
has its release at the end and no second request (`Inside`), one that does not takes it at
most once (`Outside`). `FileInv`: the blocks a save has written are those of memory
(`Written`), and memory is among the values since the last save; it gives `SavedCorrect`,
and `DirtyCorrect` because the flag is cleared only when the file has all of memory. With
several callers `Written` is claimed of a save that memory was not changed beside, and the
two conclusions of a last save that was not `mixed`. `WarnInv`: the two warnings are equal
unless a call with the lock is between its two stores (`Together`, `HalfSet`).
`WarningsGuarded` leaves out `SystemGlobal_Get_Config_Param`, which stores all fields
without the lock. Where the process may stop, it also asks that while one thread may call
the setter no other calls a function that saves outside the lock (`PlainSavers`): such a
save may catch the setter halfway, and after a stop at that point the next start reads the
halves, which every reader then gets until the next change. Without such saves the file,
too, has the warnings of one caller at any time (`FileWarnInv`), although a stop may cut the
writing short between any two blocks: both are in the same block (`OneBlock`), and who saves
them has the lock (`SavesTogether`).

**Device.** Both properties of the overspeed monitor hold at the end of a pass, so
`SpeedInv` says what each of its steps has established: that a warning left by
`CancelWarning` is one the speed calls for and that `PreWarning` adds the missing one
(`WarningInv`), and that the begin of speeding the thread keeps is never later than that of
the speeding that lasts (`TimeInv`). Hence the persistence is always met in time, and if
the interval holds an alarm back, the last one was raised since the speeding began. That
the clock starts later than any interval is an assumption: an alarm time of 0 means none
was raised. `KitInv`: a file has one name and an ID is in one file (`NamesOnce`,
`IdsOnce`), the name stays its maker's until the call has ended (`Distinct`, `Callers`; this
is what `O_EXCL` gives), and an answer is in the file of its fingerprint or was withdrawn
(`AnswersKept`). `StreamInv`: a thread holds the lock of its channel exactly while it puts a
frame, and the buffers it has not come to end with the frame before (`PutSoFar`).
`ImageInv`: the list has each camera once, the decoder is bound to the camera whose picture
is taken, and a file has the picture of the camera it is named after (`ListInv`,
`TakingInv`, `FilesInv`); `RankCounts` shows that removing doubled IDs leaves a list
without gaps. `AudioInv`: the samples in the encoder, the frame,
the FIFO and the chunk are those taken from some time T on until now, the next packet
begins with T, and each frame held begins where the one before ended (`AudioFlow`). It
needs that the FIFO has room after it has grown (`GrownEnough`, with the recursive function
`Doubled`) and that flattening a sequence of frames may be done from either end
(`FlattenAppend`, `FlattenTail`). The step of the time stamp is the samples of a frame at
either rate (`StepIsNeed`).

The state of `Base64` only grows, so that its invariant (`GivenInv`) says no more than which
texts are given; the proof is about what the functions compute. Each loop of the code is a
sequence of states, one per character (`OnlyRuns`, `DecodeRuns`), followed from one group of
four to the next by induction over a set of numbers (`EveryNumber`, which needs no operator
as a parameter). Three bytes and their four values determine each other (`TripleOfBytes`,
`BytesOfTriple`), and so do values and characters (`ValueOfCode`, `CodeOfValue`); hence the
decoder has read the bytes before it after every group (`ReadSoFar`), and `normalize_b64`
takes each of the four forms back to the text (`NormalText`, `BehindMarker`). In the other
direction, after each group of any text the decoder has failed, reads on with whole groups
behind it, or has met the padding (`Phase`), and in the last two cases the bytes have that
text as their code (`CodedAgain`).

The inductive invariants of the audio, the pipelines and the binding of decoders were
checked with TLC on small instances first, like those of the slots, the RTMP calls and the
speed monitor; TLC's counterexamples are where the exemptions of the properties and the
corrected bound of `FilesBounded` come from.

*Only model-checked.*
- The liveness properties `CallReturns` (of `JpegSnap` and `RtmpChannel`),
  `SnapshotReturns`, `ManagerReturns`, `Answered` and `ParamsApplied`: fairness and ENABLED
  are beyond the proof system.
- The three properties the code violates, see Findings.

## What is not modelled, and why

- The default values of the configuration, pixel and sample formats, the tables of G.711,
  JSON and log wording: data. Only which fields a function reads, sets and saves is modelled.
- The media, RTMP, FLV and AAC libraries, `my_pub_common.h` and the stream classes of the
  IP cameras are not in the repository: they are modelled by what the code relies on.
- `rk_get_gps*`: floating point arithmetic. The record list and playback, the system
  upgrade, `DVR_GetIdaPara` and `DVR_SetIdaPara` pass their arguments to libraries outside
  the repository. `TfCardCheckVoiceThread` speaks when the card is missing and keeps no
  state another part reads.
- The check threads of the IP cameras report to the user interface, which is not in the
  repository.
- Data races on one word (`reference++`, the flags of `m_u8NeedIFrame`), on a `std::map`
  and on a `FILE` are undefined behaviour of one step each; the models show what the order of
  whole steps does.
- A power cut loses data that was written and not synced; `SaveParam` and the kit file are
  synced by the code, and what `SaveLocalParam` left in the page cache is taken as written.
- The nginx configuration, which is another program's, and the superseded copies of the
  modelled files.

## Findings

| Run | What the code does |
|---|---|
| `prev_iframe` | a decoder may start with a P frame although the header promises an I frame |
| `config_skip` | `SaveParam` skips a write as "not changed" although memory and file differ |
| `incident_stale` | a camera that gave no new frame is answered with the picture of an earlier incident |

## Running

`tlc -config <run>.cfg <module>.tla` for the runs in `PROJECT.json` (the module is
the `MC` module). The proofs, of which `DeviceProofs` and `ServerProofs` are the longest:
`tlapm JpegSnapProofs.tla`, `tlapm JpegPipeProofs.tla`, `tlapm RtmpChannelProofs.tla`,
`tlapm IpCamPreviewProofs.tla`, `tlapm IpCamSessionsProofs.tla`,
`tlapm ServerProofs.tla`, `tlapm ConfigProofs.tla` and `tlapm DeviceProofs.tla`.
