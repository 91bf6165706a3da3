---------------------------- MODULE LocalStream ------------------------------
(***************************************************************************)
(* Local streaming (mediaStream_5.cpp): one thread per channel takes the   *)
(* buffers of the hardware encoder and puts each frame into the buffers of *)
(* the recorder, the network and the pre-recorder, under the lock of the   *)
(* channel; a caller that takes the locks of all channels stops them.      *)
(*                                                                         *)
(* One client calls the functions of the server one after the other, and   *)
(* another thread changes the parameters of the encoders meanwhile.  How a *)
(* thread is stopped and woken (my_pub_common.h) is external.              *)
(***************************************************************************)
EXTENDS Naturals

CONSTANTS
  AllChannels,     \* DVR_ALL_CH_NUM: the channels are 1 .. AllChannels
  Doors,           \* DOORDVR_CHANNEL_NUM: those from here on have no encoder
  Params,          \* parameters that an encoder may have
  CheckEvery,      \* frames between two looks at the parameters: 5
  NullLimit,       \* buffers that may be missing in a row: 2
  IdModulus        \* 2^32: frame_id is unsigned

ASSUME StreamAssumption ==
  /\ Doors \in 1 .. AllChannels /\ AllChannels \in Nat /\ Params # {}
  /\ CheckEvery \in Nat /\ NullLimit \in Nat /\ IdModulus \in Nat \ {0, 1}

VARIABLES
  states,            \* [channel -> pThreadParam->states]
  channel_stream,
  enc_lock,          \* [channel -> who holds it: "free", "client" or "stream"]
  RequireReStartVenc,
  stream,            \* [channel -> the thread: where it is and its variables]
  coder_param,       \* what each encoder uses
  enc_param,         \* what it should use
  last,              \* [channel -> [buffer -> id of the last frame put into it]]
  client             \* the call under way, and the channel it has come to
paramVars == <<coder_param, enc_param>>
streamVars == <<states, channel_stream, enc_lock, RequireReStartVenc, stream, paramVars,
                last, client>>

StreamChannel == 1 .. AllChannels
Buffer == {"record", "network", "prerecord"}
\* What follows the put into a buffer.
AfterPut == [record |-> "network", network |-> "prerecord", prerecord |-> "release"]
NoFrame == IdModulus
NoThreadYet == [at |-> "none", dwFrameNumber |-> 0, err_count |-> 0, encparam_count |-> 0]

StreamInit ==
  /\ states = [c \in StreamChannel |-> "INITIAL"]
  /\ channel_stream = [c \in StreamChannel |-> 0]
  /\ enc_lock = [c \in StreamChannel |-> "free"]
  /\ RequireReStartVenc = [c \in StreamChannel |-> 0]
  /\ stream = [c \in StreamChannel |-> NoThreadYet]
  /\ coder_param \in [StreamChannel -> Params] /\ enc_param = coder_param
  /\ last = [c \in StreamChannel |-> [b \in Buffer |-> NoFrame]]
  /\ client = [call |-> "down", nr |-> 0]

(***************************************************************************)
(* Helpers                                                                 *)
(***************************************************************************)
StreamAt(c, step) == stream[c].at = step
MoveOn(c, step) == stream' = [stream EXCEPT ![c].at = step]
SetState(c, s) == states' = [states EXCEPT ![c] = s]
Calls(f, c) == client.call = f /\ client.nr = c
Call(f, c) == client' = [call |-> f, nr |-> c]
Quiet == UNCHANGED <<channel_stream, RequireReStartVenc, last, paramVars>>

(***************************************************************************)
(* The functions of the server                                             *)
(***************************************************************************)
\* The locks are initialised and the threads are created with the state RUNNING.
DVR_CreateH264MediaStreamServer ==
  /\ client.call = "down" /\ Call("up", 0)
  /\ states' = [c \in StreamChannel |-> "RUNNING"]
  /\ channel_stream' = [c \in StreamChannel |-> 0]
  /\ enc_lock' = [c \in StreamChannel |-> "free"]
  /\ stream' = [c \in StreamChannel |-> [NoThreadYet EXCEPT !.at = "begin"]]
  /\ UNCHANGED <<RequireReStartVenc, paramVars, last>>

\* ComExitThread of one channel after the other: it stops the thread and waits for it.
DVR_DestroyH264MediaStreamServer ==
  /\ \/ client.call = "up" /\ Call("exit", 1) /\ SetState(1, "INITIAL")
     \/ \E c \in StreamChannel :
          /\ Calls("exit", c) /\ StreamAt(c, "none")
          /\ IF c = AllChannels THEN Call("down", 0) /\ UNCHANGED states
             ELSE Call("exit", c + 1) /\ SetState(c + 1, "INITIAL")
  /\ UNCHANGED <<enc_lock, stream>> /\ Quiet

\* The first channel only.
DVR_PauseH264MediaStreamServer ==
  /\ client.call = "up" /\ SetState(1, "PAUSED")
  /\ UNCHANGED <<enc_lock, stream, client>> /\ Quiet
DVR_RunH264MediaStreamServer ==
  /\ client.call = "up" /\ SetState(1, "RUNNING")
  /\ UNCHANGED <<enc_lock, stream, client>> /\ Quiet

\* The locks of all channels, in their order.
GetVideoLock ==
  /\ \/ client.call = "up" /\ Call("lock", 1) /\ UNCHANGED enc_lock
     \/ \E c \in StreamChannel :
          /\ Calls("lock", c) /\ enc_lock[c] = "free"
          /\ enc_lock' = [enc_lock EXCEPT ![c] = "client"]
          /\ IF c = AllChannels THEN Call("locked", 0) ELSE Call("lock", c + 1)
  /\ UNCHANGED <<states, stream>> /\ Quiet
ReleaseVideoLock ==
  /\ \/ client.call = "locked" /\ Call("unlock", 1) /\ UNCHANGED enc_lock
     \/ \E c \in StreamChannel :
          /\ Calls("unlock", c) /\ enc_lock' = [enc_lock EXCEPT ![c] = "free"]
          /\ IF c = AllChannels THEN Call("up", 0) ELSE Call("unlock", c + 1)
  /\ UNCHANGED <<states, stream>> /\ Quiet

\* The parameters that an encoder should have; somebody else sets them at any time.
SetEncParam ==
  /\ \E c \in 1 .. Doors, p \in Params :
       enc_param[c] # p /\ enc_param' = [enc_param EXCEPT ![c] = p]
  /\ UNCHANGED <<states, channel_stream, enc_lock, RequireReStartVenc, stream, coder_param,
                 last, client>>

(***************************************************************************)
(* DVR_H264_StreamServer: the thread of a channel                          *)
(***************************************************************************)
Undisturbed == UNCHANGED <<states, paramVars, client>>

\* The lock of the channel is taken for one assignment.  ms_rtmp_channel_init, which the
\* thread calls then, is RtmpChannel's.
SetGetChStream(c, value, step) ==
  /\ enc_lock[c] = "free"
  /\ channel_stream' = [channel_stream EXCEPT ![c] = value] /\ MoveOn(c, step)
  /\ UNCHANGED <<enc_lock, RequireReStartVenc, last>> /\ Undisturbed
AddGetChStream(c) == StreamAt(c, "begin") /\ SetGetChStream(c, 1, "loop")
RemoveGetChStream(c) == StreamAt(c, "quit") /\ SetGetChStream(c, 0, "end")

\* A channel without encoder sleeps; a paused one waits until its state changes.
ReadStates(c) ==
  /\ StreamAt(c, "loop")
  /\ \/ states[c] = "INITIAL" /\ MoveOn(c, "quit")
     \/ states[c] = "RUNNING" /\ c <= Doors /\ MoveOn(c, "take")
  /\ UNCHANGED <<channel_stream, enc_lock, RequireReStartVenc, last>> /\ Undisturbed

\* RK_MPI_SYS_GetMediaBuffer: a frame, which is described, or nothing within two
\* seconds.
GetMediaBuffer(c) ==
  /\ StreamAt(c, "take")
  /\ \/ /\ stream' = [stream EXCEPT ![c].err_count = 0, ![c].at = "lock"]
        /\ UNCHANGED RequireReStartVenc
     \/ /\ stream[c].err_count < NullLimit
        /\ stream' = [stream EXCEPT ![c].err_count = @ + 1, ![c].at = "loop"]
        /\ UNCHANGED RequireReStartVenc
     \/ /\ stream[c].err_count >= NullLimit
        /\ stream' = [stream EXCEPT ![c].err_count = @ + 1, ![c].at = "quit"]
        /\ RequireReStartVenc' = [RequireReStartVenc EXCEPT ![c] = 1]
  /\ UNCHANGED <<channel_stream, enc_lock, last>> /\ Undisturbed

\* Mutated form: the frame is put without the lock.
LockChannel_Not(c) ==
  /\ StreamAt(c, "lock") /\ MoveOn(c, "record")
  /\ UNCHANGED <<enc_lock, channel_stream, RequireReStartVenc, last>> /\ Undisturbed
LockChannel(c) ==
  /\ StreamAt(c, "lock") /\ enc_lock[c] = "free"
  /\ enc_lock' = [enc_lock EXCEPT ![c] = "stream"] /\ MoveOn(c, "record")
  /\ UNCHANGED <<channel_stream, RequireReStartVenc, last>> /\ Undisturbed

\* The three buffers, one after the other; then the frame is released.
PutFrame(c) ==
  /\ \E b \in Buffer :
       /\ StreamAt(c, b)
       /\ last' = [last EXCEPT ![c][b] = stream[c].dwFrameNumber]
       /\ MoveOn(c, AfterPut[b])
  /\ UNCHANGED <<channel_stream, enc_lock, RequireReStartVenc>> /\ Undisturbed

ReleaseFrame(c) ==
  /\ StreamAt(c, "release")
  /\ stream' = [stream EXCEPT ![c].dwFrameNumber = (@ + 1) % IdModulus, ![c].at = "check"]
  /\ enc_lock' = [enc_lock EXCEPT ![c] = "free"]
  /\ UNCHANGED <<channel_stream, RequireReStartVenc, last>> /\ Undisturbed

Counted(c, count) ==
  stream' = [stream EXCEPT ![c].encparam_count = count, ![c].at = "loop"]
CompareAfter(c, frames) ==
  /\ StreamAt(c, "check")
  /\ IF stream[c].encparam_count < frames
     THEN Counted(c, stream[c].encparam_count + 1)
     ELSE IF coder_param[c] = enc_param[c] THEN Counted(c, 1) ELSE MoveOn(c, "restart")
  /\ UNCHANGED <<channel_stream, enc_lock, RequireReStartVenc, last>> /\ Undisturbed
\* Mutated form: the count is reset after every frame.
CompareParams_Never(c) ==
  /\ StreamAt(c, "check") /\ Counted(c, 0)
  /\ UNCHANGED <<channel_stream, enc_lock, RequireReStartVenc, last>> /\ Undisturbed
\* Every few frames the parameters of the encoder are compared with the wanted ones.
CompareParams(c) == CompareAfter(c, CheckEvery)

\* The encoder is closed and opened with what is wanted then.
RestartEncoder(c) ==
  /\ StreamAt(c, "restart")
  /\ coder_param' = [coder_param EXCEPT ![c] = enc_param[c]] /\ Counted(c, 1)
  /\ UNCHANGED <<states, channel_stream, enc_lock, RequireReStartVenc, enc_param, last,
                 client>>

EndStream(c) ==
  /\ StreamAt(c, "end")
  /\ MoveOn(c, "none") /\ SetState(c, "INITIAL")
  /\ UNCHANGED <<enc_lock, client>> /\ Quiet

DVR_H264_StreamServer(c) ==
  \/ AddGetChStream(c) \/ ReadStates(c) \/ GetMediaBuffer(c) \/ LockChannel(c)
  \/ PutFrame(c) \/ ReleaseFrame(c) \/ CompareParams(c)
  \/ RestartEncoder(c) \/ RemoveGetChStream(c) \/ EndStream(c)
StreamClient ==
  \/ DVR_CreateH264MediaStreamServer \/ DVR_DestroyH264MediaStreamServer
  \/ DVR_PauseH264MediaStreamServer \/ DVR_RunH264MediaStreamServer
  \/ GetVideoLock \/ ReleaseVideoLock
StreamNext ==
  StreamClient \/ SetEncParam \/ \E c \in StreamChannel : DVR_H264_StreamServer(c)
StreamSpec == StreamInit /\ [][StreamNext]_streamVars

\* The threads run, and get a lock that is free again and again; who has begun to take
\* the locks goes on, and who holds them releases them.
StreamFairness ==
  /\ \A c \in StreamChannel :
       /\ WF_streamVars(DVR_H264_StreamServer(c))
       /\ SF_streamVars(LockChannel(c))
       /\ SF_streamVars(AddGetChStream(c) \/ RemoveGetChStream(c))
  /\ SF_streamVars(client.call = "lock" /\ GetVideoLock)
  /\ WF_streamVars(ReleaseVideoLock)

(***************************************************************************)
(* Properties                                                              *)
(***************************************************************************)
\* Whoever has got the video lock finds no frame half put: the buffers of each channel
\* end with the same frame, and they stay so.
WholeFrames ==
  client.call = "locked" => \A c \in StreamChannel, b \in Buffer : last[c][b] = last[c]["record"]

\* Wanted parameters reach the encoder, unless the thread was paused or has ended.
ParamsApplied ==
  \A c \in 1 .. Doors :
    coder_param[c] # enc_param[c] ~>
      coder_param[c] = enc_param[c] \/ states[c] # "RUNNING" \/ StreamAt(c, "none")
==============================================================================
