---------------------------- MODULE AacTranscode -----------------------------
(***************************************************************************)
(* The audio path of one RTMP channel (rtmp_ms_7.cpp): the muxer thread    *)
(* takes G.711 audio from the channel's buffer, collects the samples in a  *)
(* FIFO, encodes them to AAC in frames and pushes the packets with a time  *)
(* that it counts itself.                                                  *)
(*                                                                         *)
(* A sample is the time at which it was taken, one unit of time is the     *)
(* period of the source, and the encoder is a queue that keeps             *)
(* EncoderDelay frames back.                                               *)
(***************************************************************************)
EXTENDS Naturals, SequencesExt

CONSTANTS
  FrameSize,       \* enc_frame_size, 1024 in the encoder
  EncoderDelay,    \* frames that the encoder holds back
  InitialCap,      \* what s16_fifo_init allocates
  PtsModulus,      \* 2^32: the times are uint32_t
  ChunkSizes,      \* samples that the buffer gives at once
  Gaps,            \* samples that the muxer thread drops while nobody watches
  MaxTime,         \* bound on the time
  AudioFaults      \* "open", "alloc", "encode" and "push" may fail

ASSUME AudioAssumption ==
  /\ FrameSize \in Nat \ {0} /\ FrameSize % 2 = 0
  /\ EncoderDelay \in Nat /\ InitialCap \in Nat \ {0} /\ PtsModulus \in Nat \ {0}
  /\ ChunkSizes \subseteq Nat \ {0} /\ Gaps \subseteq Nat \ {0} /\ MaxTime \in Nat
  /\ AudioFaults \subseteq {"open", "alloc", "encode", "push"}

VARIABLES
  A,           \* g_aac[ch]: initialized, sr_out, seq_hdr_sent, next_pts_ms, cap
  fifo,        \* A->s16fifo: the samples in it
  encoder,     \* A->c: the frames that it holds back
  audioAt,     \* where the muxer thread is in ms_rtmp_write_audio_frame
  chunk,       \* the samples that it was given
  frame,       \* the samples that it took out of the FIFO
  clock,       \* when the next sample of the source is taken
  stored,      \* the samples that reached the FIFO, since the encoder was opened
  packets,     \* what was pushed since then: pts_ms and samples of each
  skewed,      \* samples are missing: nobody watched, or a step failed
  failed       \* a step failed after samples had been stored
dataVars == <<fifo, encoder, chunk, frame>>
historyVars == <<stored, packets, skewed, failed>>
audioVars == <<A, dataVars, audioAt, clock, historyVars>>

Zeroed == [initialized |-> FALSE, sr_out |-> 0, seq_hdr_sent |-> FALSE,
           next_pts_ms |-> 0, cap |-> 0]

AudioInit ==
  /\ A = Zeroed /\ fifo = <<>> /\ encoder = <<>> /\ audioAt = "idle"
  /\ chunk = <<>> /\ frame = <<>> /\ clock = 0
  /\ stored = <<>> /\ packets = <<>> /\ skewed = FALSE /\ failed = FALSE

(***************************************************************************)
(* Helpers                                                                 *)
(***************************************************************************)
GoTo(step) == audioAt' = step
pts(time) == time % PtsModulus
\* With 16000 the frame is half as long: each sample of the source makes two.
need_in_8k == IF A.sr_out = 16000 THEN FrameSize \div 2 ELSE FrameSize
\* 1000 * enc_frame_size / sr_out.
frame_ms_step == (8000 * FrameSize) \div A.sr_out
\* The first capacity of the doubled ones that is enough.
Doubled[k \in Nat] == IF k = 0 THEN 1 ELSE 2 * Doubled[k - 1]
Grown(cap, need_total) ==
  LET start == IF cap = 0 THEN InitialCap ELSE cap
      enough == {k \in 0 .. need_total : start * Doubled[k] >= need_total} IN
  start * Doubled[CHOOSE k \in enough : \A l \in enough : k <= l]

(***************************************************************************)
(* The muxer thread and the buffer                                         *)
(***************************************************************************)
\* A chunk of audio while somebody watches: transcode_g711_and_push begins.
ms_rtmp_write_audio_frame ==
  /\ audioAt = "idle"
  /\ \E n \in ChunkSizes :
       /\ clock + n <= MaxTime
       /\ chunk' = [i \in 1 .. n |-> clock + i - 1]
       /\ clock' = clock + n
  /\ GoTo("open")
  /\ UNCHANGED <<A, fifo, encoder, frame, historyVars>>

\* Nobody watches (reference < 1): the muxer thread takes the audio and deletes it.
DeleteAudio ==
  /\ audioAt = "idle"
  /\ \E n \in Gaps : clock + n <= MaxTime /\ clock' = clock + n
  /\ skewed' = (skewed \/ A.seq_hdr_sent)
  /\ UNCHANGED <<A, dataVars, audioAt, stored, packets, failed>>

\* ms_rtmp_channel_uninit, after the thread has ended; the channel may be opened again.
aac_close_if_open ==
  /\ audioAt = "idle" /\ A.initialized
  /\ A' = Zeroed /\ fifo' = <<>> /\ encoder' = <<>>
  /\ stored' = <<>> /\ packets' = <<>> /\ skewed' = FALSE /\ failed' = FALSE
  /\ UNCHANGED <<audioAt, chunk, frame, clock>>

(***************************************************************************)
(* transcode_g711_and_push                                                 *)
(***************************************************************************)
\* The call returns -1, with what it holds.
AudioFails(fault) ==
  /\ fault \in AudioFaults
  /\ GoTo("idle") /\ chunk' = <<>> /\ frame' = <<>>

Opened(rate, cap) == [initialized |-> TRUE, sr_out |-> rate, seq_hdr_sent |-> FALSE,
                      next_pts_ms |-> 0, cap |-> cap]
\* av_malloc of the FIFO may fail: then it has no capacity yet.
aac_open_if_needed ==
  /\ audioAt = "open"
  /\ \/ A.initialized /\ GoTo("header") /\ UNCHANGED <<A, chunk, frame>>
     \/ /\ ~A.initialized
        /\ \E rate \in {8000, 16000}, cap \in {InitialCap}
                                        \cup (IF "alloc" \in AudioFaults THEN {0} ELSE {}) :
             A' = Opened(rate, cap)
        /\ GoTo("header") /\ UNCHANGED <<chunk, frame>>
     \/ ~A.initialized /\ AudioFails("open") /\ UNCHANGED A
  /\ UNCHANGED <<fifo, encoder, clock, historyVars>>

\* The first chunk gives the time; it is lost when the header cannot be pushed.
send_aac_sequence_header_if_needed ==
  /\ audioAt = "header"
  /\ \/ A.seq_hdr_sent /\ GoTo("store") /\ UNCHANGED <<A, chunk, frame>>
     \/ /\ ~A.seq_hdr_sent
        /\ A' = [A EXCEPT !.next_pts_ms = pts(chunk[1]), !.seq_hdr_sent = TRUE]
        /\ GoTo("store") /\ UNCHANGED <<chunk, frame>>
     \/ /\ ~A.seq_hdr_sent /\ AudioFails("push")
        /\ A' = [A EXCEPT !.next_pts_ms = pts(chunk[1])]
  /\ UNCHANGED <<fifo, encoder, clock, historyVars>>

\* The FIFO grows when it has to; samples behind its capacity are lost.
s16_fifo_write ==
  /\ audioAt = "store"
  /\ LET need_total == Len(fifo) + Len(chunk) IN
     \/ /\ A' = [A EXCEPT !.cap = IF need_total <= @ THEN @ ELSE Grown(@, need_total)]
        /\ fifo' = SubSeq(fifo \o chunk, 1, IF need_total <= A'.cap THEN need_total
                                             ELSE A'.cap)
        /\ stored' = stored \o chunk
        /\ chunk' = <<>> /\ GoTo("encode")
        /\ UNCHANGED <<frame, skewed>>
     \/ AudioFails("alloc") /\ skewed' = TRUE /\ UNCHANGED <<A, fifo, stored>>
  /\ UNCHANGED <<encoder, clock, packets, failed>>

(***************************************************************************)
(* encode_and_push_from_s16                                                *)
(***************************************************************************)
\* As long as there is a whole frame; without memory the samples stay for the next call.
s16_fifo_read ==
  /\ audioAt = "encode"
  /\ \/ Len(fifo) < need_in_8k /\ GoTo("idle") /\ UNCHANGED <<fifo, chunk, frame>>
     \/ /\ Len(fifo) >= need_in_8k /\ GoTo("send")
        /\ frame' = SubSeq(fifo, 1, need_in_8k)
        /\ fifo' = SubSeq(fifo, need_in_8k + 1, Len(fifo))
        /\ UNCHANGED chunk
     \/ Len(fifo) >= need_in_8k /\ AudioFails("alloc") /\ UNCHANGED fifo
  /\ UNCHANGED <<A, encoder, clock, historyVars>>

\* The call fails with samples that are neither in the FIFO nor in the encoder.
FrameLost(fault) ==
  AudioFails(fault) /\ skewed' = TRUE /\ failed' = TRUE

SendTo(queue) ==
  /\ audioAt = "send"
  /\ \/ encoder' = queue /\ frame' = <<>> /\ GoTo("receive")
        /\ UNCHANGED <<chunk, skewed, failed>>
     \/ (FrameLost("alloc") \/ FrameLost("encode")) /\ UNCHANGED encoder
  /\ UNCHANGED <<A, fifo, clock, stored, packets>>
\* Mutated form: the frame goes before those that are held back.
avcodec_send_frame_First == SendTo(<<frame>> \o encoder)
\* The samples, doubled for 16000, are copied to an AVFrame and sent.
avcodec_send_frame == SendTo(Append(encoder, frame))

\* No packet yet, or not any more (EAGAIN): on to the next frame.
ReceivedAll ==
  /\ audioAt = "receive" /\ Len(encoder) <= EncoderDelay
  /\ GoTo("encode")
  /\ UNCHANGED <<A, dataVars, clock, historyVars>>

PushPacket(step) ==
  /\ audioAt = "receive"
  /\ \/ /\ Len(encoder) > EncoderDelay
        /\ packets' = Append(packets, [pts_ms |-> A.next_pts_ms, samples |-> encoder[1]])
        /\ A' = [A EXCEPT !.next_pts_ms = pts(@ + step)]
        /\ encoder' = Tail(encoder)
        /\ UNCHANGED <<audioAt, chunk, frame, skewed, failed>>
     \/ /\ Len(encoder) > EncoderDelay /\ FrameLost("push")
        /\ encoder' = Tail(encoder)
        /\ UNCHANGED <<A, packets>>
     \/ /\ AudioFails("alloc") \/ AudioFails("encode")
        /\ UNCHANGED <<A, encoder, packets, skewed, failed>>
  /\ UNCHANGED <<fifo, clock, stored>>
\* Mutated form: the step of 8000 whatever the rate is.
flv_push_aac_packet_Step == PushPacket(FrameSize)
\* The time goes on with each packet that was pushed, and only then.  When the packet
\* cannot be taken from the encoder, the next call takes it.
flv_push_aac_packet == PushPacket(frame_ms_step)

transcode_g711_and_push ==
  \/ aac_open_if_needed \/ send_aac_sequence_header_if_needed \/ s16_fifo_write
  \/ s16_fifo_read \/ avcodec_send_frame \/ ReceivedAll \/ flv_push_aac_packet
AudioNext ==
  ms_rtmp_write_audio_frame \/ DeleteAudio \/ aac_close_if_open \/ transcode_g711_and_push
AudioSpec == AudioInit /\ [][AudioNext]_audioVars

(***************************************************************************)
(* Properties                                                              *)
(***************************************************************************)
\* Each packet has the time at which its first sample was taken, at both rates, however
\* the chunks lie in the frames and however long the encoder holds a frame back.  The
\* exceptions are what the code does not make up for: audio dropped because nobody
\* watched, and steps that failed.
PacketTimes ==
  ~skewed => \A i \in DOMAIN packets : packets[i].pts_ms = pts(packets[i].samples[1])

\* No sample is lost, doubled or moved between the FIFO and the packets, unless a step
\* failed: what was stored is what was pushed, what the encoder holds and what the
\* FIFO still has, in this order.
AudioInOrder ==
  ~failed => FlattenSeq([i \in DOMAIN packets |-> packets[i].samples])
             \o FlattenSeq(encoder) \o frame \o fifo = stored
==============================================================================
