----------------------------- MODULE MCJpegSnap -----------------------------
(***************************************************************************)
(* Instances of JpegSnap.  Channels are small numbers; SNAP_VENC_BASE and  *)
(* SNAP_VENC_MAX are scaled down so that a channel can be out of range.    *)
(***************************************************************************)
EXTENDS JpegSnap, TLC

CONSTANTS c1, c2, a1, a2, a3, s1

\* Two clients that both ask for channel 0; the second one first makes a call
\* for no channel.
OverlapCalls == c1 :> << <<0, 1>> >> @@ c2 :> << <<>>, <<0>> >>

\* Two clients whose calls for channel 0 may meet, or not; then one for a
\* channel without an encoder (SNAP_VENC_BASE + 3 = SNAP_VENC_MAX).
MeetingCalls == c1 :> << <<0, 1>> >> @@ c2 :> << <<0>>, <<3>> >>

OneCall == c1 :> << <<0, 1>> >>

NoSingle == <<>>
SingleZero == s1 :> 2

\* Addresses are only compared and stored.
AddrSymmetry == Permutations(Addr)
=============================================================================
