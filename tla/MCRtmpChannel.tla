--------------------------- MODULE MCRtmpChannel ---------------------------
(***************************************************************************)
(* Instances of RtmpChannel: two threads, two channels.                    *)
(***************************************************************************)
EXTENDS RtmpChannel, TLC

CONSTANTS t1, t2

\* t1 opens, closes and opens channel 0 again; t2 opens channel 8 and then,
\* before, between, during or after the calls of t1, closes channel 0 too.
OpenAndClose ==
  t1 :> << <<"init", 0>>, <<"deinit", 0>>, <<"init", 0>> >> @@
  t2 :> << <<"init", 8>>, <<"deinit", 0>> >>
=============================================================================
