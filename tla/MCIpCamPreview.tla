--------------------------- MODULE MCIpCamPreview ---------------------------
(***************************************************************************)
(* Instances of IpCamPreview: two IP cameras, channels 9 and 10.           *)
(***************************************************************************)
EXTENDS IpCamPreview, TLC

CONSTANTS b1, t1

\* Camera 9 has both streams, camera 10 an H.265 main stream only.
Streams == {<<9, "main">>, <<9, "sub">>, <<10, "main">>}
MainOf10 == {<<10, "main">>}
BothMain == {<<9, "main">>, <<10, "main">>}
NoLists == <<>>

\* The screen shows one camera, then both.
FullThenSplit == b1 :> << <<10>>, <<9, 10>> >>
FullTwice == b1 :> << <<10>>, <<10>> >>
Show10 == b1 :> << <<10>> >>

\* An RPC thread asks for a camera; channel 30 is out of range.
OutOfRangeThen9 == t1 :> <<30, 9>>
Only9 == t1 :> <<9>>
=============================================================================
