----------------------------- MODULE MCIncident ------------------------------
(***************************************************************************)
(* Instances of IncidentImages: two cameras, channels 9 and 10.            *)
(***************************************************************************)
EXTENDS IncidentImages

\* An ID twice, one out of range, no ID.
Incidents == {<<2, 1, 2>>, <<3, 2>>, <<>>}

\* Both cameras stay on the network all the time.
OnlineSpec == ImageInit /\ online = Camera /\ [][ImageNext /\ UNCHANGED online]_imageVars
==============================================================================
