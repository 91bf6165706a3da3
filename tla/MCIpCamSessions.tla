-------------------------- MODULE MCIpCamSessions --------------------------
(***************************************************************************)
(* Instances of IpCamSessions: two cameras; camera 0 is stored with both   *)
(* streams, camera 1 with its main stream.                                 *)
(***************************************************************************)
EXTENDS IpCamSessions

CONSTANT v1

BothOn ==
  [c \in Camera |->
     [on |-> TRUE, main |-> TRUE, sub |-> c = 0,
      channel |-> c + IPCCHANNELBEGIN, version |-> v1]]

\* A camera is disabled, or enabled with the main stream, the sub stream or both,
\* under its own number or that of the other camera.
OffOrOn ==
  {f \in Config : IF f.on THEN f.main \/ f.sub ELSE ~f.main /\ ~f.sub /\ f.channel = 0}
=============================================================================
