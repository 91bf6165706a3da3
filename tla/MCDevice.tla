------------------------------ MODULE MCDevice -------------------------------
(***************************************************************************)
(* Instances of the parts of the device that share no state with each      *)
(* other: one behaviour is of one part, the others stay as they begin.     *)
(***************************************************************************)
EXTENDS KitIdentity, Overspeed, AacTranscode, LocalStream, MCIncident, Base64

SpeedConfigurations ==
  [enabled : BOOLEAN, preWarningSpeed : {2}, speedThreshold : {0, 3},
   preWarningInterval : {2}, warningInterval : {3}, persistenceDuration : {2, 4}]

VARIABLE part
vars == <<kitVars, speedVars, audioVars, streamVars, imageVars, base64Vars, part>>
Idle(p) == part # p

Init ==
  /\ part \in {"kit", "speed", "audio", "stream", "image", "base64"}
  /\ KitInit /\ (Idle("kit") => usable = {"var"})
  /\ SpeedInit
  /\ Idle("speed") => speed_cfg = [enabled |-> TRUE, preWarningSpeed |-> 2,
       speedThreshold |-> 3, preWarningInterval |-> 2, warningInterval |-> 3,
       persistenceDuration |-> 2]
  /\ AudioInit
  /\ StreamInit /\ (Idle("stream") => \A c \in StreamChannel : coder_param[c] = 1)
  /\ ImageInit /\ (Idle("image") => incidentImageIds = <<>> /\ online = {})
  /\ Base64Init /\ (Idle("base64") => givenAs = "text")

\* What the other parts do.
Rest(p) ==
  /\ part = p /\ UNCHANGED part
  /\ p # "kit" => UNCHANGED kitVars
  /\ p # "speed" => UNCHANGED speedVars
  /\ p # "audio" => UNCHANGED audioVars
  /\ p # "stream" => UNCHANGED streamVars
  /\ p # "image" => UNCHANGED imageVars
  /\ p # "base64" => UNCHANGED base64Vars
Next ==
  \/ Rest("kit") /\ KitNext
  \/ Rest("speed") /\ OverspeedMonitorThread
  \/ Rest("audio") /\ AudioNext
  \/ Rest("stream") /\ StreamNext
  \/ Rest("image") /\ ImageNext
  \/ Rest("base64") /\ Base64Next
Spec == Init /\ [][Next]_vars /\ StreamFairness
==============================================================================
