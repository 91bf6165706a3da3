---------------------------- MODULE ConfigProofs ----------------------------
(***************************************************************************)
(* Theorems about the configuration, for every set of threads and every    *)
(* assignment of calls to them: config_lock is given back, what is not     *)
(* saved is marked so, what was saved survives, the ADAS warnings stay     *)
(* whole.                                                                  *)
(***************************************************************************)
EXTENDS ConfigStore, SequenceTheorems, FiniteSetTheorems, TLAPS

(***************************************************************************)
(* The configuration.  What its proofs need of the programs: config_lock   *)
(* is taken once at most and given back at the end, nothing returns early  *)
(* with it, and the ADAS warnings are changed under it, together, except   *)
(* by the function that sets them one by one and by the user interface.    *)
(***************************************************************************)
Warnings == {"adasWarning1", "adasWarning2"}
Changing == {"store", "persist"}

StepType ==
  [do : {"get", "store", "persist", "need", "SaveParam", "SaveLocalParam",
         "SaveDriverInfo"}, on : SUBSET Field]
HeldType == {s \in StepType : s.do # "need"}
PlainStep == {s \in StepType : s.do \in Changing => s.on \cap Warnings = {}}
Saves == {"SaveParam", "SaveLocalParam"}
QuietStep == {s \in PlainStep : s.do \notin Saves}
HeldStep ==
  {s \in HeldType : s.do \in Changing => s.on \cap Warnings = {} \/
                                         (s.do = "store" /\ Warnings \subseteq s.on)}
Lock == [do |-> "lock", on |-> {}]
Unlock == [do |-> "unlock", on |-> {}]

\* What is left of a program that holds the lock, and of one that does not; the steps
\* of the latter are from P, those under the lock from H.
Inside(H, p) == \E b \in Seq(H) : p = b \o <<Unlock>>
Outside(P, H, p) ==
  \/ p \in Seq(P)
  \/ \E a \in Seq(P) : \E q : Inside(H, q) /\ p = a \o (<<Lock>> \o q)

LEMMA LastItem ==
  ASSUME NEW S, NEW s \in Seq(S), NEW u \in Seq(S), Len(u) = Len(s) + 1,
         \A i \in 1 .. Len(s) : u[i] = s[i], NEW x, x = u[Len(u)]
  PROVE  s \o <<x>> = u
<1>1. x \in S /\ <<x>> \in Seq(S) /\ Len(<<x>>) = 1 /\ <<x>>[1] = x /\ Len(s) \in Nat
  BY LenProperties
<1>2. /\ s \o <<x>> \in Seq(S) /\ Len(s \o <<x>>) = Len(s) + 1
      /\ \A i \in 1 .. Len(s) + 1 : (s \o <<x>>)[i] = IF i <= Len(s) THEN s[i] ELSE <<x>>[i - Len(s)]
  BY <1>1, ConcatProperties
<1>3. \A i \in 1 .. Len(u) : (s \o <<x>>)[i] = u[i]
  <2>1. ASSUME NEW i \in 1 .. Len(u)
        PROVE  (s \o <<x>>)[i] = u[i]
    <3>1. CASE i <= Len(s)
      BY <1>1, <1>2, <3>1
    <3>2. CASE i = Len(s) + 1
      <4>1. i - Len(s) = 1 /\ ~(i <= Len(s)) /\ u[i] = x
        BY <1>1, <3>2
      <4>. QED BY <1>1, <1>2, <4>1
    <3>. QED BY <1>1, <3>1, <3>2
  <2>. QED BY <2>1
<1>. QED BY <1>2, <1>3, SeqEqual

LEMMA Tuples ==
  /\ \A a, b : <<a>> \o <<b>> = <<a, b>>
  /\ \A a, b, c : <<a, b>> \o <<c>> = <<a, b, c>>
  /\ \A a, b, c, d : <<a, b, c>> \o <<d>> = <<a, b, c, d>>
  /\ \A a, b, c, d, e : <<a, b, c, d>> \o <<e>> = <<a, b, c, d, e>>
<1>1. ASSUME NEW a, NEW b PROVE <<a>> \o <<b>> = <<a, b>>
  <2> DEFINE s == <<a>> u == <<a, b>> S == {a, b}
  <2>1. s \in Seq(S) /\ u \in Seq(S) /\ Len(s) = 1 /\ Len(u) = 2
        /\ u[1] = s[1] /\ u[2] = b
    OBVIOUS
  <2>2. \A i \in 1 .. 1 : i = 1
    OBVIOUS
  <2> HIDE DEF s, u, S
  <2>3. (\A i \in 1 .. Len(s) : u[i] = s[i]) /\ Len(u) = Len(s) + 1 /\ b = u[Len(u)]
    BY <2>1, <2>2
  <2>4. s \o <<b>> = u
    BY <2>1, <2>3, LastItem
  <2>. QED BY <2>4 DEF s, u
<1>2. ASSUME NEW a, NEW b, NEW c PROVE <<a, b>> \o <<c>> = <<a, b, c>>
  <2> DEFINE s == <<a, b>> u == <<a, b, c>> S == {a, b, c}
  <2>1. s \in Seq(S) /\ u \in Seq(S) /\ Len(s) = 2 /\ Len(u) = 3
        /\ u[1] = s[1] /\ u[2] = s[2] /\ u[3] = c
    OBVIOUS
  <2>2. \A i \in 1 .. 2 : i = 1 \/ i = 2
    OBVIOUS
  <2> HIDE DEF s, u, S
  <2>3. (\A i \in 1 .. Len(s) : u[i] = s[i]) /\ Len(u) = Len(s) + 1 /\ c = u[Len(u)]
    BY <2>1, <2>2
  <2>4. s \o <<c>> = u
    BY <2>1, <2>3, LastItem
  <2>. QED BY <2>4 DEF s, u
<1>3. ASSUME NEW a, NEW b, NEW c, NEW d PROVE <<a, b, c>> \o <<d>> = <<a, b, c, d>>
  <2> DEFINE s == <<a, b, c>> u == <<a, b, c, d>> S == {a, b, c, d}
  <2>1. s \in Seq(S) /\ u \in Seq(S) /\ Len(s) = 3 /\ Len(u) = 4
        /\ u[1] = s[1] /\ u[2] = s[2] /\ u[3] = s[3] /\ u[4] = d
    OBVIOUS
  <2>2. \A i \in 1 .. 3 : i = 1 \/ i = 2 \/ i = 3
    OBVIOUS
  <2> HIDE DEF s, u, S
  <2>3. (\A i \in 1 .. Len(s) : u[i] = s[i]) /\ Len(u) = Len(s) + 1 /\ d = u[Len(u)]
    BY <2>1, <2>2
  <2>4. s \o <<d>> = u
    BY <2>1, <2>3, LastItem
  <2>. QED BY <2>4 DEF s, u
<1>4. ASSUME NEW a, NEW b, NEW c, NEW d, NEW e
      PROVE  <<a, b, c, d>> \o <<e>> = <<a, b, c, d, e>>
  <2> DEFINE s == <<a, b, c, d>> u == <<a, b, c, d, e>> S == {a, b, c, d, e}
  <2>1. s \in Seq(S) /\ u \in Seq(S) /\ Len(s) = 4 /\ Len(u) = 5
        /\ u[1] = s[1] /\ u[2] = s[2] /\ u[3] = s[3] /\ u[4] = s[4] /\ u[5] = e
    OBVIOUS
  <2>2. \A i \in 1 .. 4 : i = 1 \/ i = 2 \/ i = 3 \/ i = 4
    OBVIOUS
  <2> HIDE DEF s, u, S
  <2>3. (\A i \in 1 .. Len(s) : u[i] = s[i]) /\ Len(u) = Len(s) + 1 /\ e = u[Len(u)]
    BY <2>1, <2>2
  <2>4. s \o <<e>> = u
    BY <2>1, <2>3, LastItem
  <2>. QED BY <2>4 DEF s, u
<1>. QED BY <1>1, <1>2, <1>3, <1>4
LEMMA StepIsPlain ==
  /\ \A on \in SUBSET Field :
       Read(on) \in Seq(PlainStep) /\ Need(on) \in Seq(PlainStep) /\ Read(on) \in Seq(HeldStep)
  /\ \A on \in SUBSET (Field \ Warnings) :
       Store(on) \in Seq(PlainStep) /\ Store(on) \in Seq(HeldStep)
  /\ \A on \in SUBSET Field : Warnings \subseteq on => Store(on) \in Seq(HeldStep)
  /\ \A f \in Field \ Warnings : Persist(f) \in Seq(PlainStep)
  /\ SaveParam \in Seq(PlainStep) /\ SaveLocalParam \in Seq(PlainStep)
  /\ Step("SaveDriverInfo", {}) \in Seq(PlainStep)
  /\ \A on \in SUBSET Field : Read(on) \in Seq(QuietStep) /\ Need(on) \in Seq(QuietStep)
  /\ \A on \in SUBSET (Field \ Warnings) : Store(on) \in Seq(QuietStep)
  /\ Step("SaveDriverInfo", {}) \in Seq(QuietStep)
<1>1. \A s \in PlainStep : <<s>> \in Seq(PlainStep)
  OBVIOUS
<1>2. \A s \in HeldStep : <<s>> \in Seq(HeldStep)
  OBVIOUS
<1>3. \A on \in SUBSET Field :
        [do |-> "get", on |-> on] \in PlainStep /\ [do |-> "need", on |-> on] \in PlainStep
        /\ [do |-> "get", on |-> on] \in HeldStep
  BY DEF PlainStep, HeldStep, HeldType, StepType, Changing
<1>4. \A on \in SUBSET (Field \ Warnings) :
        /\ [do |-> "store", on |-> on] \in PlainStep
        /\ [do |-> "store", on |-> on] \in HeldStep
        /\ [do |-> "persist", on |-> on] \in PlainStep
  BY DEF PlainStep, HeldStep, HeldType, StepType, Changing
<1>5. \A on \in SUBSET Field : Warnings \subseteq on => [do |-> "store", on |-> on] \in HeldStep
  BY DEF HeldStep, HeldType, StepType, Changing
<1>6. \A what \in {"SaveParam", "SaveLocalParam", "SaveDriverInfo"} :
        [do |-> what, on |-> {}] \in PlainStep
  BY DEF PlainStep, StepType, Changing
<1>7. \A f \in Field \ Warnings : [do |-> "persist", on |-> {f}] \in PlainStep
  BY <1>4
<1>8. \A s \in QuietStep : <<s>> \in Seq(QuietStep)
  OBVIOUS
<1>9. /\ \A what \in {"get", "need"} : \A on \in SUBSET Field :
           [do |-> what, on |-> on] \in QuietStep
      /\ \A on \in SUBSET (Field \ Warnings) : [do |-> "store", on |-> on] \in QuietStep
      /\ [do |-> "SaveDriverInfo", on |-> {}] \in QuietStep
  BY <1>3, <1>4, <1>6 DEF QuietStep, Saves
<1>10. /\ \A on \in SUBSET Field : Read(on) \in Seq(QuietStep) /\ Need(on) \in Seq(QuietStep)
       /\ \A on \in SUBSET (Field \ Warnings) : Store(on) \in Seq(QuietStep)
       /\ Step("SaveDriverInfo", {}) \in Seq(QuietStep)
  BY <1>8, <1>9 DEF Step, Read, Need, Store
<1>. QED
  BY <1>1, <1>2, <1>3, <1>4, <1>5, <1>6, <1>7, <1>10
  DEF Step, Read, Need, Store, Persist, SaveParam, SaveLocalParam

LEMMA LockedOutside ==
  ASSUME NEW P, NEW H, NEW b \in Seq(H)
  PROVE  /\ Outside(P, H, Locked(b))
         /\ \A a \in Seq(P) : Outside(P, H, a \o Locked(b))
<1> DEFINE q == b \o <<Unlock>>
           S == P \cup H \cup {Lock, Unlock}
<1>1. Inside(H, q)
  BY DEF Inside
<1>2. Locked(b) = <<Lock>> \o q
  <2>1. b \in Seq(S) /\ <<Lock>> \in Seq(S) /\ <<Unlock>> \in Seq(S)
    BY SeqMonotonic
  <2>2. Locked(b) = (<<Lock>> \o b) \o <<Unlock>>
    BY DEF Locked, Step, Lock, Unlock
  <2>. QED BY <2>1, <2>2, ConcatAssociative
<1>3. \A a \in Seq(P) : Outside(P, H, a \o Locked(b))
  BY <1>1, <1>2 DEF Outside
<1>4. <<>> \in Seq(P) /\ <<>> \o Locked(b) = Locked(b)
  <2>1. b \in Seq(S) /\ <<Lock>> \in Seq(S) /\ <<Unlock>> \in Seq(S)
    BY SeqMonotonic
  <2>2. Locked(b) \in Seq(S)
    BY <1>2, <2>1, ConcatProperties
  <2>. QED BY <2>2, ConcatEmptySeq
<1>. QED BY <1>3, <1>4

LEMMA OutsideMonotonic ==
  ASSUME NEW P, NEW Q, P \subseteq Q, NEW H, NEW J, H \subseteq J, NEW p, Outside(P, H, p)
  PROVE  Outside(Q, J, p)
<1>1. Seq(P) \subseteq Seq(Q) /\ Seq(H) \subseteq Seq(J)
  BY SeqMonotonic
<1>. QED BY <1>1 DEF Outside, Inside

\* The fields.
LEMMA Fields ==
  /\ PersistFields \subseteq Field \ Warnings /\ MainFields \subseteq Field \ Warnings
  /\ DeviceFields \cup DebugFields \cup DmsFields \subseteq Field \ Warnings
  /\ Warnings \subseteq AdasFields /\ AdasFields \subseteq AbdFields
  /\ AbdFields \subseteq Field /\ "marks" \in Field \ Warnings
  /\ "adasCalib" \in Field \ Warnings
<1>1. MainFields \cap Warnings = {} /\ PersistFields \cap Warnings = {}
      /\ (DeviceFields \cup DebugFields \cup DmsFields) \cap Warnings = {}
      /\ "marks" \notin Warnings /\ "adasCalib" \notin Warnings
  BY DEF MainFields, PersistFields, DeviceFields, DebugFields, DmsFields, Warnings
<1>. QED BY <1>1 DEF Warnings, AdasFields, AbdFields, DefaultedFields, Field

Plain(programs) == \A p \in programs : p \in Seq(PlainStep)

LEMMA PlainConcat ==
  ASSUME NEW p \in Seq(PlainStep), NEW q \in Seq(PlainStep)
  PROVE  p \o q \in Seq(PlainStep)
  BY ConcatProperties

LEMMA OfKitPlain ==
  ASSUME NEW programs, Plain(programs)
  PROVE  Plain(OfKit(programs))
<1>1. Need({"createkit"}) \in Seq(PlainStep)
  BY StepIsPlain, Fields DEF PersistFields
<1>2. <<>> \in Seq(PlainStep)
  OBVIOUS
<1>3. \A p \in programs : Need({"createkit"}) \o p \in Seq(PlainStep)
  BY <1>1, PlainConcat DEF Plain
<1>. QED BY <1>2, <1>3 DEF OfKit, Plain

LEMMA KitPrograms ==
  /\ Plain(rk_create_kit) /\ Plain(rk_get_incident_images) /\ Plain(rk_get_device_info)
  /\ Plain(rk_get_current_location) /\ Plain(rk_get_health_check)
  /\ Plain(rk_config_device_settings) /\ Plain(rk_create_incident)
  /\ Plain(rk_check_cameras)
<1>1. \A f \in PersistFields : Persist(f) \in Seq(PlainStep)
  BY StepIsPlain, Fields
<1>2. SaveParam \in Seq(PlainStep) /\ <<>> \in Seq(PlainStep)
  BY StepIsPlain
<1>3. \A f \in PersistFields : Persist(f) \o SaveParam \in Seq(PlainStep)
  BY <1>1, <1>2, PlainConcat
<1>4. Plain(rk_create_kit)
  <2>1. Persist("brandId") \in Seq(PlainStep) /\ Persist("createkit") \in Seq(PlainStep)
    BY <1>1 DEF PersistFields
  <2>2. Persist("brandId") \o Persist("createkit") \o SaveParam \in Seq(PlainStep)
    BY <1>2, <2>1, PlainConcat
  <2>. QED BY <2>1, <2>2 DEF rk_create_kit, Plain
<1>5. Plain(rk_get_incident_images)
  <2>1. Plain({Persist("imagerequest"), Persist("imagerequest") \o SaveParam})
    BY <1>1, <1>3 DEF Plain, PersistFields
  <2>. QED BY <2>1, OfKitPlain DEF rk_get_incident_images
<1>6. Plain(rk_get_device_info) /\ Plain(rk_get_current_location)
  <2>1. Plain({Persist("location") \o SaveParam})
    BY <1>3 DEF Plain, PersistFields
  <2>. QED BY <2>1, OfKitPlain DEF rk_get_device_info, rk_get_current_location
<1>7. Plain(rk_get_health_check)
  <2>1. {"createkit", "settings"} \in SUBSET Field
    BY Fields DEF PersistFields
  <2>2. Read({"createkit", "settings"}) \in Seq(PlainStep)
    BY <2>1, StepIsPlain
  <2>3. Plain({Read({"createkit", "settings"})})
    BY <2>2 DEF Plain
  <2>. QED BY <2>3, OfKitPlain DEF rk_get_health_check
<1>8. Plain(rk_config_device_settings)
  <2>1. Plain({Persist("settings") \o SaveParam})
    BY <1>3 DEF Plain, PersistFields
  <2>. QED BY <2>1, OfKitPlain DEF rk_config_device_settings
<1>9. Plain(rk_create_incident)
  <2>1. {"createkit", "location"} \in SUBSET Field
    BY Fields DEF PersistFields
  <2>2. Need({"createkit", "location"}) \in Seq(PlainStep)
    BY <2>1, StepIsPlain
  <2>3. Persist("incident") \in Seq(PlainStep)
        /\ Persist("incidentIds") \o SaveParam \in Seq(PlainStep)
    BY <1>1, <1>3 DEF PersistFields
  <2>4. Need({"createkit", "location"}) \o Persist("incident") \in Seq(PlainStep)
    BY <2>2, <2>3, PlainConcat
  <2>5. \A rest \in {<<>>, Persist("incidentIds") \o SaveParam} :
          Need({"createkit", "location"}) \o Persist("incident") \o rest \in Seq(PlainStep)
    BY <1>2, <2>3, <2>4, PlainConcat
  <2>. QED BY <1>2, <2>5 DEF rk_create_incident, Plain
<1>10. Plain(rk_check_cameras)
  <2>1. {"createkit"} \in SUBSET Field
    BY Fields DEF PersistFields
  <2>2. Plain({Read({"createkit"})})
    BY <2>1, StepIsPlain DEF Plain
  <2>. QED BY <2>2, OfKitPlain DEF rk_check_cameras
<1>. QED BY <1>4, <1>5, <1>6, <1>7, <1>8, <1>9, <1>10

\* The functions that read or store, and perhaps save, without the lock.
LEMMA SettingPrograms ==
  /\ Plain(rk_adas_get_preview_config) /\ Plain(rk_adas_set_preview_config)
  /\ Plain(rk_dms_get_config) /\ Plain(rk_dms_set_config)
  /\ Plain(rk_get_debug_feature_config) /\ Plain(rk_set_debug_feature_config)
  /\ Plain(rk_capture_get_records) /\ Plain(rk_get_product_info)
  /\ Plain(rk_set_device_config) /\ Plain(rk_get_device_config)
  /\ Plain(rk_driver_get_list) /\ Plain(rk_driver_register)
  /\ Plain(rk_verify_get_records) /\ Plain(rk_capture_set_config)
  /\ Plain(rk_capture_get_config) /\ Plain(rk_clear_driver_register_info)
  /\ Plain(SystemGlobal_SetAllconfigDefAdasCH) /\ Plain(SaveDriverInfoToFile)
<1> DEFINE Safe == {"adasCalib", "dms", "debug", "automangeset", "records", "productinfo",
                    "devicecfg", "drivlist", "capture", "algorithm"}
<1>1. Safe \subseteq Field \ Warnings
  <2>1. "automangeset" \in MainFields
    BY DEF MainFields
  <2>2. Safe \subseteq {"adasCalib", "automangeset"} \cup DeviceFields \cup DebugFields
                         \cup DmsFields
    BY DEF DeviceFields, DebugFields, DmsFields
  <2>. QED BY <2>1, <2>2, Fields
<1>2. \A on \in SUBSET Safe : Read(on) \in Seq(PlainStep) /\ Store(on) \in Seq(PlainStep)
  BY <1>1, StepIsPlain
<1>3. \A on \in SUBSET Safe :
        /\ Read(on) \o SaveLocalParam \in Seq(PlainStep)
        /\ Store(on) \o SaveLocalParam \in Seq(PlainStep)
  BY <1>2, StepIsPlain, PlainConcat
<1>4. /\ Plain(rk_adas_get_preview_config) /\ Plain(rk_dms_get_config)
      /\ Plain(rk_get_debug_feature_config) /\ Plain(rk_capture_get_records)
      /\ Plain(rk_get_product_info) /\ Plain(rk_get_device_config)
      /\ Plain(rk_driver_get_list) /\ Plain(rk_verify_get_records)
  BY <1>2 DEF Plain, rk_adas_get_preview_config, rk_dms_get_config,
     rk_get_debug_feature_config, rk_capture_get_records, rk_get_product_info,
     rk_get_device_config, rk_driver_get_list, rk_verify_get_records
<1>5. /\ Plain(rk_driver_register) /\ Plain(rk_capture_set_config)
      /\ Plain(rk_clear_driver_register_info) /\ Plain(SystemGlobal_SetAllconfigDefAdasCH)
  BY <1>2 DEF Plain, rk_driver_register, rk_capture_set_config,
     rk_clear_driver_register_info, SystemGlobal_SetAllconfigDefAdasCH
<1>6. /\ Plain(rk_adas_set_preview_config) /\ Plain(rk_dms_set_config)
      /\ Plain(rk_set_debug_feature_config) /\ Plain(rk_set_device_config)
      /\ Plain(rk_capture_get_config)
  BY <1>3 DEF Plain, rk_adas_set_preview_config, rk_dms_set_config,
     rk_set_debug_feature_config, rk_set_device_config, rk_capture_get_config
<1>7. Plain(SaveDriverInfoToFile)
  BY StepIsPlain DEF Plain, SaveDriverInfoToFile
<1>. QED BY <1>4, <1>5, <1>6, <1>7

\* The functions with the lock that leave the warnings whole.
Apart(programs) == \A p \in programs : Outside(PlainStep, HeldStep, p)

LEMMA PlainApart ==
  ASSUME NEW programs, Plain(programs)
  PROVE  Apart(programs)
  BY DEF Plain, Apart, Outside

\* Those that save nothing without the lock.
Quiet(programs) == \A p \in programs : Outside(QuietStep, HeldStep, p)

LEMMA QuietApart ==
  ASSUME NEW programs, Quiet(programs)
  PROVE  Apart(programs)
<1>1. QuietStep \subseteq PlainStep
  BY DEF QuietStep
<1>. QED BY <1>1, OutsideMonotonic DEF Quiet, Apart

LEMMA QuietPrograms ==
  /\ Quiet(rk_get_health_check) /\ Quiet(rk_check_cameras)
  /\ Quiet(rk_adas_get_preview_config) /\ Quiet(rk_dms_get_config)
  /\ Quiet(rk_get_debug_feature_config) /\ Quiet(rk_capture_get_records)
  /\ Quiet(rk_get_product_info) /\ Quiet(rk_get_device_config)
  /\ Quiet(rk_driver_get_list) /\ Quiet(rk_driver_register)
  /\ Quiet(rk_verify_get_records) /\ Quiet(rk_capture_set_config)
  /\ Quiet(rk_clear_driver_register_info)
  /\ Quiet(SystemGlobal_SetAllconfigDefAdasCH) /\ Quiet(SaveDriverInfoToFile)
<1> DEFINE Safe == {"adasCalib", "dms", "debug", "automangeset", "records", "productinfo",
                    "devicecfg", "drivlist", "capture", "algorithm"}
           Kit == {"createkit", "settings"}
<1>1. Safe \subseteq Field \ Warnings /\ Kit \subseteq Field
  <2>1. "automangeset" \in MainFields /\ Kit \subseteq PersistFields
    BY DEF MainFields, PersistFields
  <2>2. Safe \subseteq {"adasCalib", "automangeset"} \cup DeviceFields \cup DebugFields
                         \cup DmsFields
    BY DEF DeviceFields, DebugFields, DmsFields
  <2>. QED BY <2>1, <2>2, Fields
<1>2. \A on \in SUBSET Safe : Read(on) \in Seq(QuietStep) /\ Store(on) \in Seq(QuietStep)
  BY <1>1, StepIsPlain
<1>3. \A on \in SUBSET Kit : Read(on) \in Seq(QuietStep) /\ Need(on) \in Seq(QuietStep)
  BY <1>1, StepIsPlain
<1>4. \A on \in SUBSET Kit :
        /\ <<>> \in Seq(QuietStep)
        /\ Need({"createkit"}) \o Read(on) \in Seq(QuietStep)
  BY <1>3, ConcatProperties
<1>5. Quiet(rk_get_health_check) /\ Quiet(rk_check_cameras)
  <2>1. {"createkit"} \in SUBSET Kit
    OBVIOUS
  <2>. QED BY <1>4, <2>1 DEF OfKit, rk_get_health_check, rk_check_cameras, Quiet, Outside
<1>6. /\ Quiet(rk_adas_get_preview_config) /\ Quiet(rk_dms_get_config)
      /\ Quiet(rk_get_debug_feature_config) /\ Quiet(rk_capture_get_records)
      /\ Quiet(rk_get_product_info) /\ Quiet(rk_get_device_config)
      /\ Quiet(rk_driver_get_list) /\ Quiet(rk_verify_get_records)
  BY <1>2 DEF Quiet, Outside, rk_adas_get_preview_config, rk_dms_get_config,
     rk_get_debug_feature_config, rk_capture_get_records, rk_get_product_info,
     rk_get_device_config, rk_driver_get_list, rk_verify_get_records
<1>7. /\ Quiet(rk_driver_register) /\ Quiet(rk_capture_set_config)
      /\ Quiet(rk_clear_driver_register_info) /\ Quiet(SystemGlobal_SetAllconfigDefAdasCH)
  BY <1>2 DEF Quiet, Outside, rk_driver_register, rk_capture_set_config,
     rk_clear_driver_register_info, SystemGlobal_SetAllconfigDefAdasCH
<1>8. Quiet(SaveDriverInfoToFile)
  BY StepIsPlain DEF Quiet, Outside, SaveDriverInfoToFile
<1>. QED BY <1>5, <1>6, <1>7, <1>8

LEMMA LockedPrograms ==
  /\ Quiet(rk_get_running_status) /\ Quiet(rk_storage_get_stream_config)
  /\ Quiet(rk_storage_set_stream_config) /\ Quiet(rk_storage_get_config)
  /\ Quiet(rk_storage_set_config)
<1>1. \A on \in SUBSET DeviceFields :
        Read(on) \in Seq(HeldStep) /\ Store(on) \in Seq(HeldStep)
  BY StepIsPlain, Fields
<1>2. {"runstatus"} \in SUBSET DeviceFields /\ {"stream"} \in SUBSET DeviceFields
      /\ {"storage"} \in SUBSET DeviceFields
  BY DEF DeviceFields
<1>3. \A on \in SUBSET DeviceFields :
        /\ Outside(QuietStep, HeldStep, Locked(Read(on)))
        /\ Outside(QuietStep, HeldStep, Locked(Store(on)))
  BY <1>1, LockedOutside
<1>. QED BY <1>2, <1>3 DEF Quiet, rk_get_running_status, rk_storage_get_stream_config,
     rk_storage_set_stream_config, rk_storage_get_config, rk_storage_set_config

LEMMA PagePrograms == Quiet(DVR_GetConfig) /\ Quiet(DVR_SetConfig)
<1>1. SystemGlobal_GetAllconfigDefContext \in Seq(QuietStep)
  <2>1. {"commonset"} \in SUBSET (Field \ Warnings)
    BY Fields DEF MainFields
  <2>. QED BY <2>1, StepIsPlain DEF SystemGlobal_GetAllconfigDefContext
<1>2. \A p \in Seq(HeldStep) :
        Outside(QuietStep, HeldStep, SystemGlobal_GetAllconfigDefContext \o Locked(p))
  BY <1>1, LockedOutside
<1>3. <<>> \in Seq(HeldStep)
  OBVIOUS
<1>4. \A f \in MainFields : Read({f}) \in Seq(HeldStep) /\ Store({f}) \in Seq(HeldStep)
  BY StepIsPlain, Fields
<1>5. Read(AbdFields) \in Seq(HeldStep) /\ Store(AbdFields) \in Seq(HeldStep)
      /\ Store(AdasFields) \in Seq(HeldStep) /\ Store({"marks"}) \in Seq(HeldStep)
  <2>1. Warnings \subseteq AbdFields /\ AdasFields \subseteq Field
    BY Fields
  <2>. QED BY <2>1, StepIsPlain, Fields
<1>6. Store({"marks"}) \o Store(AdasFields) \in Seq(HeldStep)
  BY <1>5, ConcatProperties
<1>7. \A p \in GetGeneral \cup GetChannels \cup GetPlatform \cup {Read(AbdFields), <<>>} :
        p \in Seq(HeldStep)
  <2>1. \A p \in GetGeneral \cup GetChannels \cup GetPlatform :
          \E f \in MainFields : p = Read({f})
    BY DEF GetGeneral, GetChannels, GetPlatform, MainFields
  <2>. QED BY <1>3, <1>4, <1>5, <2>1
<1>8. \A p \in SetGeneral \cup SetChannels \cup SetPlatform \cup SetAbdParam :
        p \in Seq(HeldStep)
  <2>1. \A p \in SetGeneral \cup SetChannels \cup SetPlatform :
          \E f \in MainFields : p = Store({f})
    BY DEF SetGeneral, SetChannels, SetPlatform, MainFields
  <2>2. \A p \in SetAbdParam : p \in Seq(HeldStep)
    BY <1>3, <1>5, <1>6 DEF SetAbdParam
  <2>. QED BY <1>4, <2>1, <2>2
<1>. QED BY <1>2, <1>7, <1>8 DEF Quiet, DVR_GetConfig, DVR_SetConfig

\* The functions of the warnings, and the user interface, which sends all fields.
Get1 == [do |-> "get", on |-> {"adasWarning1"}]
Get2 == [do |-> "get", on |-> {"adasWarning2"}]
Store1 == [do |-> "store", on |-> {"adasWarning1"}]
Store2 == [do |-> "store", on |-> {"adasWarning2"}]
Save1 == [do |-> "SaveLocalParam", on |-> {}]

LEMMA WarningPrograms ==
  /\ Locked(<<Get1, Get2>>) = <<Lock, Get1, Get2, Unlock>>
  /\ Locked(<<Store1, Store2, Save1>>) = <<Lock, Store1, Store2, Save1, Unlock>>
  /\ rk_adas_get_config = {<<Lock, Get1, Get2, Unlock>>}
  /\ rk_adas_set_config = {<<Lock, Store1, Store2, Save1, Unlock>>}
<1> DEFINE S == {Lock, Unlock, Get1, Get2, Store1, Store2, Save1}
<1>1. \A p : Locked(p) = (<<Lock>> \o p) \o <<Unlock>>
  BY DEF Locked, Step, Lock, Unlock
<1>2. \A x \in S : <<x>> \in Seq(S)
  OBVIOUS
<1>3. <<Get1, Get2>> \in Seq(S) /\ <<Store1, Store2>> \in Seq(S)
  OBVIOUS
<1>4. /\ <<Get1>> \o <<Get2>> = <<Get1, Get2>> /\ <<Lock>> \o <<Get1>> = <<Lock, Get1>>
      /\ <<Lock, Get1>> \o <<Get2>> = <<Lock, Get1, Get2>>
      /\ <<Lock, Get1, Get2>> \o <<Unlock>> = <<Lock, Get1, Get2, Unlock>>
  BY Tuples, ZenonT(30)
<1>5. /\ <<Store1>> \o <<Store2>> = <<Store1, Store2>>
      /\ <<Store1, Store2>> \o <<Save1>> = <<Store1, Store2, Save1>>
      /\ <<Lock>> \o <<Store1>> = <<Lock, Store1>>
      /\ <<Lock, Store1>> \o <<Store2>> = <<Lock, Store1, Store2>>
      /\ <<Lock, Store1, Store2>> \o <<Save1>> = <<Lock, Store1, Store2, Save1>>
      /\ <<Lock, Store1, Store2, Save1>> \o <<Unlock>>
           = <<Lock, Store1, Store2, Save1, Unlock>>
  <2>1. /\ <<Store1>> \o <<Store2>> = <<Store1, Store2>>
        /\ <<Store1, Store2>> \o <<Save1>> = <<Store1, Store2, Save1>>
        /\ <<Lock>> \o <<Store1>> = <<Lock, Store1>>
    BY Tuples, Zenon
  <2>2. <<Lock, Store1>> \o <<Store2>> = <<Lock, Store1, Store2>>
    BY Tuples, Zenon
  <2>3. <<Lock, Store1, Store2>> \o <<Save1>> = <<Lock, Store1, Store2, Save1>>
    BY Tuples, ZenonT(30)
  <2>4. <<Lock, Store1, Store2, Save1>> \o <<Unlock>>
          = <<Lock, Store1, Store2, Save1, Unlock>>
    <3>1. \A a, b, c, d, e : <<a, b, c, d>> \o <<e>> = <<a, b, c, d, e>>
      BY Tuples
    <3>. QED BY <3>1, ZenonT(30)
  <2>. QED BY <2>1, <2>2, <2>3, <2>4
<1>6. <<Lock>> \o <<Get1, Get2>> = <<Lock, Get1, Get2>>
  <2>1. <<Lock>> \o (<<Get1>> \o <<Get2>>) = (<<Lock>> \o <<Get1>>) \o <<Get2>>
    BY <1>2, ConcatAssociative
  <2>. QED BY <1>4, <2>1, Zenon
<1>7. <<Lock>> \o <<Store1, Store2>> = <<Lock, Store1, Store2>>
  <2>1. <<Lock>> \o (<<Store1>> \o <<Store2>>) = (<<Lock>> \o <<Store1>>) \o <<Store2>>
    BY <1>2, ConcatAssociative
  <2>. QED BY <1>5, <2>1, Zenon
<1>8. <<Lock>> \o <<Store1, Store2, Save1>> = <<Lock, Store1, Store2, Save1>>
  <2>1. <<Lock>> \o (<<Store1, Store2>> \o <<Save1>>)
          = (<<Lock>> \o <<Store1, Store2>>) \o <<Save1>>
    BY <1>2, <1>3, ConcatAssociative
  <2>. QED BY <1>5, <1>7, <2>1, Zenon
<1>9. Locked(<<Get1, Get2>>) = <<Lock, Get1, Get2, Unlock>>
  BY <1>1, <1>4, <1>6, Zenon
<1>10. Locked(<<Store1, Store2, Save1>>) = <<Lock, Store1, Store2, Save1, Unlock>>
  BY <1>1, <1>5, <1>8, Zenon
<1>11. rk_adas_get_config = {Locked(<<Get1>> \o <<Get2>>)}
  BY DEF rk_adas_get_config, Read, Step, Get1, Get2
<1>12. rk_adas_set_config = {Locked((<<Store1>> \o <<Store2>>) \o <<Save1>>)}
  BY DEF rk_adas_set_config, Store, Step, SaveLocalParam, Store1, Store2, Save1
<1>13. rk_adas_get_config = {<<Lock, Get1, Get2, Unlock>>}
  BY <1>4, <1>9, <1>11, Zenon
<1>14. rk_adas_set_config = {<<Lock, Store1, Store2, Save1, Unlock>>}
  BY <1>5, <1>10, <1>12, Zenon
<1>. QED BY <1>9, <1>10, <1>13, <1>14

LEMMA WarningsOutside ==
  \A op \in {rk_adas_get_config, rk_adas_set_config} : \A p \in op :
     Outside(StepType, HeldType, p)
<1>1. /\ Get1 \in HeldType /\ Get2 \in HeldType /\ Store1 \in HeldType
      /\ Store2 \in HeldType /\ Save1 \in HeldType
  <2>1. {"adasWarning1"} \in SUBSET Field /\ {"adasWarning2"} \in SUBSET Field
    BY Fields DEF Warnings
  <2>. QED BY <2>1 DEF HeldType, StepType, Get1, Get2, Store1, Store2, Save1
<1>2. <<Get1, Get2>> \in Seq(HeldType) /\ <<Store1, Store2, Save1>> \in Seq(HeldType)
  BY <1>1
<1>3. \A b \in Seq(HeldType) : Outside(StepType, HeldType, Locked(b))
  BY LockedOutside
<1>. QED BY <1>2, <1>3, WarningPrograms

LEMMA InterfacePrograms ==
  \A p \in SystemGlobal_Get_Config_Param : Outside(StepType, HeldType, p)
<1> DEFINE N == GeneralMessages \o ChannelMessages \o PlatformMessages
<1>1. \A f \in MainFields : {f} \in SUBSET Field
  BY Fields
<1>2. UIMessages \in Seq(SUBSET Field)
  <2>1. GeneralMessages \in Seq(SUBSET Field)
    BY <1>1 DEF GeneralMessages, MainFields
  <2>2. ChannelMessages \in Seq(SUBSET Field)
    BY <1>1 DEF ChannelMessages, MainFields
  <2>3. PlatformMessages \in Seq(SUBSET Field)
    BY <1>1, Fields DEF PlatformMessages, MainFields
  <2>. QED BY <2>1, <2>2, <2>3, ConcatProperties DEF UIMessages
<1>3. \A on \in SUBSET Field : Read(on)[1] \in StepType /\ Store(on)[1] \in StepType
  BY DEF Read, Store, Step, StepType
<1>4. ASSUME NEW bad
      PROVE  [i \in DOMAIN UIMessages |->
                IF i = bad THEN Read(UIMessages[i])[1] ELSE Store(UIMessages[i])[1]]
             \in Seq(StepType)
  <2>1. /\ DOMAIN UIMessages = 1 .. Len(UIMessages) /\ Len(UIMessages) \in Nat
        /\ \A i \in DOMAIN UIMessages : UIMessages[i] \in SUBSET Field
    BY <1>2, LenProperties
  <2>2. \A i \in DOMAIN UIMessages :
          (IF i = bad THEN Read(UIMessages[i])[1] ELSE Store(UIMessages[i])[1]) \in StepType
    BY <1>3, <2>1
  <2>3. [i \in DOMAIN UIMessages |->
           IF i = bad THEN Read(UIMessages[i])[1] ELSE Store(UIMessages[i])[1]]
        \in [1 .. Len(UIMessages) -> StepType]
    BY <2>1, <2>2
  <2>. QED BY <2>1, <2>3, SeqDef
<1>. QED BY <1>4 DEF SystemGlobal_Get_Config_Param, Outside

Special == {"rk_adas_get_config", "rk_adas_set_config", "SystemGlobal_Get_Config_Param"}

\* The functions that save without the lock.
PlainSavers ==
  {"rk_create_kit", "rk_get_incident_images", "rk_get_device_info", "rk_get_current_location",
   "rk_config_device_settings", "rk_create_incident", "rk_adas_set_preview_config",
   "rk_dms_set_config", "rk_set_debug_feature_config", "rk_set_device_config",
   "rk_capture_get_config"}

LEMMA Programs ==
  /\ \A op \in DOMAIN Function \ Special : Apart(Function[op])
  /\ \A op \in DOMAIN Function \ (Special \cup PlainSavers) : Quiet(Function[op])
  /\ \A op \in DOMAIN Function : \A p \in Function[op] : Outside(StepType, HeldType, p)
  /\ Function["rk_adas_get_config"] = {<<Lock, Get1, Get2, Unlock>>}
  /\ Function["rk_adas_set_config"] = {<<Lock, Store1, Store2, Save1, Unlock>>}
  /\ "none" \notin DOMAIN Function
<1>1. \A op \in {"rk_create_kit", "rk_get_incident_images", "rk_get_device_info",
                 "rk_get_current_location", "rk_get_health_check",
                 "rk_config_device_settings", "rk_create_incident", "rk_check_cameras"} :
        Apart(Function[op])
  BY KitPrograms, PlainApart
  DEF Function
<1>2. \A op \in {"rk_adas_get_preview_config", "rk_adas_set_preview_config",
                 "rk_dms_get_config", "rk_dms_set_config",
                 "rk_get_debug_feature_config", "rk_set_debug_feature_config",
                 "rk_capture_get_records", "rk_get_product_info",
                 "rk_set_device_config", "rk_get_device_config",
                 "rk_driver_get_list", "rk_driver_register", "rk_verify_get_records",
                 "rk_capture_set_config", "rk_capture_get_config",
                 "rk_clear_driver_register_info",
                 "SystemGlobal_SetAllconfigDefAdasCH", "SaveDriverInfoToFile"} :
        Apart(Function[op])
  BY SettingPrograms, PlainApart
  DEF Function
<1>3. \A op \in {"rk_get_running_status", "rk_storage_get_stream_config",
                 "rk_storage_set_stream_config", "rk_storage_get_config",
                 "rk_storage_set_config", "DVR_GetConfig", "DVR_SetConfig"} :
        Quiet(Function[op])
  BY LockedPrograms, PagePrograms
  DEF Function
<1>4. /\ Function["rk_adas_get_config"] = rk_adas_get_config
      /\ Function["rk_adas_set_config"] = rk_adas_set_config
      /\ Function["SystemGlobal_Get_Config_Param"] = SystemGlobal_Get_Config_Param
  BY DEF Function
<1>5. "none" \notin DOMAIN Function
  BY DEF Function
<1>6. DOMAIN Function = Special \cup {"rk_create_kit", "rk_get_incident_images", "rk_get_device_info",
          "rk_get_current_location", "rk_get_health_check",
          "rk_config_device_settings", "rk_create_incident", "rk_check_cameras",
          "rk_adas_get_preview_config", "rk_adas_set_preview_config",
          "rk_dms_get_config", "rk_dms_set_config", "rk_get_debug_feature_config",
          "rk_set_debug_feature_config", "rk_capture_get_records",
          "rk_get_product_info", "rk_set_device_config", "rk_get_device_config",
          "rk_driver_get_list", "rk_driver_register", "rk_verify_get_records",
          "rk_capture_set_config", "rk_capture_get_config",
          "rk_clear_driver_register_info", "SystemGlobal_SetAllconfigDefAdasCH",
          "SaveDriverInfoToFile", "rk_get_running_status",
          "rk_storage_get_stream_config", "rk_storage_set_stream_config",
          "rk_storage_get_config", "rk_storage_set_config", "DVR_GetConfig",
          "DVR_SetConfig"}
  BY DEF Function, Special
<1>7. \A op \in DOMAIN Function \ Special : Apart(Function[op])
  BY <1>1, <1>2, <1>3, <1>6, QuietApart
<1>9. \A op \in {"rk_get_health_check", "rk_check_cameras", "rk_adas_get_preview_config",
                 "rk_dms_get_config", "rk_get_debug_feature_config",
                 "rk_capture_get_records", "rk_get_product_info", "rk_get_device_config",
                 "rk_driver_get_list", "rk_driver_register", "rk_verify_get_records",
                 "rk_capture_set_config", "rk_clear_driver_register_info",
                 "SystemGlobal_SetAllconfigDefAdasCH", "SaveDriverInfoToFile"} :
        Quiet(Function[op])
  BY QuietPrograms DEF Function
<1>10. \A op \in DOMAIN Function \ (Special \cup PlainSavers) : Quiet(Function[op])
  BY <1>3, <1>6, <1>9 DEF PlainSavers
<1>8. \A op \in DOMAIN Function : \A p \in Function[op] : Outside(StepType, HeldType, p)
  <2>1. PlainStep \subseteq StepType /\ HeldStep \subseteq HeldType
    BY DEF PlainStep, HeldStep
  <2>2. \A op \in DOMAIN Function \ Special : \A p \in Function[op] :
          Outside(StepType, HeldType, p)
    BY <1>7, <2>1, OutsideMonotonic DEF Apart
  <2>3. \A op \in Special : \A p \in Function[op] : Outside(StepType, HeldType, p)
    BY <1>4, WarningsOutside, InterfacePrograms DEF Special
  <2>. QED BY <2>2, <2>3
<1>. QED BY <1>4, <1>5, <1>7, <1>8, <1>10, WarningPrograms

LEMMA HeadTailConcat ==
  ASSUME NEW S, NEW s \in Seq(S), NEW t \in Seq(S), s # <<>>
  PROVE  /\ s \o t # <<>> /\ Head(s \o t) = Head(s) /\ Tail(s \o t) = Tail(s) \o t
<1>1. /\ s \o t \in Seq(S) /\ Len(s \o t) = Len(s) + Len(t) /\ Len(s) \in Nat \ {0}
      /\ Len(t) \in Nat
      /\ \A i \in 1 .. Len(s) + Len(t) :
           (s \o t)[i] = IF i <= Len(s) THEN s[i] ELSE t[i - Len(s)]
  BY ConcatProperties, EmptySeq, LenProperties
<1>2. s \o t # <<>>
  BY <1>1, EmptySeq
<1>3. Head(s \o t) = Head(s)
  BY <1>1, <1>2
<1>4. /\ Tail(s) \in Seq(S) /\ Len(Tail(s)) = Len(s) - 1
      /\ \A i \in 1 .. Len(Tail(s)) : Tail(s)[i] = s[i + 1]
  BY HeadTailProperties
<1>5. /\ Tail(s \o t) \in Seq(S) /\ Len(Tail(s \o t)) = Len(s \o t) - 1
      /\ \A i \in 1 .. Len(Tail(s \o t)) : Tail(s \o t)[i] = (s \o t)[i + 1]
  BY <1>1, <1>2, HeadTailProperties
<1>6. /\ Tail(s) \o t \in Seq(S) /\ Len(Tail(s) \o t) = Len(Tail(s)) + Len(t)
      /\ \A i \in 1 .. Len(Tail(s)) + Len(t) :
           (Tail(s) \o t)[i] = IF i <= Len(Tail(s)) THEN Tail(s)[i] ELSE t[i - Len(Tail(s))]
  BY <1>4, ConcatProperties
<1>7. Len(Tail(s \o t)) = Len(Tail(s) \o t)
  BY <1>1, <1>4, <1>5, <1>6
<1>8. ASSUME NEW i \in 1 .. Len(Tail(s \o t))
      PROVE  Tail(s \o t)[i] = (Tail(s) \o t)[i]
  <2>1. i \in Nat /\ 1 <= i /\ i <= Len(s) + Len(t) - 1
    BY <1>1, <1>5
  <2>2. Tail(s \o t)[i] = IF i + 1 <= Len(s) THEN s[i + 1] ELSE t[i + 1 - Len(s)]
    BY <1>1, <1>5, <2>1
  <2>3. (Tail(s) \o t)[i] = IF i <= Len(s) - 1 THEN Tail(s)[i] ELSE t[i - (Len(s) - 1)]
    BY <1>1, <1>4, <1>6, <2>1
  <2>4. i <= Len(s) - 1 => Tail(s)[i] = s[i + 1]
    BY <1>1, <1>4, <2>1
  <2>5. i - (Len(s) - 1) = i + 1 - Len(s) /\ (i <= Len(s) - 1 <=> i + 1 <= Len(s))
    BY <1>1, <2>1
  <2>. QED BY <2>2, <2>3, <2>4, <2>5
<1>9. Tail(s \o t) = Tail(s) \o t
  BY <1>5, <1>6, <1>7, <1>8, SeqEqual
<1>. QED BY <1>2, <1>3, <1>9


\* A step of a program.
LEMMA InsideTail ==
  ASSUME NEW H, NEW p, Inside(H, p)
  PROVE  /\ p # <<>>
         /\ \/ Head(p) = Unlock /\ Tail(p) = <<>>
            \/ Head(p) \in H /\ Inside(H, Tail(p))
<1>1. PICK b \in Seq(H) : p = b \o <<Unlock>>
  BY DEF Inside
<1> DEFINE S == H \cup {Unlock}
<1>2. b \in Seq(S) /\ <<Unlock>> \in Seq(S) /\ Head(<<Unlock>>) = Unlock
      /\ Tail(<<Unlock>>) = <<>> /\ <<Unlock>> # <<>>
  BY SeqMonotonic
<1>3. CASE b = <<>>
  <2>1. p = <<Unlock>>
    BY <1>1, <1>2, <1>3, ConcatEmptySeq
  <2>. QED BY <1>2, <2>1
<1>4. CASE b # <<>>
  <2>1. p # <<>> /\ Head(p) = Head(b) /\ Tail(p) = Tail(b) \o <<Unlock>>
    BY <1>1, <1>2, <1>4, HeadTailConcat
  <2>2. Head(b) \in H /\ Tail(b) \in Seq(H)
    BY <1>4, HeadTailProperties
  <2>. QED BY <2>1, <2>2 DEF Inside
<1>. QED BY <1>3, <1>4

LEMMA OutsideTail ==
  ASSUME NEW P, NEW H, NEW p, Outside(P, H, p), p # <<>>
  PROVE  \/ Head(p) \in P /\ Outside(P, H, Tail(p))
         \/ Head(p) = Lock /\ Inside(H, Tail(p))
<1>1. CASE p \in Seq(P)
  <2>1. Head(p) \in P /\ Tail(p) \in Seq(P)
    BY <1>1, HeadTailProperties
  <2>. QED BY <2>1 DEF Outside
<1>2. ASSUME NEW a \in Seq(P), NEW q, Inside(H, q), p = a \o (<<Lock>> \o q)
      PROVE  \/ Head(p) \in P /\ Outside(P, H, Tail(p))
             \/ Head(p) = Lock /\ Inside(H, Tail(p))
  <2> DEFINE S == P \cup H \cup {Lock, Unlock}
             r == <<Lock>> \o q
  <2>1. q \in Seq(S)
    <3>1. PICK b \in Seq(H) : q = b \o <<Unlock>>
      BY <1>2 DEF Inside
    <3>2. b \in Seq(S) /\ <<Unlock>> \in Seq(S)
      BY SeqMonotonic
    <3>. QED BY <3>1, <3>2, ConcatProperties
  <2>2. r \in Seq(S) /\ Head(r) = Lock /\ Tail(r) = q
    <3>1. <<Lock>> \in Seq(S) /\ <<Lock>> # <<>> /\ Head(<<Lock>>) = Lock
          /\ Tail(<<Lock>>) = <<>>
      OBVIOUS
    <3>2. Head(r) = Lock /\ Tail(r) = <<>> \o q /\ r \in Seq(S)
      BY <2>1, <3>1, HeadTailConcat, ConcatProperties
    <3>. QED BY <2>1, <3>2, ConcatEmptySeq
  <2>3. a \in Seq(S)
    BY SeqMonotonic
  <2>4. p = a \o r
    BY <1>2
  <2> HIDE DEF S, r
  <2>5. CASE a = <<>>
    <3>1. p = r
      BY <2>2, <2>4, <2>5, ConcatEmptySeq
    <3>. QED BY <1>2, <2>2, <3>1
  <2>6. CASE a # <<>>
    <3>1. Head(p) = Head(a) /\ Tail(p) = Tail(a) \o r
      BY <2>2, <2>3, <2>4, <2>6, HeadTailConcat
    <3>2. Head(a) \in P /\ Tail(a) \in Seq(P)
      BY <2>6, HeadTailProperties
    <3>3. Outside(P, H, Tail(p))
      BY <1>2, <3>1, <3>2 DEF Outside, r
    <3>. QED BY <3>1, <3>2, <3>3
  <2>. QED BY <2>5, <2>6
<1>. QED BY <1>1, <1>2 DEF Outside

(***************************************************************************)
(* The callers and the lock.                                               *)
(***************************************************************************)
Values == {Zero, Default} \cup Requests
Instruction == StepType \cup {Lock, Unlock}
Config == [Field -> Values]
Caller ==
  [op : DOMAIN Function \cup {"none"}, todo : Seq(Instruction), arg : {Zero} \cup Requests,
   got : SUBSET Values, save : {"no", "write"}, pos : 0 .. 3]
\* A thread th that holds the lock, or does not.
CallerOK(th, holds) ==
  /\ th.op = "none" => th.todo = <<>>
  /\ th.op # "none" => th.arg \in Requests
  /\ th.save = "write" => th.todo # <<>> /\ Head(th.todo).do \in Saves
  /\ IF holds THEN Inside(HeldType, th.todo) ELSE Outside(StepType, HeldType, th.todo)

CallInv ==
  /\ thr \in [Thread -> Caller] /\ mem \in Config /\ fdata \in Config
  /\ \A t \in Thread : CallerOK(thr[t], config_lock = t)

LEMMA Numbers == Whole = 3 /\ Zero = 0 /\ Default = 1 /\ Zero \in Values /\ Default \in Values
  BY DEF Whole, Blocks, Zero, Default, Values

LEMMA ProgramItems ==
  ASSUME NEW p, NEW P, NEW H, P \subseteq StepType, H \subseteq StepType,
         Inside(H, p) \/ Outside(P, H, p)
  PROVE  p \in Seq(Instruction)
<1>1. Seq(P) \subseteq Seq(Instruction) /\ Seq(H) \subseteq Seq(Instruction)
  BY SeqMonotonic DEF Instruction
<1>2. <<Lock>> \in Seq(Instruction) /\ <<Unlock>> \in Seq(Instruction)
  BY DEF Instruction
<1>3. \A q : Inside(H, q) => q \in Seq(Instruction)
  BY <1>1, <1>2, ConcatProperties DEF Inside
<1>4. CASE Inside(H, p)
  BY <1>3, <1>4
<1>5. CASE Outside(P, H, p)
  <2>1. \A q : Inside(H, q) => <<Lock>> \o q \in Seq(Instruction)
    BY <1>2, <1>3, ConcatProperties
  <2>. QED BY <1>1, <1>5, <2>1, ConcatProperties DEF Outside
<1>. QED BY <1>4, <1>5

LEMMA DefaultsType == Defaults \in Config /\ NeverSet \in Config
<1>1. \A cfg \in Config : \A fields : SetDefault(cfg, fields) \in Config
  BY Numbers DEF SetDefault, Config
<1>2. NeverSet \in Config
  BY Numbers DEF NeverSet, Config
<1>3. \A cfg \in Config : LoadDefaultABDParam(cfg) \in Config
  <2>1. \A cfg \in Config : [f \in Field |-> IF f \in AbdFields THEN Zero ELSE cfg[f]] \in Config
    BY Numbers DEF Config
  <2>. QED BY <1>1, <2>1 DEF LoadDefaultABDParam
<1>4. \A cfg \in Config :
        /\ LoadDefaultBacklineStruct(cfg) \in Config /\ LoadDefaultCameralSetting(cfg) \in Config
        /\ LoadDefaultAutoMangeParam(cfg) \in Config /\ LoadDefaultMSServerConfig(cfg) \in Config
        /\ LoadDefaultLocalDisplay(cfg) \in Config /\ LoadDefaultVideoDetectSet(cfg) \in Config
        /\ LoadDefaultAlarmSet(cfg) \in Config /\ LoadDefaultNetworkParam(cfg) \in Config
  BY <1>1 DEF LoadDefaultBacklineStruct, LoadDefaultCameralSetting, LoadDefaultAutoMangeParam,
     LoadDefaultMSServerConfig, LoadDefaultLocalDisplay, LoadDefaultVideoDetectSet,
     LoadDefaultAlarmSet, LoadDefaultNetworkParam
<1>5. \A cfg \in Config :
        /\ LoadDefaultPTZSet(cfg) \in Config /\ LoadDefaultRecordSet(cfg) \in Config
        /\ LoadDefaultEncoderSet(cfg) \in Config /\ LoadDefaultCommonSet(cfg) \in Config
        /\ LoadDefaultAdvancedSet(cfg) \in Config /\ LoadDefaultAlarmCtrol(cfg) \in Config
        /\ LoadDefaultRecordCtrol(cfg) \in Config
  BY <1>1 DEF LoadDefaultPTZSet, LoadDefaultRecordSet, LoadDefaultEncoderSet,
     LoadDefaultCommonSet, LoadDefaultAdvancedSet, LoadDefaultAlarmCtrol,
     LoadDefaultRecordCtrol
<1> DEFINE early == LoadDefaultNetworkParam(
        LoadDefaultPTZSet(LoadDefaultRecordSet(LoadDefaultEncoderSet(
          LoadDefaultCommonSet(LoadDefaultAdvancedSet(LoadDefaultAlarmCtrol(
            LoadDefaultRecordCtrol(NeverSet))))))))
<1>6. early \in Config
  BY <1>2, <1>4, <1>5
<1>7. Defaults = LoadDefaultABDParam(LoadDefaultBacklineStruct(LoadDefaultCameralSetting(
        LoadDefaultAutoMangeParam(LoadDefaultMSServerConfig(LoadDefaultLocalDisplay(
          LoadDefaultVideoDetectSet(LoadDefaultAlarmSet(early))))))))
  BY DEF Defaults
<1> HIDE DEF early
<1>. QED BY <1>2, <1>3, <1>4, <1>6, <1>7

LEMMA FromFileType ==
  ASSUME NEW data \in Config, NEW len
  PROVE  FromFile(len, data) \in Config
  BY Numbers DEF FromFile, Config

\* What the steps make of a caller's record.
Advanced(th) == [th EXCEPT !.todo = Tail(@), !.save = "no", !.pos = 0]

LEMMA TodoUpdate ==
  ASSUME NEW th \in Caller, NEW todo \in Seq(Instruction)
  PROVE  /\ [th EXCEPT !.todo = todo] \in Caller
         /\ [th EXCEPT !.todo = todo].todo = todo
         /\ [th EXCEPT !.todo = todo].op = th.op /\ [th EXCEPT !.todo = todo].arg = th.arg
         /\ [th EXCEPT !.todo = todo].save = th.save
  BY DEF Caller

LEMMA AdvanceUpdate ==
  ASSUME NEW th \in Caller, Tail(th.todo) \in Seq(Instruction)
  PROVE  /\ Advanced(th) \in Caller /\ Advanced(th).todo = Tail(th.todo)
         /\ Advanced(th).op = th.op /\ Advanced(th).arg = th.arg
         /\ Advanced(th).save = "no" /\ Advanced(th).got = th.got
<1>1. /\ Advanced(th).todo = Tail(th.todo)
      /\ Advanced(th).op = th.op /\ Advanced(th).arg = th.arg
      /\ Advanced(th).save = "no" /\ Advanced(th).got = th.got
  BY DEF Caller, Advanced
<1> DEFINE saved == [th EXCEPT !.todo = Tail(@), !.save = "no"]
<1>2. saved \in Caller
  BY DEF Caller
<1>3. Advanced(th) = [saved EXCEPT !.pos = 0]
  BY DEF Caller, Advanced
<1>4. Advanced(th) \in Caller
  <2> HIDE DEF saved
  <2>. QED BY <1>2, <1>3 DEF Caller
<1>. QED BY <1>1, <1>4

LEMMA SaveUpdate ==
  ASSUME NEW th \in Caller
  PROVE  /\ LET new == [th EXCEPT !.save = "write"] IN
            /\ new \in Caller /\ new.todo = th.todo /\ new.op = th.op /\ new.arg = th.arg
            /\ new.got = th.got /\ new.pos = th.pos /\ new.save = "write"
         /\ \A pos \in 0 .. 3 : LET new == [th EXCEPT !.pos = pos] IN
            /\ new \in Caller /\ new.todo = th.todo /\ new.op = th.op /\ new.arg = th.arg
            /\ new.got = th.got /\ new.pos = pos /\ new.save = th.save
  BY DEF Caller

LEMMA CallerTypes ==
  ASSUME CallInv, NEW t \in Thread
  PROVE  /\ thr[t] \in Caller /\ CallerOK(thr[t], config_lock = t)
         /\ thr[t].todo \in Seq(Instruction) /\ thr[t].arg \in Values
         /\ thr[t].pos \in 0 .. 3 /\ thr[t].save \in {"no", "write"}
         /\ thr[t].op \in DOMAIN Function \cup {"none"} /\ thr[t].got \subseteq Values
         /\ \A f \in Field : mem[f] \in Values
  BY DEF CallInv, Caller, Values, Config

LEMMA IdleOK == Idle \in Caller /\ CallerOK(Idle, FALSE) /\ Idle.op = "none"
                /\ Idle.todo = <<>> /\ Idle.save = "no" /\ Idle.got = {} /\ Idle.pos = 0
<1>1. <<>> \in Seq(Instruction) /\ <<>> \in Seq(StepType)
  OBVIOUS
<1>2. Idle \in Caller /\ Idle.op = "none" /\ Idle.todo = <<>> /\ Idle.save = "no"
      /\ Idle.got = {} /\ Idle.pos = 0
  BY <1>1 DEF Idle, Caller
<1>. QED BY <1>1, <1>2 DEF CallerOK, Outside

LEMMA CallerStep ==
  ASSUME CallInv, NEW t \in Thread, NEW th \in Caller, thr' = [thr EXCEPT ![t] = th],
         mem' \in Config, fdata' \in Config, CallerOK(th, config_lock' = t),
         \A u \in Thread \ {t} : config_lock' = u <=> config_lock = u
  PROVE  CallInv'
<1>1. thr' \in [Thread -> Caller]
  BY DEF CallInv
<1>2. \A u \in Thread : thr'[u] = IF u = t THEN th ELSE thr[u]
  BY DEF CallInv
<1>3. ASSUME NEW u \in Thread
      PROVE  CallerOK(thr'[u], config_lock' = u)
  <2>1. CASE u = t
    BY <1>2, <2>1
  <2>2. CASE u # t
    <3>1. thr'[u] = thr[u] /\ (config_lock' = u <=> config_lock = u)
      BY <1>2, <2>2
    <3>2. CallerOK(thr[u], config_lock = u)
      BY DEF CallInv
    <3>. QED BY <3>1, <3>2 DEF CallerOK
  <2>. QED BY <2>1, <2>2
<1>. QED BY <1>1, <1>3 DEF CallInv

\* The next step of a program is none of the lock's, or it is one in its place.
LEMMA NextStep ==
  ASSUME CallInv, NEW t \in Thread, thr[t].todo # <<>>
  PROVE  /\ Tail(thr[t].todo) \in Seq(Instruction)
         /\ thr[t].op \in DOMAIN Function /\ thr[t].arg \in Requests
         /\ \/ /\ config_lock = t /\ Head1(t) = Unlock /\ Tail(thr[t].todo) = <<>>
            \/ /\ config_lock = t /\ Head1(t) \in HeldType
               /\ Inside(HeldType, Tail(thr[t].todo))
            \/ /\ config_lock # t /\ Head1(t) = Lock
               /\ Inside(HeldType, Tail(thr[t].todo))
            \/ /\ config_lock # t /\ Head1(t) \in StepType
               /\ Outside(StepType, HeldType, Tail(thr[t].todo))
<1>1. CallerOK(thr[t], config_lock = t) /\ thr[t].todo \in Seq(Instruction)
      /\ thr[t].op \in DOMAIN Function \cup {"none"}
  BY CallerTypes
<1>2. Tail(thr[t].todo) \in Seq(Instruction)
  BY <1>1, HeadTailProperties
<1>3. thr[t].op \in DOMAIN Function /\ thr[t].arg \in Requests
  BY <1>1 DEF CallerOK
<1>4. CASE config_lock = t
  <2>1. Inside(HeldType, thr[t].todo)
    BY <1>1, <1>4 DEF CallerOK
  <2>. QED BY <1>2, <1>3, <1>4, <2>1, InsideTail DEF Head1
<1>5. CASE config_lock # t
  <2>1. Outside(StepType, HeldType, thr[t].todo)
    BY <1>1, <1>5 DEF CallerOK
  <2>. QED BY <1>2, <1>3, <1>5, <2>1, OutsideTail DEF Head1
<1>. QED BY <1>4, <1>5

LEMMA LockWords ==
  /\ Lock.do = "lock" /\ Unlock.do = "unlock"
  /\ \A s \in StepType : s.do \notin {"lock", "unlock"} /\ s.on \in SUBSET Field
  /\ \A s \in HeldType : s \in StepType /\ s.do # "need"
  BY DEF Lock, Unlock, StepType, HeldType

\* A thread goes past a step that is none of the lock's.
LEMMA Past ==
  ASSUME CallInv, NEW t \in Thread, thr[t].todo # <<>>,
         Head1(t).do \notin {"lock", "unlock"},
         NEW th \in Caller, thr' = [thr EXCEPT ![t] = th],
         th.todo = Tail(thr[t].todo), th.op = thr[t].op, th.arg = thr[t].arg,
         th.save = "no", config_lock' = config_lock, mem' \in Config, fdata' \in Config
  PROVE  CallInv'
<1>1. IF config_lock = t THEN Inside(HeldType, th.todo)
                         ELSE Outside(StepType, HeldType, th.todo)
  BY NextStep, LockWords
<1>2. th.op # "none" /\ th.arg \in Requests
  BY NextStep, Programs
<1>3. CallerOK(th, config_lock' = t)
  BY <1>1, <1>2 DEF CallerOK
<1>. QED BY <1>3, CallerStep

LEMMA Advances ==
  ASSUME CallInv, NEW t \in Thread, thr[t].todo # <<>>,
         Head1(t).do \notin {"lock", "unlock"}, Advance(t),
         config_lock' = config_lock, mem' \in Config, fdata' \in Config
  PROVE  CallInv'
<1> DEFINE th == Advanced(thr[t])
<1>1. thr[t] \in Caller /\ Tail(thr[t].todo) \in Seq(Instruction)
  BY CallerTypes, NextStep
<1>3. thr' = [thr EXCEPT ![t] = th]
  BY DEF Advance, ThreadIs, Advanced
<1>4. /\ th \in Caller /\ th.todo = Tail(thr[t].todo) /\ th.op = thr[t].op
      /\ th.arg = thr[t].arg /\ th.save = "no"
  BY <1>1, AdvanceUpdate
<1> HIDE DEF th
<1>. QED BY <1>3, <1>4, Past

\* A step that leaves the program as it is.
LEMMA Stays ==
  ASSUME CallInv, NEW t \in Thread, thr[t].todo # <<>>, Head1(t).do \in Saves,
         NEW th \in Caller, thr' = [thr EXCEPT ![t] = th],
         th.todo = thr[t].todo, th.op = thr[t].op, th.arg = thr[t].arg,
         config_lock' = config_lock, mem' \in Config, fdata' \in Config
  PROVE  CallInv'
<1>1. CallerOK(thr[t], config_lock = t)
  BY CallerTypes
<1>2. CallerOK(th, config_lock' = t)
  BY <1>1 DEF CallerOK, Head1
<1>. QED BY <1>2, CallerStep

LEMMA Stored ==
  ASSUME CallInv
  PROVE  mem \in Config /\ fdata \in Config
  BY DEF CallInv, Config

LEMMA LockSteps ==
  ASSUME CallInv, NEW t \in Thread, LockStep(t) \/ UnlockStep(t)
  PROVE  CallInv'
<1> DEFINE th == Advanced(thr[t])
<1>0. thr[t].todo # <<>> /\ Head1(t).do \in {"lock", "unlock"} /\ UNCHANGED <<mem, fdata>>
      /\ thr' = [thr EXCEPT ![t] = th]
  BY DEF LockStep, UnlockStep, At, Advance, ThreadIs, file, Advanced
<1>1. thr[t] \in Caller /\ Tail(thr[t].todo) \in Seq(Instruction) /\ NoThread \notin Thread
  BY <1>0, CallerTypes, NextStep, ConfigAssumption
<1>3. /\ th \in Caller /\ th.todo = Tail(thr[t].todo) /\ th.op = thr[t].op
      /\ th.arg = thr[t].arg /\ th.save = "no"
  BY <1>1, AdvanceUpdate
<1> HIDE DEF th
<1>4. th.op # "none" /\ th.arg \in Requests
  BY <1>0, <1>3, NextStep, Programs
<1>5. CASE LockStep(t)
  <2>1. config_lock = NoThread /\ config_lock' = t /\ Head1(t).do = "lock"
    BY <1>5 DEF LockStep, At
  <2>2. Inside(HeldType, th.todo)
    BY <1>0, <1>1, <1>3, <2>1, NextStep, LockWords
  <2>3. CallerOK(th, config_lock' = t)
    BY <1>3, <1>4, <2>1, <2>2 DEF CallerOK
  <2>. QED BY <1>0, <1>1, <1>3, <2>1, <2>3, Stored, CallerStep
<1>6. CASE UnlockStep(t)
  <2>1. config_lock' = NoThread /\ Head1(t).do = "unlock"
    BY <1>6 DEF UnlockStep, At
  <2>2. config_lock = t /\ th.todo = <<>>
    BY <1>0, <1>3, <2>1, NextStep, LockWords
  <2>3. <<>> \in Seq(StepType)
    OBVIOUS
  <2>4. config_lock' # t
    BY <1>1, <2>1
  <2>5. CallerOK(th, config_lock' = t)
    BY <1>3, <1>4, <2>2, <2>3, <2>4 DEF CallerOK, Outside
  <2>. QED BY <1>0, <1>1, <1>3, <2>1, <2>2, <2>5, Stored, CallerStep
<1>. QED BY <1>5, <1>6

LEMMA ReadSteps ==
  ASSUME CallInv, NEW t \in Thread, NeedStep(t) \/ GetStep(t)
  PROVE  CallInv'
<1>0. /\ thr[t].todo # <<>> /\ Head1(t).do \in {"need", "get"}
      /\ UNCHANGED <<mem, fdata, config_lock>> /\ thr[t] \in Caller
      /\ CallerOK(thr[t], config_lock = t) /\ Tail(thr[t].todo) \in Seq(Instruction)
  BY CallerTypes, NextStep DEF NeedStep, GetStep, At, file
<1>1. thr[t].save = "no"
  BY <1>0, CallerTypes DEF CallerOK, Saves, Head1
<1>2. CASE GetStep(t)
  <2> DEFINE more == {mem[f] : f \in Head1(t).on}
             th == [thr[t] EXCEPT !.todo = Tail(@), !.got = @ \cup more]
  <2>1. thr' = [thr EXCEPT ![t] = th]
    BY <1>2 DEF GetStep, ThreadIs
  <2>2. more \in SUBSET Values
    <3>1. Head1(t).on \in SUBSET Field
      BY <1>0, NextStep, LockWords
    <3>. QED BY <3>1, CallerTypes
  <2> HIDE DEF more
  <2>3. /\ th \in Caller /\ th.todo = Tail(thr[t].todo) /\ th.op = thr[t].op
        /\ th.arg = thr[t].arg /\ th.save = "no"
    BY <1>0, <1>1, <2>2 DEF Caller
  <2> HIDE DEF th
  <2>. QED BY <1>0, <2>1, <2>3, Stored, Past
<1>3. CASE NeedStep(t)
  <2>1. CASE Advance(t)
    BY <1>0, <2>1, Stored, Advances
  <2>2. CASE ThreadIs(t, [thr[t] EXCEPT !.todo = <<>>])
    <3> DEFINE th == [thr[t] EXCEPT !.todo = <<>>]
    <3>1. <<>> \in Seq(Instruction) /\ <<>> \in Seq(StepType)
      OBVIOUS
    <3>2. th \in Caller /\ th.todo = <<>> /\ th.op = thr[t].op /\ th.arg = thr[t].arg
          /\ th.save = "no"
      BY <1>0, <1>1, <3>1, TodoUpdate
    <3> HIDE DEF th
    <3>3. config_lock # t
      <4>1. Head1(t).do = "need"
        BY <1>3 DEF NeedStep, At
      <4>. QED BY <1>0, <4>1, NextStep, LockWords
    <3>4. th.op # "none" /\ th.arg \in Requests
      BY <1>0, <3>2, NextStep, Programs
    <3>5. CallerOK(th, config_lock' = t)
      BY <1>0, <3>1, <3>2, <3>3, <3>4 DEF CallerOK, Outside
    <3>6. thr' = [thr EXCEPT ![t] = th]
      BY <2>2 DEF ThreadIs, th
    <3>. QED BY <1>0, <3>2, <3>5, <3>6, Stored, CallerStep
  <2>. QED BY <1>3, <2>1, <2>2 DEF NeedStep
<1>. QED BY <1>2, <1>3

LEMMA ChangeSteps ==
  ASSUME CallInv, NEW t \in Thread, StoreStep(t) \/ PersistStep(t)
  PROVE  CallInv'
<1>0. /\ thr[t].todo # <<>> /\ Head1(t).do \in {"store", "persist"} /\ Advance(t)
      /\ UNCHANGED <<fdata, config_lock>>
  BY DEF StoreStep, PersistStep, At, file
<1>1. thr[t].arg \in Requests /\ Requests \subseteq Values /\ Zero \in Values
  BY <1>0, NextStep DEF Values
<1>2. CASE StoreStep(t)
  <2>1. mem' = [f \in Field |-> IF f \in Head1(t).on THEN thr[t].arg ELSE mem[f]]
    BY <1>2 DEF StoreStep, Change
  <2>2. mem' \in Config
    BY <1>1, <2>1, Stored DEF Config
  <2>. QED BY <1>0, <2>2, Stored, Advances
<1>3. CASE PersistStep(t)
  <2>1. PICK f \in Head1(t).on : \E v \in NewValues(t, f) :
          mem' = mem \/ mem' = [g \in Field |-> IF g \in {f} THEN v ELSE mem[g]]
    BY <1>3 DEF PersistStep, Change
  <2>2. PICK v \in NewValues(t, f) :
          mem' = mem \/ mem' = [g \in Field |-> IF g \in {f} THEN v ELSE mem[g]]
    BY <2>1
  <2>3. v \in Values
    <3>1. (CHOOSE x \in Requests : TRUE) \in Requests
      BY <1>1
    <3>. QED BY <1>1, <2>2, <3>1 DEF NewValues
  <2>4. mem' \in Config
    BY <2>2, <2>3, Stored DEF Config
  <2>. QED BY <1>0, <2>4, Stored, Advances
<1>. QED BY <1>2, <1>3

\* A call whose save fails goes on.
LEMMA Failing ==
  ASSUME CallInv, NEW t \in Thread, thr[t].todo # <<>>, Head1(t).do \in Saves, SaveFails(t)
  PROVE  CallInv'
<1>1. Advance(t) /\ UNCHANGED <<mem, fdata, config_lock>>
  BY DEF SaveFails, file
<1>. QED BY <1>1, Stored, Advances DEF Saves

LEMMA SaveSteps ==
  ASSUME CallInv, NEW t \in Thread,
         SkipUnchanged(t) \/ OpenParam(t) \/ OpenLocal(t) \/ WriteBlock(t) \/ SaveDone(t)
           \/ WriteDriverInfo(t)
  PROVE  CallInv'
<1>0. thr[t] \in Caller /\ mem \in Config /\ fdata \in Config /\ NeverSet \in Config
      /\ CallerOK(thr[t], config_lock = t) /\ thr[t].pos \in 0 .. 3
  BY CallerTypes, Stored, DefaultsType
<1>1. CASE SkipUnchanged(t)
  BY <1>0, <1>1, Advances DEF SkipUnchanged, At, file
<1>2. CASE OpenParam(t) \/ OpenLocal(t)
  <2> DEFINE th == [thr[t] EXCEPT !.save = "write"]
  <2>1. thr[t].todo # <<>> /\ Head1(t).do \in Saves
    BY <1>2 DEF OpenParam, OpenLocal, At, Saves
  <2>2. CASE thr' = [thr EXCEPT ![t] = th] /\ UNCHANGED <<mem, config_lock>>
             /\ fdata' \in {fdata, NeverSet}
    <3>1. th \in Caller /\ th.todo = thr[t].todo /\ th.op = thr[t].op /\ th.arg = thr[t].arg
      BY <1>0, SaveUpdate
    <3> HIDE DEF th
    <3>. QED BY <1>0, <2>1, <2>2, <3>1, Stays
  <2>3. CASE SaveFails(t)
    BY <2>1, <2>3, Failing
  <2>. QED BY <1>2, <2>2, <2>3 DEF OpenParam, OpenLocal, ThreadIs
<1>3. CASE WriteBlock(t)
  <2>1. thr[t].todo # <<>> /\ Head1(t).do \in Saves
    BY <1>0, <1>3 DEF WriteBlock, Saving, CallerOK, Head1
  <2>2. CASE SaveFails(t)
    BY <2>1, <2>2, Failing
  <2>3. ASSUME NEW pos, pos = thr[t].pos + 1, thr[t].pos < Whole,
               fdata' = [f \in Field |-> IF f \in Blocks[pos] THEN mem[f] ELSE fdata[f]],
               ThreadIs(t, [thr[t] EXCEPT !.pos = pos]), UNCHANGED <<mem, config_lock>>
        PROVE  CallInv'
    <3> DEFINE th == [thr[t] EXCEPT !.pos = pos]
    <3>1. pos \in 0 .. 3
      BY <1>0, <2>3, Numbers
    <3>2. th \in Caller /\ th.todo = thr[t].todo /\ th.op = thr[t].op /\ th.arg = thr[t].arg
      BY <1>0, <3>1, SaveUpdate
    <3>3. fdata' \in Config
      BY <1>0, <2>3 DEF Config
    <3>4. thr' = [thr EXCEPT ![t] = th]
      BY <2>3 DEF ThreadIs
    <3> HIDE DEF th
    <3>. QED BY <1>0, <2>1, <2>3, <3>2, <3>3, <3>4, Stays
  <2>. QED BY <1>3, <2>2, <2>3 DEF WriteBlock
<1>4. CASE SaveDone(t)
  <2>1. thr[t].todo # <<>> /\ Head1(t).do \in Saves
    BY <1>0, <1>4 DEF SaveDone, Saving, CallerOK, Head1
  <2>2. CASE SaveFails(t)
    BY <2>1, <2>2, Failing
  <2>3. CASE Advance(t) /\ UNCHANGED <<mem, config_lock, fdata>>
    BY <1>0, <2>1, <2>3, Advances DEF Saves
  <2>. QED BY <1>4, <2>2, <2>3 DEF SaveDone, file
<1>5. CASE WriteDriverInfo(t)
  BY <1>0, <1>5, Advances DEF WriteDriverInfo, At
<1>. QED BY <1>1, <1>2, <1>3, <1>4, <1>5

LEMMA CallSteps ==
  ASSUME CallInv, NEW t \in Thread, ConfigCall(t) \/ ConfigReturn(t)
  PROVE  CallInv'
<1>0. UNCHANGED <<mem, fdata, config_lock>> /\ CallerOK(thr[t], config_lock = t)
      /\ thr[t].todo \in Seq(Instruction)
  BY CallerTypes DEF ConfigCall, ConfigReturn, file
<1>1. config_lock # t
  <2>1. thr[t].todo = <<>>
    BY <1>0 DEF ConfigCall, ConfigReturn, CallerOK
  <2>2. ~Inside(HeldType, thr[t].todo)
    BY <2>1, InsideTail
  <2>. QED BY <1>0, <2>2 DEF CallerOK
<1>2. CASE ConfigReturn(t)
  <2>1. thr' = [thr EXCEPT ![t] = Idle]
    BY <1>2 DEF ConfigReturn, ThreadIs
  <2>2. CallerOK(Idle, config_lock' = t)
    BY <1>0, <1>1, IdleOK DEF CallerOK
  <2>. QED BY <1>0, <2>1, <2>2, IdleOK, Stored, CallerStep
<1>3. ASSUME NEW op \in Calls[t], NEW v \in Requests, NEW program \in Function[op],
             ThreadIs(t, [Idle EXCEPT !.op = op, !.todo = program, !.arg = v])
      PROVE  CallInv'
  <2> DEFINE th == [Idle EXCEPT !.op = op, !.todo = program, !.arg = v]
  <2>1. op \in DOMAIN Function
    BY CallsAssumption
  <2>2. Outside(StepType, HeldType, program)
    BY <2>1, Programs
  <2>3. program \in Seq(Instruction)
    <3>1. HeldType \subseteq StepType
      BY DEF HeldType
    <3>. QED BY <2>2, <3>1, ProgramItems
  <2>4. th \in Caller /\ th.op = op /\ th.todo = program /\ th.arg = v /\ th.save = "no"
    BY <2>1, <2>3, IdleOK DEF Caller
  <2>5. thr' = [thr EXCEPT ![t] = th]
    BY <1>3 DEF ThreadIs
  <2> HIDE DEF th
  <2>6. op # "none"
    BY <2>1, Programs
  <2>7. CallerOK(th, config_lock' = t)
    BY <1>0, <1>1, <2>2, <2>4, <2>6 DEF CallerOK
  <2>. QED BY <1>0, <2>4, <2>5, <2>7, Stored, CallerStep
<1>. QED BY <1>2, <1>3 DEF ConfigCall

LEMMA StartSteps ==
  ASSUME CallInv, ReadLocalParam \/ LoadDefaultLocalParam \/ StopProcess
  PROVE  CallInv'
<1>0. mem \in Config /\ fdata \in Config /\ NeverSet \in Config /\ Defaults \in Config
  BY Stored, DefaultsType
<1>1. mem' \in Config /\ fdata' \in Config
  BY <1>0, FromFileType DEF ReadLocalParam, LoadDefaultLocalParam, StopProcess, file
<1>2. CASE UNCHANGED <<thr, config_lock>>
  BY <1>1, <1>2 DEF CallInv
<1>3. CASE StopProcess
  <2>1. thr' = [t \in Thread |-> Idle] /\ config_lock' = NoThread
    BY <1>3 DEF StopProcess
  <2>2. \A t \in Thread : ~(config_lock' = t)
    BY <2>1, ConfigAssumption
  <2>3. \A t \in Thread : CallerOK(thr'[t], config_lock' = t)
    BY <2>1, <2>2, IdleOK DEF CallerOK
  <2>. QED BY <1>1, <2>1, <2>3, IdleOK DEF CallInv
<1>. QED BY <1>2, <1>3 DEF ReadLocalParam, LoadDefaultLocalParam

LEMMA CallInvHolds == ConfigSpec => []CallInv
<1>1. ConfigInit => CallInv
  <2> SUFFICES ASSUME ConfigInit
               PROVE  CallInv
    OBVIOUS
  <2>1. thr = [t \in Thread |-> Idle] /\ mem = NeverSet /\ fdata \in {NeverSet, Defaults}
        /\ config_lock = NoThread
    BY DEF ConfigInit
  <2>2. \A t \in Thread : CallerOK(thr[t], config_lock = t)
    BY <2>1, IdleOK, ConfigAssumption DEF CallerOK
  <2>. QED BY <2>1, <2>2, IdleOK, DefaultsType DEF CallInv
<1>2. CallInv /\ [ConfigNext]_cfgVars => CallInv'
  <2> SUFFICES ASSUME CallInv, [ConfigNext]_cfgVars
               PROVE  CallInv'
    OBVIOUS
  <2>1. CASE UNCHANGED cfgVars
    BY <2>1 DEF cfgVars, file, CallInv
  <2>2. CASE ReadLocalParam \/ LoadDefaultLocalParam \/ StopProcess
    BY <2>2, StartSteps
  <2>3. ASSUME NEW t \in Thread, ConfigCall(t) \/ ConfigStep(t)
        PROVE  CallInv'
    BY <2>3, LockSteps, ReadSteps, ChangeSteps, SaveSteps, CallSteps DEF ConfigStep
  <2>. QED BY <2>1, <2>2, <2>3 DEF ConfigNext
<1>. QED BY <1>1, <1>2, PTL DEF ConfigSpec

\* Every way through every function gives config_lock back, and none takes it twice.
THEOREM LockCorrect == ConfigSpec => []LockIsReleased
<1>1. CallInv => LockIsReleased
  <2> SUFFICES ASSUME CallInv, NEW t \in Thread, thr[t].op = "none" \/ At(t, "lock"),
                      config_lock = t
               PROVE  FALSE
    BY DEF LockIsReleased
  <2>1. CallerOK(thr[t], TRUE)
    BY CallerTypes DEF CallerOK
  <2>2. Inside(HeldType, thr[t].todo)
    BY <2>1 DEF CallerOK
  <2>3. thr[t].todo # <<>>
    BY <2>2, InsideTail
  <2>4. At(t, "lock")
    BY <2>1, <2>3 DEF CallerOK
  <2>. QED BY <2>3, <2>4, NextStep, LockWords DEF At
<1>. QED BY <1>1, CallInvHolds, PTL

(***************************************************************************)
(* The file, for any number of callers.                                    *)
(***************************************************************************)
\* As far as t has come, the file has what memory has.
Written(t) ==
  \A i \in 1 .. thr[t].pos : flen >= i /\ \A f \in Blocks[i] : fdata[f] = mem[f]

\* Where a thread is in its save; no other has run beside it, or it is in met.
SaveOK(t) ==
  /\ thr[t].save = "no" => thr[t].pos = 0
  /\ thr[t].save = "write" => On /\ (t \notin met => Written(t))

\* The file's length and the values it was given.
FileTypeOK ==
  /\ flen \in -1 .. 3 /\ boot.pos \in 0 .. 3
  /\ since \in [Field -> SUBSET Values]

\* The file's invariant.
FileInv ==
  /\ FileTypeOK
  /\ SavedSurvives
  /\ On /\ ~torn => \A f \in Field : mem[f] \in since[f]
  /\ \A t \in Thread : SaveOK(t)

\* Each field is in one of the blocks.
LEMMA AllBlocks ==
  /\ \A f \in Field : \E i \in 1 .. 3 : f \in Blocks[i]
  /\ \A i \in 1 .. 3 : Blocks[i] \subseteq Field
<1>1. Blocks[1] = MainFields /\ Blocks[2] = PersistFields
      /\ Blocks[3] = AbdFields \ PersistFields
  BY DEF Blocks
<1>2. PersistFields \subseteq AbdFields
  BY DEF AbdFields
<1>3. \A f \in Field : f \in Blocks[1] \/ f \in Blocks[2] \/ f \in Blocks[3]
  BY <1>1 DEF Field
<1>4. Blocks[1] \subseteq Field /\ Blocks[2] \subseteq Field /\ Blocks[3] \subseteq Field
  BY <1>1, <1>2 DEF Field
<1>5. \A i \in 1 .. 3 : i = 1 \/ i = 2 \/ i = 3
  OBVIOUS
<1>. QED BY <1>3, <1>4, <1>5

\* A complete file is read as it is.
LEMMA WholeFile ==
  ASSUME NEW data \in Config
  PROVE  FromFile(3, data) = data
<1>1. \A f \in Field : FromFile(3, data)[f] = data[f]
  BY AllBlocks, Numbers DEF FromFile
<1>. QED BY <1>1 DEF FromFile, Config

\* A complete save has made the file what memory is.
LEMMA WrittenWhole ==
  ASSUME FileInv, NEW t \in Thread, Written(t), thr[t].pos = 3
  PROVE  flen = 3 /\ \A f \in Field : fdata[f] = mem[f]
<1>1. \A i \in 1 .. 3 : flen >= i /\ \A f \in Blocks[i] : fdata[f] = mem[f]
  BY DEF Written
<1>2. flen = 3
  BY <1>1 DEF FileInv, FileTypeOK
<1>. QED BY <1>1, <1>2, AllBlocks

\* A save under way, in a step of another thread that leaves memory and the file as
\* they are.
LEMMA SaveStays ==
  ASSUME NEW u \in Thread, SaveOK(u), thr'[u].save = thr[u].save, thr'[u].pos = thr[u].pos,
         UNCHANGED <<mem, fdata, flen, boot>>, u \in met => u \in met'
  PROVE  SaveOK(u)'
<1>1. Written(u) => Written(u)'
  BY DEF Written
<1>. QED BY <1>1 DEF SaveOK, On

\* What the steps of a thread make of the records.
LEMMA ThreadRecord ==
  ASSUME CallInv, NEW t \in Thread
  PROVE  /\ \A th : ThreadIs(t, th) => thr'[t] = th /\ \A u \in Thread \ {t} : thr'[u] = thr[u]
         /\ Advance(t) => /\ thr'[t].save = "no" /\ thr'[t].pos = 0
                          /\ \A u \in Thread \ {t} : thr'[u] = thr[u]
<1>1. \A th : ThreadIs(t, th) => thr'[t] = th /\ \A u \in Thread \ {t} : thr'[u] = thr[u]
  BY DEF ThreadIs, CallInv
<1>2. Advance(t) => /\ thr'[t] = Advanced(thr[t])
                    /\ \A u \in Thread \ {t} : thr'[u] = thr[u]
  BY <1>1 DEF Advance, Advanced
<1>3. Advanced(thr[t]).save = "no" /\ Advanced(thr[t]).pos = 0
  BY CallerTypes DEF Advanced, Caller
<1>. QED BY <1>1, <1>2, <1>3

\* A step that changes neither memory nor the file.
LEMMA FileStays ==
  ASSUME FileInv,
         UNCHANGED <<mem, fdata, flen, boot, since, torn, met, mixed>>,
         \A u \in Thread :
            \/ thr'[u].save = "no" /\ thr'[u].pos = 0
            \/ thr'[u].save = thr[u].save /\ thr'[u].pos = thr[u].pos
  PROVE  FileInv'
<1>1. ASSUME NEW u \in Thread PROVE SaveOK(u)'
  <2>1. CASE thr'[u].save = "no" /\ thr'[u].pos = 0
    BY <2>1 DEF SaveOK
  <2>2. CASE thr'[u].save = thr[u].save /\ thr'[u].pos = thr[u].pos
    BY <2>2, SaveStays DEF FileInv
  <2>. QED BY <2>1, <2>2
<1>2. SavedSurvives' /\ (On /\ ~torn => \A f \in Field : mem[f] \in since[f])'
  BY DEF FileInv, SavedSurvives, On
<1>. QED BY <1>1, <1>2 DEF FileInv, FileTypeOK

\* The steps that only read, wait or give up.
LEMMA FileQuiet ==
  ASSUME NEW t \in Thread, CallInv, FileInv,
         \/ ConfigCall(t) \/ LockStep(t) \/ UnlockStep(t) \/ NeedStep(t) \/ GetStep(t)
         \/ SkipUnchanged(t) \/ ConfigReturn(t) \/ SaveFails(t)
  PROVE  FileInv'
<1>0. thr[t] \in Caller
  BY CallerTypes
<1>1. UNCHANGED <<mem, fdata, flen, boot, since, torn, met, mixed>>
  BY DEF ConfigCall, LockStep, UnlockStep, NeedStep, GetStep, SkipUnchanged, ConfigReturn,
     SaveFails, file, past
<1>2. CASE Advance(t)
  BY <1>1, <1>2, ThreadRecord, FileStays
<1>3. ASSUME NEW op, NEW todo, NEW arg,
             ThreadIs(t, [Idle EXCEPT !.op = op, !.todo = todo, !.arg = arg])
      PROVE  FileInv'
  <2>1. /\ thr'[t] = [Idle EXCEPT !.op = op, !.todo = todo, !.arg = arg]
        /\ \A u \in Thread \ {t} : thr'[u] = thr[u]
    BY <1>3, ThreadRecord
  <2>2. thr'[t].save = "no" /\ thr'[t].pos = 0
    BY <2>1 DEF Idle
  <2>. QED BY <1>1, <2>1, <2>2, FileStays
<1>4. CASE ThreadIs(t, Idle)
  <2>1. thr'[t] = Idle /\ \A u \in Thread \ {t} : thr'[u] = thr[u]
    BY <1>4, ThreadRecord
  <2>2. thr'[t].save = "no" /\ thr'[t].pos = 0
    BY <2>1 DEF Idle
  <2>. QED BY <1>1, <2>1, <2>2, FileStays
<1>5. ASSUME NEW todo, ThreadIs(t, [thr[t] EXCEPT !.todo = todo])
      PROVE  FileInv'
  <2>1. /\ thr'[t] = [thr[t] EXCEPT !.todo = todo]
        /\ \A u \in Thread \ {t} : thr'[u] = thr[u]
    BY <1>5, ThreadRecord
  <2>2. thr'[t].save = thr[t].save /\ thr'[t].pos = thr[t].pos
    BY <1>0, <2>1 DEF Caller
  <2>. QED BY <1>1, <2>1, <2>2, FileStays
<1>6. ASSUME NEW todo, NEW more, ThreadIs(t, [thr[t] EXCEPT !.todo = todo, !.got = @ \cup more])
      PROVE  FileInv'
  <2>1. /\ thr'[t] = [thr[t] EXCEPT !.todo = todo, !.got = @ \cup more]
        /\ \A u \in Thread \ {t} : thr'[u] = thr[u]
    BY <1>6, ThreadRecord
  <2>2. thr'[t].save = thr[t].save /\ thr'[t].pos = thr[t].pos
    BY <1>0, <2>1 DEF Caller
  <2>. QED BY <1>1, <2>1, <2>2, FileStays
<1>7. CASE ConfigCall(t)
  BY <1>3, <1>7 DEF ConfigCall
<1>8. CASE ConfigReturn(t)
  BY <1>4, <1>8 DEF ConfigReturn
<1>9. CASE NeedStep(t)
  BY <1>2, <1>5, <1>9 DEF NeedStep
<1>10. CASE GetStep(t)
  <2>1. ThreadIs(t, [thr[t] EXCEPT !.todo = Tail(thr[t].todo),
                                   !.got = @ \cup {mem[f] : f \in Head1(t).on}])
    BY <1>10 DEF GetStep
  <2>. QED BY <1>6, <2>1
<1>11. CASE LockStep(t) \/ UnlockStep(t) \/ SkipUnchanged(t) \/ SaveFails(t)
  BY <1>2, <1>11 DEF LockStep, UnlockStep, SkipUnchanged, SaveFails
<1>. QED BY <1>7, <1>8, <1>9, <1>10, <1>11

\* Who changes memory or empties the file marks the saves that are under way, and keeps
\* its own place.
LEMMA OthersMarked ==
  ASSUME FileInv, CallInv, NEW t \in Thread, NEW u \in Thread \ {t}, thr'[u] = thr[u],
         u \in Beside(t) => u \in met', boot' = boot
  PROVE  SaveOK(u)'
<1>1. thr[u].save = "write" => u \in met'
  BY DEF Beside
<1>2. thr[u].save \in {"no", "write"} /\ SaveOK(u)
  BY CallerTypes DEF Caller, FileInv
<1>. QED BY <1>1, <1>2 DEF SaveOK, On

\* A change of memory: the file is older than memory, and no older than the last save.
LEMMA FileChange ==
  ASSUME NEW t \in Thread, CallInv, CallInv', FileInv, StoreStep(t) \/ PersistStep(t)
  PROVE  FileInv'
<1>0. /\ thr'[t].save = "no" /\ thr'[t].pos = 0 /\ On
      /\ \A u \in Thread \ {t} : thr'[u] = thr[u]
      /\ UNCHANGED <<fdata, flen, boot, torn, mixed>>
  BY ThreadRecord DEF StoreStep, PersistStep, At, file
<1>1. \/ UNCHANGED <<mem, since, met>>
      \/ met' = Beside(t) /\ \E fields, v : Change(fields, v)
  BY DEF StoreStep, PersistStep
<1>2. CASE UNCHANGED <<mem, since, met>>
  BY <1>0, <1>2, FileStays
<1>3. ASSUME NEW fields, NEW v, Change(fields, v), met' = Beside(t)
      PROVE  FileInv'
  <2>1. /\ mem' = [f \in Field |-> IF f \in fields THEN v ELSE mem[f]]
        /\ since' = [f \in Field |-> IF f \in fields THEN since[f] \cup {v} ELSE since[f]]
    BY <1>3 DEF Change
  <2>2. \A f \in Field : since[f] \subseteq since'[f] /\ since'[f] \subseteq since[f] \cup {mem'[f]}
    BY <2>1
  <2>3. since' \in [Field -> SUBSET Values]
    <3>1. \A f \in Field : mem'[f] \in Values
      BY DEF CallInv, Config
    <3>2. \A f \in Field : since'[f] \in SUBSET Values
      BY <2>2, <3>1 DEF FileInv, FileTypeOK
    <3>. QED BY <2>1, <3>2
  <2>4. SavedSurvives'
    BY <1>0, <2>2 DEF FileInv, SavedSurvives
  <2>5. On' /\ ~torn' => \A f \in Field : mem'[f] \in since'[f]
    BY <1>0, <2>1 DEF FileInv
  <2>6. SaveOK(t)'
    BY <1>0 DEF SaveOK
  <2>7. \A u \in Thread : SaveOK(u)'
    BY <1>0, <1>3, <2>6, OthersMarked
  <2>. QED BY <1>0, <2>3, <2>4, <2>5, <2>7 DEF FileInv, FileTypeOK
<1>. QED BY <1>1, <1>2, <1>3

\* SaveParam and SaveLocalParam open the file: one as it is, the other empty.
LEMMA FileOpen ==
  ASSUME NEW t \in Thread, CallInv, FileInv, OpenParam(t) \/ OpenLocal(t), ~SaveFails(t)
  PROVE  FileInv'
<1>0. /\ On /\ thr[t] \in Caller /\ flen \in -1 .. 3 /\ boot.pos \in 0 .. 3
      /\ thr[t].save = "no" /\ ThreadIs(t, [thr[t] EXCEPT !.save = "write"])
      /\ UNCHANGED <<mem, boot, since, mixed>>
  BY CallerTypes DEF OpenParam, OpenLocal, At, FileInv, FileTypeOK
<1>1. /\ thr'[t].save = "write" /\ thr'[t].pos = 0
      /\ \A u \in Thread \ {t} : thr'[u] = thr[u]
  <2>1. /\ thr'[t] = [thr[t] EXCEPT !.save = "write"]
        /\ \A u \in Thread \ {t} : thr'[u] = thr[u]
    BY <1>0, ThreadRecord
  <2>2. thr[t].pos = 0
    BY <1>0 DEF FileInv, SaveOK
  <2>. QED BY <1>0, <2>1, <2>2 DEF Caller
<1>2. SaveOK(t)'
  BY <1>0, <1>1 DEF SaveOK, Written, On
<1>3. CASE OpenParam(t)
  <2>1. /\ flen' = (IF flen = Absent THEN 0 ELSE flen)
        /\ met' = met \ {t} /\ UNCHANGED <<fdata, torn>>
    BY <1>3 DEF OpenParam
  <2>2. flen' \in -1 .. 3 /\ flen' >= flen /\ (flen = 3 => flen' = 3)
    BY <1>0, <2>1 DEF Absent
  <2>3. ASSUME NEW u \in Thread \ {t} PROVE SaveOK(u)'
    <3>1. SaveOK(u) /\ thr'[u] = thr[u] /\ thr[u].pos \in 0 .. 3
      BY <1>1, CallerTypes DEF FileInv, Caller
    <3>2. Written(u) => Written(u)'
      BY <1>0, <2>1, <2>2, <3>1 DEF Written
    <3>. QED BY <1>0, <2>1, <3>1, <3>2 DEF SaveOK, On
  <2>4. SavedSurvives' /\ (~torn' => \A f \in Field : mem'[f] \in since'[f])
    BY <1>0, <2>1, <2>2, Numbers DEF FileInv, SavedSurvives
  <2>. QED BY <1>0, <1>2, <2>2, <2>3, <2>4 DEF FileInv, FileTypeOK
<1>4. CASE OpenLocal(t)
  <2>1. flen' = 0 /\ torn' = TRUE /\ met' = Beside(t) \ {t}
    BY <1>4 DEF OpenLocal
  <2>2. \A u \in Thread \ {t} : SaveOK(u)'
    BY <1>0, <1>1, <2>1, OthersMarked
  <2>. QED BY <1>0, <1>2, <2>1, <2>2 DEF FileInv, FileTypeOK, SavedSurvives
<1>. QED BY <1>3, <1>4

\* A save writes its next block, which the saves beside it may have written too.
LEMMA FileWrite ==
  ASSUME NEW t \in Thread, CallInv, FileInv, WriteBlock(t), ~SaveFails(t)
  PROVE  FileInv'
<1> DEFINE pos == thr[t].pos + 1
<1>0. /\ On /\ thr[t] \in Caller /\ flen \in -1 .. 3 /\ boot.pos \in 0 .. 3
      /\ thr[t].save = "write" /\ thr[t].pos \in 0 .. 3 /\ fdata \in Config
      /\ UNCHANGED <<mem, boot, since, torn, met, mixed>>
  BY CallerTypes, Stored DEF WriteBlock, Saving, FileInv, FileTypeOK, past, Caller
<1>1. /\ thr[t].pos < Whole
      /\ fdata' = [f \in Field |-> IF f \in Blocks[pos] THEN mem[f] ELSE fdata[f]]
      /\ flen' = (IF flen < pos THEN pos ELSE flen)
      /\ ThreadIs(t, [thr[t] EXCEPT !.pos = pos])
  BY DEF WriteBlock
<1>2. pos \in 1 .. 3 /\ flen' \in -1 .. 3 /\ flen' >= pos /\ flen' >= flen
  BY <1>0, <1>1, Numbers
<1>3. thr'[t].save = "write" /\ thr'[t].pos = pos /\ \A u \in Thread \ {t} : thr'[u] = thr[u]
  <2>1. thr'[t] = [thr[t] EXCEPT !.pos = pos] /\ \A u \in Thread \ {t} : thr'[u] = thr[u]
    BY <1>1, ThreadRecord
  <2>. QED BY <1>0, <2>1 DEF Caller
<1>4. \A f \in Field : f \in Blocks[pos] \/ fdata[f] = mem[f] => fdata'[f] = mem'[f]
  BY <1>0, <1>1
<1> HIDE DEF pos
<1>5. SaveOK(t)'
  <2>1. ASSUME t \notin met, NEW i \in 1 .. pos
        PROVE  flen' >= i /\ \A f \in Blocks[i] : fdata'[f] = mem'[f]
    <3>1. i # pos => i \in 1 .. thr[t].pos
      BY <1>0 DEF pos
    <3>2. Written(t) /\ i \in 1 .. 3 /\ flen' >= i
      BY <1>0, <1>2, <2>1 DEF FileInv, SaveOK
    <3>. QED BY <1>4, <3>1, <3>2, AllBlocks DEF Written
  <2>. QED BY <1>0, <1>3, <2>1 DEF SaveOK, Written, On
<1>6. ASSUME NEW u \in Thread \ {t} PROVE SaveOK(u)'
  <2>1. SaveOK(u) /\ thr'[u] = thr[u] /\ thr[u].pos \in 0 .. 3
    BY <1>3, CallerTypes DEF FileInv, Caller
  <2>2. ASSUME Written(u) PROVE Written(u)'
    <3>1. ASSUME NEW i \in 1 .. thr[u].pos
          PROVE  flen' >= i /\ \A f \in Blocks[i] : fdata'[f] = mem'[f]
      <4>1. i \in 1 .. 3 /\ flen >= i /\ \A f \in Blocks[i] : fdata[f] = mem[f]
        BY <2>1, <2>2 DEF Written
      <4>. QED BY <1>0, <1>2, <1>4, <4>1, AllBlocks
    <3>. QED BY <2>1, <3>1 DEF Written
  <2>. QED BY <1>0, <2>1, <2>2 DEF SaveOK, On
<1>7. ~torn /\ ~mixed => flen' = 3 /\ \A f \in Field : fdata'[f] \in since[f]
  BY <1>0, <1>1, <1>2, Numbers DEF FileInv, SavedSurvives
<1>8. SavedSurvives'
  BY <1>0, <1>7, Numbers DEF SavedSurvives
<1>. QED BY <1>0, <1>2, <1>5, <1>6, <1>8 DEF FileInv, FileTypeOK

\* A save ends; one that nobody changed memory beside has made the file memory's image.
LEMMA FileDone ==
  ASSUME NEW t \in Thread, CallInv, FileInv, SaveDone(t), ~SaveFails(t),
         pending \subseteq Field
  PROVE  FileInv' /\ (~mixed' => pending' = {})
<1>0. /\ flen \in -1 .. 3 /\ boot.pos \in 0 .. 3 /\ mem \in Config
      /\ thr[t].save = "write" /\ thr[t].pos = 3
  BY Stored, Numbers DEF SaveDone, Saving, FileInv, FileTypeOK
<1>1. /\ since' = [f \in Field |-> {mem[f]}] /\ torn' = FALSE /\ Advance(t)
      /\ mixed' = (t \in met) /\ UNCHANGED <<mem, fdata, flen, boot, met>>
      /\ pending' = {f \in pending : fdata[f] # mem[f]}
  BY DEF SaveDone, file
<1>2. /\ thr'[t].save = "no" /\ thr'[t].pos = 0
      /\ \A u \in Thread \ {t} : thr'[u] = thr[u]
  BY <1>1, ThreadRecord
<1>3. ~mixed' => flen = 3 /\ \A f \in Field : fdata[f] = mem[f]
  BY <1>0, <1>1, WrittenWhole DEF FileInv, SaveOK
<1>4. SavedSurvives'
  BY <1>1, <1>3, Numbers DEF SavedSurvives
<1>5. since' \in [Field -> SUBSET Values] /\ \A f \in Field : mem'[f] \in since'[f]
  BY <1>0, <1>1 DEF Config
<1>6. \A u \in Thread : SaveOK(u)'
  <2>1. SaveOK(t)'
    BY <1>2 DEF SaveOK
  <2>. QED BY <1>1, <1>2, <2>1, SaveStays DEF FileInv
<1>7. FileInv'
  BY <1>0, <1>1, <1>4, <1>5, <1>6 DEF FileInv, FileTypeOK
<1>8. ~mixed' => pending' = {}
  BY <1>1, <1>3
<1>. QED BY <1>7, <1>8

\* The process starts: memory becomes what the file has, or the defaults are written.
LEMMA FileStart ==
  ASSUME CallInv, FileInv, ReadLocalParam \/ LoadDefaultLocalParam \/ StopProcess
  PROVE  FileInv'
<1>0. /\ \A t \in Thread : thr[t].save \in {"no", "write"} /\ SaveOK(t)
      /\ flen \in -1 .. 3 /\ boot.pos \in 0 .. 3 /\ since \in [Field -> SUBSET Values]
      /\ fdata \in Config
  BY CallerTypes, Stored DEF FileInv, FileTypeOK, Caller
<1>1. ASSUME ~On, thr' = thr PROVE \A t \in Thread : SaveOK(t)'
  BY <1>0, <1>1 DEF SaveOK
<1>2. CASE ReadLocalParam
  <2>1. /\ UNCHANGED <<thr, fdata, flen>> /\ boot'.pos = 0 /\ ~On
    BY <1>2 DEF ReadLocalParam, file, BootTo, On
  <2>2. \A t \in Thread : SaveOK(t)'
    BY <1>1, <2>1
  <2>3. CASE flen = Whole
    <3>1. torn' = FALSE /\ since' = [f \in Field |-> {fdata[f]}] /\ mem' = fdata
      BY <1>0, <1>2, <2>3, WholeFile, Numbers DEF ReadLocalParam
    <3>2. SavedSurvives'
      BY <2>1, <2>3, <3>1 DEF SavedSurvives
    <3>3. since' \in [Field -> SUBSET Values] /\ \A f \in Field : mem'[f] \in since'[f]
      BY <1>0, <3>1 DEF Config
    <3>. QED BY <1>0, <2>1, <2>2, <3>2, <3>3 DEF FileInv, FileTypeOK
  <2>4. CASE flen # Whole
    <3>1. UNCHANGED <<torn, mixed, since>> /\ ~On'
      BY <1>2, <2>4 DEF ReadLocalParam, BootTo, On
    <3>2. SavedSurvives'
      BY <2>1, <3>1 DEF FileInv, SavedSurvives
    <3>. QED BY <1>0, <2>1, <2>2, <3>1, <3>2 DEF FileInv, FileTypeOK
  <2>. QED BY <2>3, <2>4
<1>3. CASE LoadDefaultLocalParam
  <2>1. torn' = TRUE /\ UNCHANGED <<thr, since>> /\ ~On
    BY <1>3 DEF LoadDefaultLocalParam, On
  <2>2. flen' \in -1 .. 3 /\ boot'.pos \in 0 .. 3
    BY <1>0, <1>3, Numbers DEF LoadDefaultLocalParam, BootTo, file
  <2>3. SavedSurvives'
    BY <2>1 DEF SavedSurvives
  <2>. QED BY <1>0, <1>1, <2>1, <2>2, <2>3 DEF FileInv, FileTypeOK
<1>4. CASE StopProcess
  <2>1. /\ \A t \in Thread : thr'[t] = Idle
        /\ boot' = [at |-> "read", pos |-> 0]
        /\ UNCHANGED <<fdata, flen, since, torn, mixed>>
    BY <1>4 DEF StopProcess, BootTo, file
  <2>2. ~On' /\ boot'.pos = 0
    BY <2>1 DEF On
  <2>3. SavedSurvives'
    BY <2>1 DEF FileInv, SavedSurvives
  <2>4. \A t \in Thread : SaveOK(t)'
    BY <2>1 DEF SaveOK, Idle
  <2>. QED BY <1>0, <2>1, <2>2, <2>3, <2>4 DEF FileInv, FileTypeOK
<1>. QED BY <1>2, <1>3, <1>4

\* What PERSIST has changed since the start makes the next SaveParam write.
Dirty ==
  /\ pending \subseteq Field /\ (boot.at = "read" => pending = {})
  /\ UnsavedIsDirty

\* Every step keeps the file and the flag.
LEMMA FileStep ==
  ASSUME CallInv, CallInv', FileInv, Dirty, [ConfigNext]_cfgVars
  PROVE  FileInv' /\ Dirty'
<1>1. CASE UNCHANGED cfgVars
  BY <1>1, FileStays DEF cfgVars, file, past, Dirty, UnsavedIsDirty
<1>2. CASE ReadLocalParam \/ LoadDefaultLocalParam \/ StopProcess
  <2>1. Dirty'
    BY <1>2 DEF ReadLocalParam, LoadDefaultLocalParam, StopProcess, BootTo, Dirty,
       UnsavedIsDirty
  <2>. QED BY <1>2, <2>1, FileStart
<1>3. ASSUME NEW t \in Thread, StoreStep(t) \/ PersistStep(t) PROVE FileInv' /\ Dirty'
  <2>1. CASE PersistStep(t)
    <3>1. Head1(t) \in Instruction
      BY <2>1, CallerTypes, HeadTailProperties DEF PersistStep, At, Head1
    <3>2. Head1(t).on \subseteq Field
      BY <3>1 DEF Instruction, StepType, Lock, Unlock
    <3>3. /\ boot' = boot /\ mixed' = mixed
          /\ \/ UNCHANGED <<g_cfg_dirty, pending>>
             \/ \E f \in Head1(t).on : g_cfg_dirty' = TRUE /\ pending' = pending \cup {f}
      BY <2>1 DEF PersistStep
    <3>4. boot.at # "read"
      BY <2>1 DEF PersistStep, At, On
    <3>5. Dirty'
      BY <3>2, <3>3, <3>4 DEF Dirty, UnsavedIsDirty
    <3>. QED BY <2>1, <3>5, FileChange
  <2>2. CASE StoreStep(t)
    BY <2>2, FileChange DEF StoreStep, Dirty, UnsavedIsDirty
  <2>. QED BY <1>3, <2>1, <2>2
<1>4. ASSUME NEW t \in Thread,
             \/ ConfigCall(t) \/ LockStep(t) \/ UnlockStep(t) \/ NeedStep(t) \/ GetStep(t)
             \/ SkipUnchanged(t) \/ ConfigReturn(t) \/ SaveFails(t)
      PROVE  FileInv' /\ Dirty'
  <2>1. UNCHANGED <<pending, g_cfg_dirty, mixed, boot>>
    BY <1>4 DEF ConfigCall, LockStep, UnlockStep, NeedStep, GetStep, SkipUnchanged,
       ConfigReturn, SaveFails, past
  <2>. QED BY <1>4, <2>1, FileQuiet DEF Dirty, UnsavedIsDirty
<1>5. ASSUME NEW t \in Thread, ~SaveFails(t), OpenParam(t) \/ OpenLocal(t) \/ WriteBlock(t)
      PROVE  FileInv' /\ Dirty'
  <2>1. UNCHANGED <<pending, g_cfg_dirty, mixed, boot>>
    BY <1>5 DEF OpenParam, OpenLocal, WriteBlock, past
  <2>. QED BY <1>5, <2>1, FileOpen, FileWrite DEF Dirty, UnsavedIsDirty
<1>6. ASSUME NEW t \in Thread, ~SaveFails(t), SaveDone(t) PROVE FileInv' /\ Dirty'
  <2>1. FileInv' /\ (~mixed' => pending' = {})
    BY <1>6, FileDone DEF Dirty
  <2>2. pending' \subseteq pending /\ boot' = boot
    BY <1>6 DEF SaveDone
  <2>. QED BY <2>1, <2>2 DEF Dirty, UnsavedIsDirty
<1>7. ASSUME NEW t \in Thread, WriteDriverInfo(t) PROVE FileInv' /\ Dirty'
  <2>1. /\ flen' = 0 /\ torn' = TRUE /\ Advance(t) /\ met' = Beside(t)
        /\ UNCHANGED <<mem, boot, since, mixed, pending, g_cfg_dirty>>
    BY <1>7 DEF WriteDriverInfo
  <2>2. /\ thr'[t].save = "no" /\ thr'[t].pos = 0
        /\ \A u \in Thread \ {t} : thr'[u] = thr[u]
    BY <2>1, ThreadRecord
  <2>3. \A u \in Thread : SaveOK(u)'
    <3>1. SaveOK(t)'
      BY <2>2 DEF SaveOK
    <3>. QED BY <2>1, <2>2, <3>1, OthersMarked
  <2>. QED BY <2>1, <2>3 DEF FileInv, FileTypeOK, SavedSurvives, Dirty, UnsavedIsDirty
<1>8. ASSUME NEW t \in Thread, ConfigStep(t) PROVE FileInv' /\ Dirty'
  BY <1>3, <1>4, <1>5, <1>6, <1>7, <1>8 DEF ConfigStep
<1>. QED BY <1>1, <1>2, <1>4, <1>8 DEF ConfigNext

\* The file's and the flag's invariant.
LEMMA FileInvHolds == ConfigSpec => [](CallInv /\ FileInv /\ Dirty)
<1>1. ConfigInit => FileInv /\ Dirty
  <2> SUFFICES ASSUME ConfigInit
               PROVE  FileInv /\ Dirty
    OBVIOUS
  <2>1. /\ \A t \in Thread : thr[t] = Idle
        /\ boot.at = "read" /\ boot.pos = 0 /\ torn = (flen = Absent) /\ pending = {}
        /\ since = [f \in Field |-> {fdata[f]}] /\ fdata \in {NeverSet, Defaults}
        /\ flen \in {Absent, Whole}
    BY DEF ConfigInit
  <2>2. flen \in -1 .. 3 /\ ~On
    BY <2>1, Numbers DEF Absent, On
  <2>3. SavedSurvives
    BY <2>1 DEF SavedSurvives
  <2>4. since \in [Field -> SUBSET Values]
    BY <2>1, DefaultsType DEF Config
  <2>5. \A t \in Thread : SaveOK(t)
    BY <2>1 DEF SaveOK, Idle
  <2>. QED BY <2>1, <2>2, <2>3, <2>4, <2>5 DEF FileInv, FileTypeOK, Dirty, UnsavedIsDirty
<1>2. CallInv /\ CallInv' /\ FileInv /\ Dirty /\ [ConfigNext]_cfgVars => FileInv' /\ Dirty'
  BY FileStep
<1>. QED BY <1>1, <1>2, CallInvHolds, PTL DEF ConfigSpec

\* However many callers save at once, whatever saves fail and wherever the process stops
\* (SaveParam, SaveLocalParam and ReadLocalParam): a file that is not being made anew is
\* complete, and has of every field the value saved last or a later one, unless memory
\* was changed beside the save that wrote it last, or the file emptied.
THEOREM SavedCorrect == ConfigSpec => []SavedSurvives
<1>1. FileInv => SavedSurvives
  BY DEF FileInv
<1>. QED BY <1>1, FileInvHolds, PTL

\* However many callers save at once: what PERSIST has changed and no save has written
\* makes the next SaveParam write, unless memory was changed beside the save that ended
\* last.  Such a save is the only way to forget a change, and the next save that runs
\* alone and ends writes it.
THEOREM DirtyCorrect == ConfigSpec => []UnsavedIsDirty
<1>1. Dirty => UnsavedIsDirty
  BY DEF Dirty
<1>. QED BY <1>1, FileInvHolds, PTL

(***************************************************************************)
(* The ADAS warnings, without the user interface, which stores them        *)
(* without the lock; and if the process may stop, without a save that may  *)
(* catch another thread's setter halfway: the next start would read what   *)
(* it left.                                                                *)
(***************************************************************************)
W1 == "adasWarning1"
W2 == "adasWarning2"
Getting == "rk_adas_get_config"
Setting == "rk_adas_set_config"

WarningsGuarded ==
  /\ \A t \in Thread : "SystemGlobal_Get_Config_Param" \notin Calls[t]
  /\ "stop" \in ConfigFaults =>
       \A t \in Thread : Setting \in Calls[t] =>
         \A u \in Thread \ {t} : Calls[u] \cap PlainSavers = {}

\* What is left of the functions of the warnings.
G0 == <<Lock, Get1, Get2, Unlock>>
G1 == <<Get1, Get2, Unlock>>
G2 == <<Get2, Unlock>>
S0 == <<Lock, Store1, Store2, Save1, Unlock>>
S1 == <<Store1, Store2, Save1, Unlock>>
S2 == <<Store2, Save1, Unlock>>
S3 == <<Save1, Unlock>>
U1 == <<Unlock>>

\* The steps of a function outside the lock.
FreeStep(op) == IF op \in PlainSavers THEN PlainStep ELSE QuietStep

\* A thread th, when the first warning is w.
WarnOK(th, holds, w) ==
  /\ th.op = Getting =>
       \/ th.todo = G0 /\ th.got = {} /\ ~holds
       \/ th.todo = G1 /\ th.got = {} /\ holds
       \/ th.todo = G2 /\ th.got = {w} /\ holds
       \/ th.todo = U1 /\ (\E v : th.got = {v}) /\ holds
       \/ th.todo = <<>> /\ (\E v : th.got = {v}) /\ ~holds
  /\ th.op = Setting =>
       \/ th.todo \in {S0, <<>>} /\ ~holds
       \/ th.todo \in {S1, S3, U1} /\ holds
       \/ th.todo = S2 /\ holds /\ w = th.arg
  /\ th.op \notin {Getting, Setting} =>
       IF holds THEN Inside(HeldStep, th.todo)
                ELSE Outside(FreeStep(th.op), HeldStep, th.todo)

HalfSet(t) == config_lock = t /\ thr[t].op = Setting /\ thr[t].todo = S2
Together == mem[W1] = mem[W2] \/ \E t \in Thread : HalfSet(t)

WarnInv ==
  /\ \A t \in Thread : WarnOK(thr[t], config_lock = t, mem[W1])
  /\ Together
  /\ boot.at = "read" => fdata[W1] = fdata[W2] /\ \A t \in Thread : thr[t].op = "none"

\* The file has the warnings of one caller as well, should it be read again.
FileWarnInv ==
  /\ \A t \in Thread : thr[t].op \in Calls[t] \cup {"none"}
  /\ "stop" \in ConfigFaults => fdata[W1] = fdata[W2]

LEMMA Suffixes ==
  /\ G0 # <<>> /\ Head(G0) = Lock /\ Tail(G0) = G1
  /\ G1 # <<>> /\ Head(G1) = Get1 /\ Tail(G1) = G2
  /\ G2 # <<>> /\ Head(G2) = Get2 /\ Tail(G2) = U1
  /\ U1 # <<>> /\ Head(U1) = Unlock /\ Tail(U1) = <<>>
  /\ S0 # <<>> /\ Head(S0) = Lock /\ Tail(S0) = S1
  /\ S1 # <<>> /\ Head(S1) = Store1 /\ Tail(S1) = S2
  /\ S2 # <<>> /\ Head(S2) = Store2 /\ Tail(S2) = S3
  /\ S3 # <<>> /\ Head(S3) = Save1 /\ Tail(S3) = U1
  BY DEF G0, G1, G2, U1, S0, S1, S2, S3

LEMMA Words1 ==
  /\ Lock.do = "lock" /\ Unlock.do = "unlock" /\ Get1.do = "get" /\ Get2.do = "get"
  /\ Store1.do = "store" /\ Store2.do = "store" /\ Save1.do = "SaveLocalParam"
  /\ Get1.on = {W1} /\ Get2.on = {W2} /\ Store1.on = {W1} /\ Store2.on = {W2}
  /\ W1 # W2 /\ Warnings = {W1, W2} /\ W1 \in Field /\ W2 \in Field
<1>1. W1 \in Field /\ W2 \in Field
  BY Fields DEF Warnings, W1, W2
<1>. QED BY <1>1 DEF Lock, Unlock, Get1, Get2, Store1, Store2, Save1, Warnings, W1, W2

LEMMA OpWords ==
  Getting # Setting /\ Getting # "none" /\ Setting # "none"
  BY DEF Getting, Setting

\* Where a thread is whose next step is of a kind.
LEMMA Place ==
  ASSUME NEW th, NEW holds \in BOOLEAN, NEW w, WarnOK(th, holds, w), th.todo # <<>>
  PROVE  LET step == Head(th.todo) IN
         /\ th.op = Getting =>
              \/ step.do = "lock" /\ th.todo = G0 /\ th.got = {} /\ ~holds
              \/ step.do = "get" /\ th.todo = G1 /\ th.got = {} /\ holds
              \/ step.do = "get" /\ th.todo = G2 /\ th.got = {w} /\ holds
              \/ step.do = "unlock" /\ th.todo = U1 /\ (\E v : th.got = {v}) /\ holds
         /\ th.op = Setting =>
              \/ step.do = "lock" /\ th.todo = S0 /\ ~holds
              \/ step.do = "store" /\ th.todo = S1 /\ holds
              \/ step.do = "store" /\ th.todo = S2 /\ holds /\ w = th.arg
              \/ step.do = "SaveLocalParam" /\ th.todo = S3 /\ holds
              \/ step.do = "unlock" /\ th.todo = U1 /\ holds
         /\ th.op \notin {Getting, Setting} =>
              \/ step.do = "unlock" /\ Tail(th.todo) = <<>> /\ holds
              \/ step \in HeldStep /\ Inside(HeldStep, Tail(th.todo)) /\ holds
              \/ step.do = "lock" /\ Inside(HeldStep, Tail(th.todo)) /\ ~holds
              \/ /\ step \in FreeStep(th.op) \cap PlainStep
                 /\ Outside(FreeStep(th.op), HeldStep, Tail(th.todo)) /\ ~holds
<1> DEFINE step == Head(th.todo)
<1>1. th.op = Getting =>
        \/ step.do = "lock" /\ th.todo = G0 /\ th.got = {} /\ ~holds
        \/ step.do = "get" /\ th.todo = G1 /\ th.got = {} /\ holds
        \/ step.do = "get" /\ th.todo = G2 /\ th.got = {w} /\ holds
        \/ step.do = "unlock" /\ th.todo = U1 /\ (\E v : th.got = {v}) /\ holds
  BY Suffixes, Words1 DEF WarnOK
<1>2. th.op = Setting =>
        \/ step.do = "lock" /\ th.todo = S0 /\ ~holds
        \/ step.do = "store" /\ th.todo = S1 /\ holds
        \/ step.do = "store" /\ th.todo = S2 /\ holds /\ w = th.arg
        \/ step.do = "SaveLocalParam" /\ th.todo = S3 /\ holds
        \/ step.do = "unlock" /\ th.todo = U1 /\ holds
  BY Suffixes, Words1 DEF WarnOK
<1>3. ASSUME th.op \notin {Getting, Setting}
      PROVE  \/ step.do = "unlock" /\ Tail(th.todo) = <<>> /\ holds
             \/ step \in HeldStep /\ Inside(HeldStep, Tail(th.todo)) /\ holds
             \/ step.do = "lock" /\ Inside(HeldStep, Tail(th.todo)) /\ ~holds
             \/ /\ step \in FreeStep(th.op) \cap PlainStep
                /\ Outside(FreeStep(th.op), HeldStep, Tail(th.todo)) /\ ~holds
  <2>1. CASE holds
    <3>1. Inside(HeldStep, th.todo)
      BY <1>3, <2>1 DEF WarnOK
    <3>. QED BY <2>1, <3>1, InsideTail, Words1
  <2>2. CASE ~holds
    <3>1. Outside(FreeStep(th.op), HeldStep, th.todo)
      BY <1>3, <2>2 DEF WarnOK
    <3>2. FreeStep(th.op) \subseteq PlainStep
      BY DEF FreeStep, QuietStep
    <3>. QED BY <2>2, <3>1, <3>2, OutsideTail, Words1
  <2>. QED BY <2>1, <2>2
<1>. QED BY <1>1, <1>2, <1>3

LEMMA WarnKinds ==
  ASSUME NEW s \in PlainStep \cup HeldStep
  PROVE  /\ s.do \notin {"lock", "unlock"}
         /\ s \in HeldStep => s.do # "need"
         /\ s \in PlainStep /\ s.do \in Changing => s.on \cap Warnings = {}
         /\ s.do = "persist" => s.on \cap Warnings = {}
         /\ s.do = "store" => s.on \cap Warnings = {} \/ Warnings \subseteq s.on
  BY DEF PlainStep, HeldStep, HeldType, StepType, Changing

LEMMA WarnStep ==
  ASSUME CallInv, WarnInv, NEW t \in Thread, NEW th, thr' = [thr EXCEPT ![t] = th],
         \A u \in Thread \ {t} : config_lock' = u <=> config_lock = u,
         boot' = boot, On, mem'[W1] = mem[W1] \/ config_lock = t,
         WarnOK(th, config_lock' = t, mem'[W1]), Together'
  PROVE  WarnInv'
<1>1. \A u \in Thread : thr'[u] = IF u = t THEN th ELSE thr[u]
  BY DEF CallInv
<1>2. ASSUME NEW u \in Thread
      PROVE  WarnOK(thr'[u], config_lock' = u, mem'[W1])
  <2>1. CASE u = t
    BY <1>1, <2>1
  <2>2. CASE u # t
    <3>1. thr'[u] = thr[u] /\ (config_lock' = u <=> config_lock = u)
      BY <1>1, <2>2
    <3>2. WarnOK(thr[u], config_lock = u, mem[W1])
      BY DEF WarnInv
    <3>3. mem'[W1] = mem[W1] \/ ~(config_lock = u)
      BY <2>2
    <3>. QED BY <3>1, <3>2, <3>3 DEF WarnOK
  <2>. QED BY <2>1, <2>2
<1>3. boot'.at # "read"
  BY DEF On
<1>. QED BY <1>2, <1>3 DEF WarnInv

\* A step that leaves the warnings, of a thread that has not set half of them.
LEMMA WarnQuiet ==
  ASSUME CallInv, WarnInv, NEW t \in Thread, NEW th, thr' = [thr EXCEPT ![t] = th],
         \A u \in Thread \ {t} : config_lock' = u <=> config_lock = u,
         boot' = boot, On, mem'[W1] = mem[W1], mem'[W2] = mem[W2],
         thr[t].op = Setting => thr[t].todo # S2,
         WarnOK(th, config_lock' = t, mem[W1])
  PROVE  WarnInv'
<1>1. CASE mem[W1] = mem[W2]
  BY <1>1, WarnStep DEF Together
<1>2. ASSUME NEW u \in Thread, HalfSet(u)
      PROVE  Together'
  <2>1. u # t /\ thr'[u] = thr[u]
    BY <1>2 DEF HalfSet, CallInv
  <2>2. config_lock' = u
    BY <1>2, <2>1 DEF HalfSet
  <2>3. HalfSet(u)'
    BY <1>2, <2>1, <2>2 DEF HalfSet
  <2>. QED BY <2>3 DEF Together
<1>3. CASE \E u \in Thread : HalfSet(u)
  <2>1. Together'
    BY <1>2, <1>3
  <2>. QED BY <2>1, WarnStep
<1>. QED BY <1>1, <1>3 DEF WarnInv, Together

LEMMA WarnTypes ==
  ASSUME CallInv, WarnInv, NEW t \in Thread
  PROVE  /\ thr[t] \in Caller /\ WarnOK(thr[t], config_lock = t, mem[W1])
         /\ (config_lock = t) \in BOOLEAN
         /\ thr[t].todo # <<>> =>
              /\ Advanced(thr[t]).todo = Tail(thr[t].todo)
              /\ Advanced(thr[t]).op = thr[t].op /\ Advanced(thr[t]).arg = thr[t].arg
              /\ Advanced(thr[t]).got = thr[t].got
  BY CallerTypes, NextStep, AdvanceUpdate DEF WarnInv

\* Past a step that neither locks, reads nor changes.
LEMMA WarnPast ==
  ASSUME CallInv, WarnInv, NEW t \in Thread, thr[t].todo # <<>>, Advance(t),
         Head1(t).do \notin {"lock", "unlock", "get", "store", "persist"},
         boot' = boot, On, UNCHANGED <<mem, config_lock>>
  PROVE  WarnInv'
<1> DEFINE th == Advanced(thr[t])
<1>1. thr' = [thr EXCEPT ![t] = th]
  BY DEF Advance, ThreadIs, Advanced
<1>2. th.todo = Tail(thr[t].todo) /\ th.op = thr[t].op /\ th.arg = thr[t].arg
  BY WarnTypes
<1> HIDE DEF th
<1>3. /\ thr[t].op # Getting
      /\ thr[t].op = Setting => thr[t].todo = S3 /\ config_lock = t
      /\ thr[t].op \notin {Getting, Setting} =>
           IF config_lock = t THEN Inside(HeldStep, Tail(thr[t].todo))
                              ELSE Outside(FreeStep(thr[t].op), HeldStep, Tail(thr[t].todo))
  BY WarnTypes, Place DEF Head1
<1>4. S2 # S3
  BY Suffixes, Words1
<1>5. WarnOK(th, config_lock' = t, mem[W1])
  BY <1>2, <1>3, Suffixes DEF WarnOK
<1>. QED BY <1>1, <1>3, <1>4, <1>5, WarnQuiet

\* A save under way.
LEMMA WarnStay ==
  ASSUME CallInv, WarnInv, NEW t \in Thread, NEW th, thr' = [thr EXCEPT ![t] = th],
         Head1(t).do \in Saves, thr[t].todo # <<>>,
         th.todo = thr[t].todo, th.op = thr[t].op, th.arg = thr[t].arg, th.got = thr[t].got,
         boot' = boot, On, UNCHANGED <<mem, config_lock>>
  PROVE  WarnInv'
<1>1. thr[t].op = Setting => thr[t].todo # S2
  <2>1. Head(S2).do = "store"
    BY Suffixes, Words1
  <2>. QED BY <2>1 DEF Head1, Saves
<1>2. WarnOK(th, config_lock' = t, mem[W1])
  BY ZenonT(30), WarnTypes DEF WarnOK
<1>. QED BY <1>1, <1>2, WarnQuiet

LEMMA WarnLock ==
  ASSUME CallInv, WarnInv, NEW t \in Thread, LockStep(t) \/ UnlockStep(t)
  PROVE  WarnInv'
<1> DEFINE th == Advanced(thr[t])
<1>0. /\ thr[t].todo # <<>> /\ Head1(t).do \in {"lock", "unlock"} /\ UNCHANGED <<mem, boot>>
      /\ thr' = [thr EXCEPT ![t] = th] /\ On
  BY DEF LockStep, UnlockStep, At, Advance, ThreadIs, file, Advanced
<1>1. /\ th.todo = Tail(thr[t].todo) /\ th.op = thr[t].op /\ th.arg = thr[t].arg
      /\ th.got = thr[t].got
  BY <1>0, WarnTypes
<1> HIDE DEF th
<1>2. Head(S2).do = "store"
  BY Suffixes, Words1
<1>3. CASE LockStep(t)
  <2>1. config_lock = NoThread /\ config_lock' = t /\ Head1(t).do = "lock"
        /\ NoThread \notin Thread
    BY <1>3, ConfigAssumption DEF LockStep, At
  <2>2. config_lock # t
    BY <2>1
  <2>3. /\ thr[t].op = Getting => thr[t].todo = G0 /\ thr[t].got = {}
        /\ thr[t].op = Setting => thr[t].todo = S0
        /\ thr[t].op \notin {Getting, Setting} => Inside(HeldStep, Tail(thr[t].todo))
    BY <1>0, <2>1, <2>2, WarnTypes, Place, WarnKinds DEF Head1
  <2>4. WarnOK(th, TRUE, mem[W1])
    BY <1>1, <2>3, Suffixes DEF WarnOK
  <2>5. WarnOK(th, config_lock' = t, mem[W1])
    BY <2>1, <2>4 DEF WarnOK
  <2>6. \A u \in Thread \ {t} : config_lock' = u <=> config_lock = u
    BY <2>1
  <2>7. thr[t].todo # S2
    BY <1>2, <2>1 DEF Head1
  <2>. QED BY <1>0, <2>5, <2>6, <2>7, WarnQuiet
<1>4. CASE UnlockStep(t)
  <2>1. config_lock' = NoThread /\ Head1(t).do = "unlock" /\ NoThread \notin Thread
    BY <1>4, ConfigAssumption DEF UnlockStep, At
  <2>2. /\ thr[t].op = Getting => thr[t].todo = U1 /\ \E v : thr[t].got = {v}
        /\ thr[t].op = Setting => thr[t].todo = U1
        /\ thr[t].op \notin {Getting, Setting} => Tail(thr[t].todo) = <<>>
        /\ config_lock = t
    BY <1>0, <2>1, WarnTypes, Place, WarnKinds DEF Head1
  <2>3. \A op : <<>> \in Seq(FreeStep(op))
    OBVIOUS
  <2>4. WarnOK(th, FALSE, mem[W1])
    BY <1>1, <2>2, <2>3, Suffixes DEF WarnOK, Outside
  <2>5. WarnOK(th, config_lock' = t, mem[W1])
    BY <2>1, <2>4 DEF WarnOK
  <2>6. \A u \in Thread \ {t} : config_lock' = u <=> config_lock = u
    BY <2>1, <2>2
  <2>7. thr[t].todo # S2
    BY <1>2, <2>1 DEF Head1
  <2>. QED BY <1>0, <2>5, <2>6, <2>7, WarnQuiet
<1>. QED BY <1>3, <1>4

LEMMA WarnRead ==
  ASSUME CallInv, WarnInv, NEW t \in Thread, NeedStep(t) \/ GetStep(t)
  PROVE  WarnInv'
<1>0. /\ thr[t].todo # <<>> /\ Head1(t).do \in {"need", "get"} /\ On
      /\ UNCHANGED <<mem, boot, config_lock>> /\ thr[t] \in Caller
      /\ Tail(thr[t].todo) \in Seq(Instruction)
  BY CallerTypes, NextStep DEF NeedStep, GetStep, At, file
<1>1. thr[t].todo # S2
  <2>1. Head(S2).do = "store"
    BY Suffixes, Words1
  <2>. QED BY <1>0, <2>1 DEF Head1
<1>2. CASE NeedStep(t)
  <2>1. Head1(t).do = "need"
    BY <1>2 DEF NeedStep, At
  <2>2. CASE Advance(t)
    BY <1>0, <2>1, <2>2, WarnPast
  <2>3. CASE ThreadIs(t, [thr[t] EXCEPT !.todo = <<>>])
    <3> DEFINE th == [thr[t] EXCEPT !.todo = <<>>]
    <3>1. <<>> \in Seq(Instruction) /\ \A op : <<>> \in Seq(FreeStep(op))
      OBVIOUS
    <3>2. th.todo = <<>> /\ th.op = thr[t].op /\ th.arg = thr[t].arg
      BY <1>0, <3>1, TodoUpdate
    <3>3. thr' = [thr EXCEPT ![t] = th]
      BY <2>3 DEF ThreadIs
    <3> HIDE DEF th
    <3>4. thr[t].op \notin {Getting, Setting} /\ config_lock # t
      BY <1>0, <2>1, WarnTypes, Place, WarnKinds DEF Head1
    <3>5. WarnOK(th, config_lock' = t, mem[W1])
      BY <1>0, <3>1, <3>2, <3>4 DEF WarnOK, Outside
    <3>. QED BY <1>0, <1>1, <3>3, <3>5, WarnQuiet
  <2>. QED BY <1>2, <2>2, <2>3 DEF NeedStep
<1>3. CASE GetStep(t)
  <2> DEFINE more == {mem[f] : f \in Head1(t).on}
             th == [thr[t] EXCEPT !.todo = Tail(@), !.got = @ \cup more]
  <2>1. thr' = [thr EXCEPT ![t] = th] /\ Head1(t).do = "get"
    BY <1>3 DEF GetStep, ThreadIs, At
  <2> HIDE DEF more
  <2>2. /\ th.todo = Tail(thr[t].todo) /\ th.op = thr[t].op /\ th.arg = thr[t].arg
        /\ th.got = thr[t].got \cup more
    BY <1>0 DEF Caller
  <2> HIDE DEF th
  <2>3. /\ thr[t].op = Getting =>
             \/ thr[t].todo = G1 /\ thr[t].got = {} /\ config_lock = t
             \/ thr[t].todo = G2 /\ thr[t].got = {mem[W1]} /\ config_lock = t
        /\ thr[t].op # Setting
        /\ thr[t].op \notin {Getting, Setting} =>
             IF config_lock = t THEN Inside(HeldStep, Tail(thr[t].todo))
                                ELSE Outside(FreeStep(thr[t].op), HeldStep, Tail(thr[t].todo))
    BY <1>0, <2>1, WarnTypes, Place DEF Head1
  <2>4. CASE thr[t].op \notin {Getting, Setting}
    <3>1. WarnOK(th, config_lock' = t, mem[W1])
      BY <1>0, <2>2, <2>3, <2>4 DEF WarnOK
    <3>. QED BY <1>0, <1>1, <2>1, <3>1, WarnQuiet
  <2>5. CASE thr[t].op = Getting /\ thr[t].todo = G1
    <3>1. more = {mem[W1]}
      BY <2>5, Suffixes, Words1 DEF more, Head1
    <3>2. th.todo = G2 /\ th.got = {mem[W1]} /\ config_lock' = t
      <4>1. G1 # G2
        BY Suffixes, Words1
      <4>. QED BY <1>0, <2>2, <2>3, <2>5, <3>1, <4>1, Suffixes
    <3>3. WarnOK(th, config_lock' = t, mem[W1])
      BY <2>2, <2>5, <3>2, OpWords DEF WarnOK
    <3>. QED BY <1>0, <1>1, <2>1, <3>3, WarnQuiet
  <2>6. CASE thr[t].op = Getting /\ thr[t].todo = G2
    <3>1. more = {mem[W2]}
      BY <2>6, Suffixes, Words1 DEF more, Head1
    <3>2. thr[t].got = {mem[W1]} /\ config_lock = t
      <4>1. G1 # G2
        BY Suffixes, Words1
      <4>. QED BY <2>3, <2>6, <4>1
    <3>3. mem[W1] = mem[W2]
      BY <2>6, <3>2, OpWords DEF WarnInv, Together, HalfSet
    <3>4. th.todo = U1 /\ th.got = {mem[W1]} /\ config_lock' = t
      BY <1>0, <2>2, <2>6, <3>1, <3>2, <3>3, Suffixes
    <3>5. WarnOK(th, config_lock' = t, mem[W1])
      BY <2>2, <2>6, <3>4, OpWords DEF WarnOK
    <3>. QED BY <1>0, <1>1, <2>1, <3>5, WarnQuiet
  <2>. QED BY <2>3, <2>4, <2>5, <2>6
<1>. QED BY <1>2, <1>3

LEMMA WarnChange ==
  ASSUME CallInv, WarnInv, NEW t \in Thread, StoreStep(t) \/ PersistStep(t)
  PROVE  WarnInv'
<1> DEFINE th == Advanced(thr[t])
<1>0. /\ thr[t].todo # <<>> /\ Head1(t).do \in {"store", "persist"} /\ On
      /\ UNCHANGED <<boot, config_lock>> /\ thr' = [thr EXCEPT ![t] = th]
  BY DEF StoreStep, PersistStep, At, file, Advance, ThreadIs, Advanced
<1>1. /\ th.todo = Tail(thr[t].todo) /\ th.op = thr[t].op /\ th.arg = thr[t].arg
      /\ th.got = thr[t].got
  BY <1>0, WarnTypes
<1> HIDE DEF th
<1>2. W1 \in Field /\ W2 \in Field /\ W1 # W2 /\ Warnings = {W1, W2}
  BY Words1
<1>3. Head1(t).do = "store" =>
        mem' = [f \in Field |-> IF f \in Head1(t).on THEN thr[t].arg ELSE mem[f]]
  BY DEF StoreStep, PersistStep, At, Change
<1>4. Head1(t).on \cap Warnings = {} => mem'[W1] = mem[W1] /\ mem'[W2] = mem[W2]
  <2>1. Head1(t).do = "persist" =>
          \/ mem' = mem
          \/ \E g \in Head1(t).on : \E v : mem' = [f \in Field |-> IF f \in {g} THEN v ELSE mem[f]]
    BY DEF StoreStep, PersistStep, At, Change
  <2>. QED BY <1>0, <1>2, <1>3, <2>1
<1>5. /\ thr[t].op # Getting
      /\ thr[t].op = Setting =>
           /\ Head1(t).do = "store" /\ config_lock = t
           /\ \/ thr[t].todo = S1
              \/ thr[t].todo = S2 /\ mem[W1] = thr[t].arg
      /\ thr[t].op \notin {Getting, Setting} =>
           IF config_lock = t
           THEN Head1(t) \in HeldStep /\ Inside(HeldStep, Tail(thr[t].todo))
           ELSE /\ Head1(t) \in PlainStep
                /\ Outside(FreeStep(thr[t].op), HeldStep, Tail(thr[t].todo))
  BY ZenonT(30), <1>0, WarnTypes, Place DEF Head1
<1>6. CASE thr[t].op \notin {Getting, Setting}
  <2>1. \A w : WarnOK(th, config_lock' = t, w)
    BY <1>0, <1>1, <1>5, <1>6 DEF WarnOK
  <2>2. CASE Head1(t).on \cap Warnings = {}
    BY <1>0, <1>4, <1>6, <2>1, <2>2, WarnQuiet
  <2>3. CASE Head1(t).on \cap Warnings # {}
    <3>1. config_lock = t /\ Head1(t).do = "store" /\ Warnings \subseteq Head1(t).on
      BY <1>0, <1>5, <1>6, <2>3, WarnKinds DEF Changing
    <3>2. mem'[W1] = mem'[W2]
      BY <1>2, <1>3, <3>1
    <3>. QED BY <1>0, <2>1, <3>1, <3>2, WarnStep DEF Together
  <2>. QED BY <2>2, <2>3
<1>7. CASE thr[t].op = Setting /\ thr[t].todo = S1
  <2>1. Head1(t).on = {W1} /\ Tail(thr[t].todo) = S2
    BY <1>7, Suffixes, Words1 DEF Head1
  <2>2. mem'[W1] = thr[t].arg
    BY <1>2, <1>3, <1>5, <1>7, <2>1
  <2>3. config_lock' = t /\ thr'[t] = th /\ config_lock = t
    BY <1>0, <1>5, <1>7 DEF CallInv
  <2>4. Together'
    BY <1>1, <1>7, <2>1, <2>3 DEF Together, HalfSet
  <2>5. WarnOK(th, config_lock' = t, mem'[W1])
    BY <1>1, <1>7, <2>1, <2>2, <2>3, OpWords DEF WarnOK
  <2>. QED BY <1>0, <2>3, <2>4, <2>5, WarnStep
<1>8. CASE thr[t].op = Setting /\ thr[t].todo = S2
  <2>1. Head1(t).on = {W2} /\ Tail(thr[t].todo) = S3 /\ S1 # S2
    <3>1. S1 # S2
      <4>1. Head(S1).on # Head(S2).on
        BY Suffixes, Words1
      <4>. QED BY <4>1
    <3>. QED BY <1>8, <3>1, Suffixes, Words1 DEF Head1
  <2>2. mem'[W1] = mem[W1] /\ mem'[W2] = thr[t].arg /\ mem[W1] = thr[t].arg
    BY <1>2, <1>3, <1>5, <1>8, <2>1
  <2>3. config_lock' = t
    BY <1>0, <1>5, <1>8
  <2>4. Together'
    BY <2>2 DEF Together
  <2>5. WarnOK(th, config_lock' = t, mem'[W1])
    BY <1>1, <1>8, <2>1, <2>3, OpWords DEF WarnOK
  <2>. QED BY <1>0, <2>2, <2>3, <2>4, <2>5, WarnStep
<1>. QED BY <1>5, <1>6, <1>7, <1>8

LEMMA WarnSave ==
  ASSUME CallInv, WarnInv, NEW t \in Thread,
         SkipUnchanged(t) \/ OpenParam(t) \/ OpenLocal(t) \/ WriteBlock(t) \/ SaveDone(t)
           \/ WriteDriverInfo(t)
  PROVE  WarnInv'
<1>0. /\ thr[t] \in Caller /\ CallerOK(thr[t], config_lock = t) /\ thr[t].pos \in 0 .. 3
      /\ On /\ UNCHANGED <<mem, boot, config_lock>>
  BY CallerTypes DEF SkipUnchanged, OpenParam, OpenLocal, WriteBlock, SaveDone, WriteDriverInfo,
     At, Saving, SaveFails, On
<1>1. thr[t].todo # <<>> /\ Head1(t).do \in Saves \cup {"SaveDriverInfo"}
  BY <1>0 DEF SkipUnchanged, OpenParam, OpenLocal, WriteBlock, SaveDone, WriteDriverInfo,
     At, Saving, CallerOK, Head1, Saves
<1>2. CASE Advance(t)
  BY <1>0, <1>1, <1>2, WarnPast DEF Saves
<1>3. CASE ThreadIs(t, [thr[t] EXCEPT !.save = "write"]) /\ Head1(t).do \in Saves
  <2> DEFINE th == [thr[t] EXCEPT !.save = "write"]
  <2>1. th.todo = thr[t].todo /\ th.op = thr[t].op /\ th.arg = thr[t].arg /\ th.got = thr[t].got
    BY <1>0, SaveUpdate
  <2>2. thr' = [thr EXCEPT ![t] = th]
    BY <1>3 DEF ThreadIs
  <2> HIDE DEF th
  <2>. QED BY <1>0, <1>1, <1>3, <2>1, <2>2, WarnStay
<1>4. ASSUME NEW pos, pos = thr[t].pos + 1, ThreadIs(t, [thr[t] EXCEPT !.pos = pos]),
             thr[t].pos < Whole, Head1(t).do \in Saves
      PROVE  WarnInv'
  <2> DEFINE th == [thr[t] EXCEPT !.pos = pos]
  <2>1. pos \in 0 .. 3
    BY <1>0, <1>4, Numbers
  <2>2. th.todo = thr[t].todo /\ th.op = thr[t].op /\ th.arg = thr[t].arg /\ th.got = thr[t].got
    BY <1>0, <2>1, SaveUpdate
  <2>3. thr' = [thr EXCEPT ![t] = th]
    BY <1>4 DEF ThreadIs
  <2> HIDE DEF th
  <2>. QED BY <1>0, <1>1, <1>4, <2>2, <2>3, WarnStay
<1>5. CASE WriteBlock(t)
  <2>1. Head1(t).do \in Saves
    BY <1>0, <1>5 DEF WriteBlock, Saving, CallerOK, Head1
  <2>. QED BY <1>2, <1>4, <1>5, <2>1 DEF WriteBlock, SaveFails
<1>6. CASE OpenParam(t) \/ OpenLocal(t)
  BY <1>2, <1>3, <1>6 DEF OpenParam, OpenLocal, SaveFails, At, Saves
<1>7. CASE SkipUnchanged(t) \/ SaveDone(t) \/ WriteDriverInfo(t)
  BY <1>2, <1>7 DEF SkipUnchanged, SaveDone, SaveFails, WriteDriverInfo
<1>. QED BY <1>5, <1>6, <1>7

LEMMA WarnCall ==
  ASSUME CallInv, WarnInv, WarningsGuarded, NEW t \in Thread, ConfigCall(t) \/ ConfigReturn(t)
  PROVE  WarnInv'
<1>0. On /\ UNCHANGED <<mem, boot, config_lock>> /\ thr[t].todo = <<>>
  BY CallerTypes DEF ConfigCall, ConfigReturn, CallerOK
<1>1. config_lock # t
  <2>1. CallerOK(thr[t], config_lock = t)
    BY CallerTypes
  <2>2. ~Inside(HeldType, thr[t].todo)
    BY <1>0, InsideTail
  <2>. QED BY <2>1, <2>2 DEF CallerOK
<1>2. thr[t].todo # S2
  BY <1>0, Suffixes
<1>3. CASE ConfigReturn(t)
  <2>1. thr' = [thr EXCEPT ![t] = Idle]
    BY <1>3 DEF ConfigReturn, ThreadIs
  <2>2. \A op : <<>> \in Seq(FreeStep(op))
    OBVIOUS
  <2>3. WarnOK(Idle, config_lock' = t, mem[W1])
    BY <1>0, <1>1, <2>2, IdleOK, OpWords DEF WarnOK, Outside
  <2>. QED BY <1>0, <1>2, <2>1, <2>3, WarnQuiet
<1>4. ASSUME NEW op \in Calls[t], NEW v \in Requests, NEW program \in Function[op],
             ThreadIs(t, [Idle EXCEPT !.op = op, !.todo = program, !.arg = v])
      PROVE  WarnInv'
  <2> DEFINE th == [Idle EXCEPT !.op = op, !.todo = program, !.arg = v]
  <2>1. op \in DOMAIN Function /\ op # "SystemGlobal_Get_Config_Param"
    BY CallsAssumption DEF WarningsGuarded
  <2>2. th.op = op /\ th.todo = program /\ th.arg = v /\ th.got = {}
    BY DEF Idle
  <2>3. thr' = [thr EXCEPT ![t] = th]
    BY <1>4 DEF ThreadIs
  <2> HIDE DEF th
  <2>4. op = Getting => program = G0
    BY Programs DEF Getting, G0
  <2>5. op = Setting => program = S0
    BY Programs DEF Setting, S0
  <2>6. op \notin {Getting, Setting} => Outside(FreeStep(op), HeldStep, program)
    BY <2>1, Programs DEF Apart, Quiet, Special, Getting, Setting, FreeStep
  <2>7. WarnOK(th, config_lock' = t, mem[W1])
    BY <1>0, <1>1, <2>2, <2>4, <2>5, <2>6, OpWords DEF WarnOK
  <2>. QED BY <1>0, <1>2, <2>3, <2>7, WarnQuiet
<1>. QED BY <1>3, <1>4 DEF ConfigCall

\* The warnings are in one block.
LEMMA OneBlock == \A i \in 1 .. 3 : W1 \in Blocks[i] <=> W2 \in Blocks[i]
<1>1. Blocks[1] = MainFields /\ Blocks[2] = PersistFields
      /\ Blocks[3] = AbdFields \ PersistFields
  BY DEF Blocks
<1>2. {W1, W2} \subseteq AbdFields /\ {W1, W2} \cap MainFields = {}
      /\ {W1, W2} \cap PersistFields = {}
  BY Fields, Words1
<1>3. \A i \in 1 .. 3 : i = 1 \/ i = 2 \/ i = 3
  OBVIOUS
<1>. QED BY <1>1, <1>2, <1>3

LEMMA ReadTogether ==
  ASSUME NEW data, data[W1] = data[W2], NEW len
  PROVE  FromFile(len, data)[W1] = FromFile(len, data)[W2]
  BY OneBlock, Words1, Numbers DEF FromFile

LEMMA DefaultWarnings == NeverSet[W1] = NeverSet[W2] /\ Defaults[W1] = Defaults[W2]
<1>1. W1 \in Field /\ W2 \in Field /\ W1 \in DefaultedFields /\ W2 \in DefaultedFields
  BY Words1 DEF DefaultedFields, AdasFields, W1, W2
<1>2. NeverSet[W1] = NeverSet[W2]
  BY <1>1 DEF NeverSet
<1>3. \A cfg : LoadDefaultABDParam(cfg)[W1] = LoadDefaultABDParam(cfg)[W2]
  BY <1>1 DEF LoadDefaultABDParam, SetDefault
<1>. QED BY <1>2, <1>3 DEF Defaults

LEMMA WarnStart ==
  ASSUME CallInv, WarnInv, ReadLocalParam \/ LoadDefaultLocalParam
  PROVE  WarnInv'
<1>1. CASE ReadLocalParam
  <2>1. /\ boot.at = "read" /\ UNCHANGED <<thr, config_lock>> /\ mem' = FromFile(flen, fdata)
        /\ boot'.at # "read"
    BY <1>1 DEF ReadLocalParam, BootTo
  <2>2. FromFile(flen, fdata)[W1] = FromFile(flen, fdata)[W2]
    <3>1. fdata[W1] = fdata[W2]
      BY <2>1 DEF WarnInv
    <3>. QED BY <3>1, ReadTogether
  <2>3. Together'
    BY <2>1, <2>2 DEF Together
  <2>4. ASSUME NEW t \in Thread
        PROVE  WarnOK(thr'[t], config_lock' = t, mem'[W1])
    <3>1. thr[t].op = "none" /\ WarnOK(thr[t], config_lock = t, mem[W1])
      BY <2>1 DEF WarnInv
    <3>. QED BY <2>1, <3>1, OpWords DEF WarnOK
  <2>. QED BY <2>1, <2>3, <2>4 DEF WarnInv
<1>2. CASE LoadDefaultLocalParam
  <2>1. UNCHANGED <<thr, mem, config_lock>> /\ boot'.at # "read"
    BY <1>2 DEF LoadDefaultLocalParam, BootTo
  <2>. QED BY <2>1 DEF WarnInv, Together, HalfSet
<1>. QED BY <1>1, <1>2

LEMMA WarnStop ==
  ASSUME WarnInv, FileWarnInv, StopProcess
  PROVE  WarnInv'
<1>1. /\ "stop" \in ConfigFaults /\ mem' = NeverSet /\ config_lock' = NoThread
      /\ thr' = [t \in Thread |-> Idle] /\ fdata' = fdata /\ NoThread \notin Thread
  BY ConfigAssumption DEF StopProcess, file
<1>2. mem'[W1] = mem'[W2] /\ fdata'[W1] = fdata'[W2]
  BY <1>1, DefaultWarnings DEF FileWarnInv
<1>3. \A op : <<>> \in Seq(FreeStep(op))
  OBVIOUS
<1>4. \A t \in Thread : thr'[t] = Idle /\ ~(config_lock' = t)
  BY <1>1
<1>5. \A t \in Thread : WarnOK(thr'[t], config_lock' = t, mem'[W1])
  BY <1>3, <1>4, IdleOK, OpWords DEF WarnOK, Outside
<1>. QED BY <1>2, <1>4, <1>5, IdleOK DEF WarnInv, Together

\* Where a function stays its caller's.
LEMMA OpsCalled ==
  ASSUME CallInv, FileWarnInv, [ConfigNext]_cfgVars
  PROVE  \A t \in Thread : thr'[t].op \in Calls[t] \cup {"none"}
<1>1. CASE UNCHANGED thr
  BY <1>1 DEF FileWarnInv
<1>2. CASE thr' = [t \in Thread |-> Idle]
  BY <1>2, IdleOK
<1>3. ASSUME NEW t \in Thread, NEW th, ThreadIs(t, th), th.op \in Calls[t] \cup {"none"}
      PROVE  \A u \in Thread : thr'[u].op \in Calls[u] \cup {"none"}
  <2>1. \A u \in Thread : thr'[u] = IF u = t THEN th ELSE thr[u]
    BY <1>3 DEF ThreadIs, CallInv
  <2>. QED BY <1>3, <2>1 DEF FileWarnInv
<1>4. ASSUME NEW t \in Thread, ConfigCall(t)
      PROVE  \A u \in Thread : thr'[u].op \in Calls[u] \cup {"none"}
  <2>1. PICK op \in Calls[t], v \in Requests : \E program \in Function[op] :
          ThreadIs(t, [Idle EXCEPT !.op = op, !.todo = program, !.arg = v])
    BY <1>4 DEF ConfigCall
  <2>2. PICK program \in Function[op] :
          ThreadIs(t, [Idle EXCEPT !.op = op, !.todo = program, !.arg = v])
    BY <2>1
  <2>3. [Idle EXCEPT !.op = op, !.todo = program, !.arg = v].op = op
    BY DEF Idle
  <2>. QED BY <1>3, <2>2, <2>3
<1>5. ASSUME NEW t \in Thread, ConfigStep(t)
      PROVE  \A u \in Thread : thr'[u].op \in Calls[u] \cup {"none"}
  <2>1. thr[t] \in Caller /\ thr[t].op \in Calls[t] \cup {"none"}
    BY CallerTypes DEF FileWarnInv
  <2>2. \E th : ThreadIs(t, th) /\ th.op \in {thr[t].op, "none"}
    <3>1. /\ \A todo : [thr[t] EXCEPT !.todo = todo].op = thr[t].op
          /\ [thr[t] EXCEPT !.save = "write"].op = thr[t].op
          /\ \A pos : [thr[t] EXCEPT !.pos = pos].op = thr[t].op
          /\ [thr[t] EXCEPT !.todo = Tail(@), !.save = "no", !.pos = 0].op = thr[t].op
          /\ \A more :
               [thr[t] EXCEPT !.todo = Tail(@), !.got = @ \cup more].op = thr[t].op
      BY <2>1 DEF Caller
    <3>2. CASE Advance(t)
      BY <3>1, <3>2 DEF Advance
    <3>3. CASE LockStep(t) \/ UnlockStep(t) \/ StoreStep(t) \/ PersistStep(t)
                 \/ SkipUnchanged(t) \/ SaveDone(t) \/ WriteDriverInfo(t)
      BY <3>2, <3>3 DEF LockStep, UnlockStep, StoreStep, PersistStep, SkipUnchanged,
         SaveDone, WriteDriverInfo, SaveFails
    <3>4. CASE NeedStep(t) \/ OpenParam(t) \/ OpenLocal(t)
      BY <3>1, <3>2, <3>4 DEF NeedStep, OpenParam, OpenLocal, SaveFails
    <3>5. CASE GetStep(t)
      BY <3>1, <3>5 DEF GetStep
    <3>6. CASE WriteBlock(t)
      BY <3>1, <3>2, <3>6 DEF WriteBlock, SaveFails
    <3>7. CASE ConfigReturn(t)
      BY <3>7, IdleOK DEF ConfigReturn
    <3>. QED BY <1>5, <3>3, <3>4, <3>5, <3>6, <3>7 DEF ConfigStep
  <2>. QED BY <1>3, <2>1, <2>2
<1>6. CASE ReadLocalParam \/ LoadDefaultLocalParam
  BY <1>1, <1>6 DEF ReadLocalParam, LoadDefaultLocalParam
<1>7. CASE StopProcess
  BY <1>2, <1>7 DEF StopProcess
<1>8. CASE UNCHANGED cfgVars
  BY <1>1, <1>8 DEF cfgVars
<1>. QED BY <1>4, <1>5, <1>6, <1>7, <1>8 DEF ConfigNext

\* A save that runs while a setter is halfway is one without the lock.
LEMMA SavesTogether ==
  ASSUME CallInv, WarnInv, FileWarnInv, WarningsGuarded, "stop" \in ConfigFaults,
         NEW t \in Thread, Saving(t, "write")
  PROVE  mem[W1] = mem[W2]
<1> SUFFICES ASSUME NEW u \in Thread, HalfSet(u)
             PROVE  FALSE
  BY DEF WarnInv, Together
<1>1. thr[t].todo # <<>> /\ Head(thr[t].todo).do \in Saves
  BY CallerTypes DEF Saving, CallerOK
<1>2. t # u
  <2>1. Head(S2).do = "store"
    BY Suffixes, Words1
  <2>. QED BY <1>1, <2>1 DEF HalfSet, Saves
<1>3. ~(config_lock = t)
  BY <1>2 DEF HalfSet
<1>4. thr[t].op \notin {Getting, Setting} /\ Head(thr[t].todo) \in FreeStep(thr[t].op)
  BY <1>1, <1>3, WarnTypes, Place, Words1 DEF Saves
<1>5. thr[t].op \in PlainSavers
  BY <1>1, <1>4 DEF FreeStep, QuietStep
<1>6. thr[t].op \in Calls[t] /\ Setting \in Calls[u]
  <2>1. thr[t].op \in Calls[t] \cup {"none"} /\ thr[u].op \in Calls[u] \cup {"none"}
    BY DEF FileWarnInv
  <2>2. "none" \notin PlainSavers /\ thr[u].op = Setting
    BY DEF PlainSavers, HalfSet
  <2>. QED BY <1>5, <2>1, <2>2, OpWords
<1>7. Calls[t] \cap PlainSavers = {}
  BY <1>2, <1>6 DEF WarningsGuarded
<1>. QED BY <1>5, <1>6, <1>7

LEMMA FileWarnStep ==
  ASSUME CallInv, WarnInv, FileWarnInv, WarningsGuarded, [ConfigNext]_cfgVars
  PROVE  FileWarnInv'
<1> SUFFICES ASSUME "stop" \in ConfigFaults
             PROVE  fdata'[W1] = fdata'[W2]
  BY OpsCalled DEF FileWarnInv
<1>1. fdata[W1] = fdata[W2]
  BY DEF FileWarnInv
<1>2. CASE fdata' \in {fdata, NeverSet}
  BY <1>1, <1>2, DefaultWarnings
<1>3. CASE LoadDefaultLocalParam
  <2>1. fdata' \in {fdata, NeverSet} \/ \E len : fdata' = FromFile(len, Defaults)
    BY <1>3 DEF LoadDefaultLocalParam, file
  <2>. QED BY <1>2, <2>1, ReadTogether, DefaultWarnings
<1>4. ASSUME NEW t \in Thread, WriteBlock(t)
      PROVE  fdata'[W1] = fdata'[W2]
  <2>1. CASE fdata' = fdata
    BY <1>1, <2>1
  <2>2. CASE fdata' # fdata
    <3> DEFINE pos == thr[t].pos + 1
    <3>1. /\ fdata' = [f \in Field |-> IF f \in Blocks[pos] THEN mem[f] ELSE fdata[f]]
          /\ Saving(t, "write") /\ thr[t].pos < Whole
      BY <1>4, <2>2 DEF WriteBlock, SaveFails, file
    <3>2. pos \in 1 .. 3
      BY <3>1, CallerTypes, Numbers
    <3>3. mem[W1] = mem[W2]
      BY <3>1, SavesTogether
    <3> HIDE DEF pos
    <3>. QED BY <1>1, <3>1, <3>2, <3>3, OneBlock, Words1
  <2>. QED BY <2>1, <2>2
<1>5. ASSUME NEW t \in Thread, ConfigCall(t) \/ ConfigStep(t), ~WriteBlock(t)
      PROVE  fdata' \in {fdata, NeverSet}
  BY <1>5 DEF ConfigCall, ConfigStep, LockStep, UnlockStep, NeedStep, GetStep, StoreStep,
     PersistStep, SkipUnchanged, OpenParam, OpenLocal, SaveDone, WriteDriverInfo,
     ConfigReturn, SaveFails, file
<1>6. CASE UNCHANGED cfgVars \/ ReadLocalParam \/ StopProcess
  BY <1>2, <1>6 DEF cfgVars, ReadLocalParam, StopProcess, file
<1>. QED BY <1>2, <1>3, <1>4, <1>5, <1>6 DEF ConfigNext

\* Who asks for the ADAS warnings gets those of one caller, whatever the other threads
\* call and, if no other thread saves without the lock, across stops of the process as
\* well; but for the user interface, which stores all of the configuration without the
\* lock (rk_adas_get_config, rk_adas_set_config, SaveLocalParam).
THEOREM WarningsCorrect == WarningsGuarded => (ConfigSpec => []AdasWarningsWhole)
<1> SUFFICES ASSUME WarningsGuarded
             PROVE  ConfigSpec => []AdasWarningsWhole
  OBVIOUS
<1>1. ConfigInit => WarnInv /\ FileWarnInv
  <2> SUFFICES ASSUME ConfigInit
               PROVE  WarnInv /\ FileWarnInv
    OBVIOUS
  <2>1. /\ thr = [t \in Thread |-> Idle] /\ mem = NeverSet /\ config_lock = NoThread
        /\ fdata \in {NeverSet, Defaults} /\ NoThread \notin Thread
    BY ConfigAssumption DEF ConfigInit
  <2>2. fdata[W1] = fdata[W2] /\ mem[W1] = mem[W2]
    BY <2>1, DefaultWarnings
  <2>5. \A op : <<>> \in Seq(FreeStep(op))
    OBVIOUS
  <2>6. \A t \in Thread : WarnOK(thr[t], config_lock = t, mem[W1])
    BY <2>1, <2>5, IdleOK, OpWords DEF WarnOK, Outside
  <2>. QED BY <2>1, <2>2, <2>6, IdleOK DEF WarnInv, FileWarnInv, Together
<1>2. CallInv /\ WarnInv /\ FileWarnInv /\ [ConfigNext]_cfgVars => (WarnInv /\ FileWarnInv)'
  <2> SUFFICES ASSUME CallInv, WarnInv, FileWarnInv, [ConfigNext]_cfgVars
               PROVE  WarnInv'
    BY FileWarnStep
  <2>1. CASE UNCHANGED cfgVars
    BY <2>1 DEF cfgVars, file, WarnInv, Together, HalfSet
  <2>2. CASE ReadLocalParam \/ LoadDefaultLocalParam
    BY <2>2, WarnStart
  <2>3. CASE StopProcess
    BY <2>3, WarnStop
  <2>4. ASSUME NEW t \in Thread, ConfigCall(t) \/ ConfigStep(t)
        PROVE  WarnInv'
    BY <2>4, WarnLock, WarnRead, WarnChange, WarnSave, WarnCall DEF ConfigStep
  <2>. QED BY <2>1, <2>2, <2>3, <2>4 DEF ConfigNext
<1>3. WarnInv => AdasWarningsWhole
  <2> SUFFICES ASSUME WarnInv, NEW t \in Thread, thr[t].op = Getting
               PROVE  Cardinality(thr[t].got) <= 1
    BY DEF AdasWarningsWhole, Getting
  <2>1. thr[t].got = {} \/ \E v : thr[t].got = {v}
    BY OpWords DEF WarnInv, WarnOK
  <2>2. Cardinality({}) = 0 /\ \A v : Cardinality({v}) = 1
    BY FS_EmptySet, FS_Singleton
  <2>. QED BY SMTT(30), <2>1, <2>2
<1>. QED BY <1>1, <1>2, <1>3, CallInvHolds, PTL DEF ConfigSpec

=============================================================================
