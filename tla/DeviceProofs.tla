---------------------------- MODULE DeviceProofs ----------------------------
(***************************************************************************)
(* Theorems about the device's own components, one part for each: the      *)
(* overspeed monitor, the kit identity, local streaming, the pictures of   *)
(* an incident, the audio of a channel and the base64 functions.  They     *)
(* share no state, so each part has its own specification and its own      *)
(* invariant.                                                              *)
(***************************************************************************)
EXTENDS Overspeed, KitIdentity, LocalStream, IncidentImages, AacTranscode, Base64,
        SequenceTheorems, FiniteSetTheorems, WellFoundedInduction, TLAPS

(***************************************************************************)
(* The overspeed monitor.  Both properties hold at the end of a pass       *)
(* because of what its earlier steps have seen, so the invariant says how  *)
(* far the pass is.                                                        *)
(***************************************************************************)
Config == [enabled : BOOLEAN, preWarningSpeed : Nat, speedThreshold : Nat,
           preWarningInterval : Nat, warningInterval : Nat,
           persistenceDuration : Nat]

SpeedTypeOK ==
  /\ speed_cfg \in Config /\ speed_cfg \in SpeedConfigs
  /\ current_time \in Nat /\ current_speed \in Nat
  /\ last_alarm_warning_time \in Nat /\ last_overspeed_time \in Nat
  /\ last_pre_warning_state \in {0, 1}
  /\ platform \in [warning : BOOLEAN, alarm : BOOLEAN]
  /\ speedAt \in {"sleep", "cancel", "cancelWarning", "warn", "alarm"}
  /\ passes \in Nat /\ since_over \in Nat

\* The thread remembers what it has told the platform; at the end of a pass that is the
\* warning the speed calls for.
WarningInv ==
  /\ platform.warning <=> last_pre_warning_state = 1
  /\ speedAt = "warn" => (platform.warning => Between)
  /\ speedAt = "alarm" => (platform.warning <=> Between)
  /\ WarningFollowsSpeed

\* The times the thread compares: the begin of speeding is never taken back, and is
\* not later than that of the speeding that lasts.
TimeInv ==
  /\ last_alarm_state = 0
  /\ speedAt # "sleep" => speed_cfg.enabled
  /\ current_time >= FirstSecond
  /\ last_alarm_warning_time # 0 => last_alarm_warning_time \in alarms
  /\ last_overspeed_time <= current_time /\ since_over <= current_time
  /\ Over <=> since_over # 0
  /\ since_over # 0 /\ last_overspeed_time # 0 => last_overspeed_time <= since_over
  /\ since_over # 0 /\ last_overspeed_time = 0 /\ speed_cfg.enabled =>
       speedAt # "sleep" /\ since_over = current_time

SpeedInv == SpeedTypeOK /\ WarningInv /\ TimeInv /\ LastingSpeedIsReported

-----------------------------------------------------------------------------
\* At the start nothing has been told and no speed seen.
LEMMA InitHolds == SpeedInit => SpeedInv
<1> SUFFICES ASSUME SpeedInit PROVE SpeedInv
  OBVIOUS
<1>1. speed_cfg \in Config
  BY SpeedAssumption DEF SpeedInit, Config
<1>2. SpeedTypeOK
  BY <1>1, SpeedAssumption DEF SpeedInit, SpeedTypeOK
<1>3. WarningInv
  BY DEF SpeedInit, WarningInv, WarningFollowsSpeed
<1>4. TimeInv
  BY <1>1, SpeedAssumption DEF SpeedInit, TimeInv, Over, alarm_warn, Config
<1>5. LastingSpeedIsReported
  BY DEF SpeedInit, LastingSpeedIsReported
<1> QED
  BY <1>2, <1>3, <1>4, <1>5 DEF SpeedInv

\* A new second: only the clock, the speed and the begin of the speeding change.
LEMMA PassHolds == SpeedInv /\ Pass => SpeedInv'
<1> SUFFICES ASSUME SpeedInv, Pass PROVE SpeedInv'
  OBVIOUS
<1> USE DEF SpeedInv
<1>1. PICK s \in Speeds, p \in Pauses :
        /\ current_speed' = s /\ current_time' = current_time + p
        /\ since_over' = IF s >= alarm_warn /\ alarm_warn > 0
                         THEN IF since_over = 0 THEN current_time + p ELSE since_over
                         ELSE 0
  BY DEF Pass
<1>2. s \in Nat /\ p \in Nat /\ p > 0
  BY SpeedAssumption
<1>3. speed_cfg' = speed_cfg /\ alarm_warn' = alarm_warn /\ pre_warn' = pre_warn
  BY DEF Pass, alarm_warn, pre_warn
<1>4. alarm_warn \in Nat /\ FirstSecond \in Nat \ {0}
  BY SpeedAssumption DEF SpeedTypeOK, Config, alarm_warn
<1>5. SpeedTypeOK'
  BY <1>1, <1>2, <1>3, <1>4 DEF SpeedTypeOK, Pass, lastVars, stateVars
<1>6. WarningInv'
  BY <1>3 DEF WarningInv, WarningFollowsSpeed, Pass, lastVars, stateVars
<1>7. TimeInv'
  <2>1. /\ last_alarm_state' = 0 /\ current_time' >= FirstSecond
        /\ speedAt' # "sleep" => speed_cfg'.enabled
    BY <1>1, <1>2, <1>4 DEF TimeInv, Pass, stateVars, SpeedTypeOK
  <2>2. (last_alarm_warning_time # 0 => last_alarm_warning_time \in alarms)'
    BY DEF TimeInv, Pass, lastVars
  <2>3. (last_overspeed_time <= current_time /\ since_over <= current_time)'
    BY <1>1, <1>2 DEF TimeInv, Pass, lastVars, SpeedTypeOK
  <2>4. (Over <=> since_over # 0)'
    BY <1>1, <1>2, <1>3, <1>4 DEF TimeInv, Over, SpeedTypeOK
  <2>5. (since_over # 0 /\ last_overspeed_time # 0 => last_overspeed_time <= since_over)'
    BY <1>1, <1>2 DEF TimeInv, Pass, lastVars, SpeedTypeOK
  <2>6. (since_over # 0 /\ last_overspeed_time = 0 /\ speed_cfg.enabled =>
           speedAt # "sleep" /\ since_over = current_time)'
    BY <1>1, <1>2, <1>3 DEF TimeInv, Pass, lastVars, SpeedTypeOK
  <2> QED
    BY <2>1, <2>2, <2>3, <2>4, <2>5, <2>6 DEF TimeInv
<1>8. LastingSpeedIsReported'
  BY <1>3 DEF LastingSpeedIsReported, Pass
<1> QED
  BY <1>5, <1>6, <1>7, <1>8

\* No alarm is ever remembered, so there is none to cancel.
LEMMA CancelAlarmHolds == SpeedInv /\ CancelAlarm => SpeedInv'
<1> SUFFICES ASSUME SpeedInv, CancelAlarm PROVE SpeedInv'
  OBVIOUS
<1> USE DEF SpeedInv
<1>1. UNCHANGED <<platform, last_alarm_state, last_overspeed_time>>
  BY DEF CancelAlarm, TimeInv
<1>2. UNCHANGED <<speed_cfg, current_time, current_speed, last_pre_warning_time,
        last_alarm_warning_time, last_overspeed_time, last_alarm_state,
        last_pre_warning_state, platform, passes, alarms, since_over>>
  BY <1>1 DEF CancelAlarm, TimeInv
<1>3. speedAt = "cancel" /\ speedAt' = "cancelWarning"
  BY DEF CancelAlarm
<1> QED
  BY <1>2, <1>3 DEF SpeedTypeOK, WarningInv, TimeInv, WarningFollowsSpeed,
     LastingSpeedIsReported, Over, Between, alarm_warn, pre_warn, Since

\* A warning that stays is one the speed still calls for.
LEMMA CancelWarningHolds == SpeedInv /\ CancelWarning => SpeedInv'
<1> SUFFICES ASSUME SpeedInv, CancelWarning PROVE SpeedInv'
  OBVIOUS
<1> USE DEF SpeedInv, CancelWarning, CancelWarningIf
<1>1. speedAt = "cancelWarning" /\ speedAt' = "warn"
  OBVIOUS
<1>2. alarm_warn' = alarm_warn /\ pre_warn' = pre_warn
  BY DEF alarm_warn, pre_warn
<1>3. alarm_warn \in Nat /\ pre_warn \in Nat
  BY DEF SpeedTypeOK, Config, alarm_warn, pre_warn
<1>4. SpeedTypeOK'
  BY <1>1 DEF SpeedTypeOK, lastVars
<1>5. platform' \in [warning : BOOLEAN, alarm : BOOLEAN]
  BY <1>4 DEF SpeedTypeOK
<1>6. (platform.warning <=> last_pre_warning_state = 1)'
  BY DEF SpeedTypeOK, WarningInv
<1>7. platform'.warning => Between'
  BY <1>2, <1>3, <1>6 DEF SpeedTypeOK, WarningInv, Between
<1>8. WarningInv'
  BY <1>1, <1>6, <1>7 DEF WarningInv, WarningFollowsSpeed
<1>9. TimeInv'
  BY <1>1, <1>2 DEF TimeInv, lastVars, Over
<1>10. LastingSpeedIsReported'
  BY <1>1 DEF LastingSpeedIsReported
<1> QED
  BY <1>4, <1>8, <1>9, <1>10

\* A warning the speed calls for is given.
LEMMA PreWarningHolds == SpeedInv /\ PreWarning => SpeedInv'
<1> SUFFICES ASSUME SpeedInv, PreWarning PROVE SpeedInv'
  OBVIOUS
<1> USE DEF SpeedInv, PreWarning
<1>1. speedAt = "warn" /\ speedAt' = "alarm"
  OBVIOUS
<1>2. UNCHANGED <<alarm_warn, pre_warn, Between, Over>>
  BY DEF alarm_warn, pre_warn, Between, Over
<1>3. SpeedTypeOK'
  BY <1>1 DEF SpeedTypeOK
<1>4. (platform.warning <=> last_pre_warning_state = 1)'
  BY DEF SpeedTypeOK, WarningInv
<1>5. platform'.warning <=> Between'
  BY <1>1, <1>2 DEF SpeedTypeOK, WarningInv
<1>6. WarningInv'
  BY <1>1, <1>4, <1>5 DEF WarningInv, WarningFollowsSpeed
<1>7. TimeInv'
  BY <1>1, <1>2 DEF TimeInv
<1>8. LastingSpeedIsReported'
  BY <1>1 DEF LastingSpeedIsReported
<1> QED
  BY <1>3, <1>6, <1>7, <1>8

\* What lasts is long enough for an alarm, or the last one was raised since it began.
LEMMA AlarmHolds == SpeedInv /\ Alarm => SpeedInv'
<1> SUFFICES ASSUME SpeedInv, Alarm PROVE SpeedInv'
  OBVIOUS
<1> DEFINE begin == IF Over /\ last_overspeed_time = 0 THEN current_time
                    ELSE last_overspeed_time
           raised == /\ Over
                     /\ current_time - begin >= speed_cfg.persistenceDuration
                     /\ current_time - last_alarm_warning_time
                          >= speed_cfg.warningInterval
<1> USE DEF SpeedInv
<1>1. /\ speedAt = "alarm" /\ speedAt' = "sleep" /\ last_overspeed_time' = begin
      /\ UNCHANGED <<speed_cfg, current_time, current_speed, last_alarm_state,
                     last_pre_warning_state, passes, since_over>>
  BY DEF Alarm, AlarmAfter, stateVars
<1>2. IF raised
      THEN /\ platform' = [platform EXCEPT !.alarm = TRUE]
           /\ last_alarm_warning_time' = current_time
           /\ alarms' = alarms \cup {current_time}
      ELSE UNCHANGED <<platform, last_alarm_warning_time, alarms>>
  BY DEF Alarm, AlarmAfter, Since
<1>3. UNCHANGED <<Over, Between>>
  BY <1>1 DEF Over, Between, alarm_warn, pre_warn
<1>4. platform' \in [warning : BOOLEAN, alarm : BOOLEAN] /\ platform'.warning = platform.warning
  BY <1>2 DEF SpeedTypeOK
<1>5. begin \in Nat /\ begin <= current_time
  BY DEF SpeedTypeOK, TimeInv
<1>6. last_alarm_warning_time' \in Nat
  BY <1>2 DEF SpeedTypeOK
<1>7. SpeedTypeOK'
  BY <1>1, <1>4, <1>5, <1>6 DEF SpeedTypeOK
<1>8. WarningInv'
  BY <1>1, <1>3, <1>4 DEF WarningInv, WarningFollowsSpeed
<1>9. since_over # 0 => begin # 0 /\ begin <= since_over
  <2> SUFFICES ASSUME since_over # 0 PROVE begin # 0 /\ begin <= since_over
    OBVIOUS
  <2>1. Over /\ speed_cfg.enabled
    BY <1>1 DEF TimeInv
  <2> QED
    BY <2>1, SpeedAssumption DEF TimeInv, SpeedTypeOK
<1>10. TimeInv'
  <2>1. (last_alarm_warning_time # 0 => last_alarm_warning_time \in alarms)'
    BY <1>1, <1>2 DEF TimeInv
  <2> QED
    BY <1>1, <1>3, <1>5, <1>9, <2>1 DEF TimeInv
<1>11. LastingSpeedIsReported'
  <2> DEFINE lasts == IF speed_cfg.persistenceDuration > speed_cfg.warningInterval
                      THEN speed_cfg.persistenceDuration ELSE speed_cfg.warningInterval
  <2> SUFFICES ASSUME since_over # 0, current_time - since_over >= lasts
               PROVE  \E a \in alarms' : a >= since_over
    BY <1>1 DEF LastingSpeedIsReported, Since
  <2>1. /\ speed_cfg.persistenceDuration \in Nat /\ speed_cfg.warningInterval \in Nat
        /\ speed_cfg.warningInterval <= FirstSecond /\ FirstSecond \in Nat \ {0}
    BY SpeedAssumption DEF SpeedTypeOK, Config
  <2>2. /\ current_time - since_over >= speed_cfg.persistenceDuration
        /\ current_time - since_over >= speed_cfg.warningInterval
    BY <2>1 DEF SpeedTypeOK
  <2>3. Over /\ current_time - begin >= speed_cfg.persistenceDuration
    BY <1>5, <1>9, <2>1, <2>2 DEF TimeInv, SpeedTypeOK
  <2>4. CASE raised
    <3>1. current_time \in alarms' /\ current_time >= since_over
      BY <1>2, <2>4 DEF TimeInv
    <3> QED
      BY <3>1
  <2>5. CASE ~raised
    <3>1. current_time - last_alarm_warning_time < speed_cfg.warningInterval
      BY <2>1, <2>3, <2>5 DEF SpeedTypeOK
    <3>2. last_alarm_warning_time # 0 /\ last_alarm_warning_time >= since_over
      BY <2>1, <2>2, <3>1 DEF TimeInv, SpeedTypeOK
    <3>3. last_alarm_warning_time \in alarms'
      BY <1>2, <2>5, <3>2 DEF TimeInv
    <3> QED
      BY <3>2, <3>3
  <2> QED
    BY <2>4, <2>5
<1> QED
  BY <1>7, <1>8, <1>10, <1>11

\* Every step of the thread keeps the invariant.
LEMMA SpeedInductive == SpeedInv /\ [OverspeedMonitorThread]_speedVars => SpeedInv'
<1> SUFFICES ASSUME SpeedInv, [OverspeedMonitorThread]_speedVars PROVE SpeedInv'
  OBVIOUS
<1>1. CASE OverspeedMonitorThread
  BY <1>1, PassHolds, CancelAlarmHolds, CancelWarningHolds, PreWarningHolds, AlarmHolds
  DEF OverspeedMonitorThread
<1>2. CASE UNCHANGED speedVars
  BY <1>2 DEF speedVars, lastVars, stateVars, SpeedInv, SpeedTypeOK, WarningInv, TimeInv,
     WarningFollowsSpeed, LastingSpeedIsReported, Over, Between, alarm_warn, pre_warn,
     Since
<1> QED
  BY <1>1, <1>2

\* After every pass of OverspeedMonitorThread the platform shows a warning exactly when
\* the speed is between the limits, whatever the configuration and the speeds.
THEOREM WarningCorrect == SpeedSpec => []WarningFollowsSpeed
<1>1. SpeedInv => WarningFollowsSpeed
  BY DEF SpeedInv, WarningInv
<1> QED
  BY <1>1, InitHolds, SpeedInductive, PTL DEF SpeedSpec

\* Speeding that lasts as long as the configured time and the interval of the alarms is
\* reported in it, although the thread keeps one time of begin for all speeding.
THEOREM LastingCorrect == SpeedSpec => []LastingSpeedIsReported
<1>1. SpeedInv => LastingSpeedIsReported
  BY DEF SpeedInv
<1> QED
  BY <1>1, InitHolds, SpeedInductive, PTL DEF SpeedSpec

(***************************************************************************)
(* The kit identity.  All callers use one directory, so that its names     *)
(* alone say which file holds the ID of a fingerprint.  A file is written  *)
(* by the call that made it, and as long as that call runs the name is its *)
(* own: O_EXCL keeps the others out.                                       *)
(***************************************************************************)
Directory == {"var", "here"}
Making == {"generate", "write", "newline"}
Reading == {"has", "hasAgain"}
Busy == [at : {"dir", "read", "reread", "create"} \cup Reading \cup Making,
         nr : Nat, fp : Fingerprint, dir : Directory, fd : Nat]

Home == IF "var" \in usable THEN "var" ELSE "here"
FileOf(f) == name[Home][f]

KitTypes ==
  /\ \E k \in Nat : File = 1 .. k
  /\ content \in [File -> 0 .. kitCalls]
  /\ name \in [Directory -> [Fingerprint -> File \cup {NoFile}]]
  /\ asking \in [Caller -> {Asleep} \cup Busy]
  /\ kitCalls \in Nat

\* What a call relies on: its number is not in a file before it has written it, the
\* file it reads from is the one of its fingerprint unless it was removed, and the file
\* it makes is.
CallerOK(b) ==
  /\ b.nr \in 1 .. kitCalls
  /\ b.at # "newline" => \A n \in File : content[n] # b.nr
  /\ b.at # "dir" => b.dir = Home
  /\ b.at \in Reading =>
       /\ b.fd \in File
       /\ FileOf(b.fp) = b.fd \/ content[b.fd] \in withdrawn \cup {NoKit}
       /\ \A f \in Fingerprint : FileOf(f) = b.fd => f = b.fp
  /\ b.at \in Making =>
       /\ b.fd \in File /\ FileOf(b.fp) = b.fd
       /\ content[b.fd] = IF b.at = "newline" THEN b.nr ELSE NoKit
Callers == \A c \in Caller : asking[c] \in Busy => CallerOK(asking[c])

\* Two calls differ in their number, and no two make the file of one fingerprint.
Distinct ==
  \A c, d \in Caller :
    c # d /\ asking[c] \in Busy /\ asking[d] \in Busy =>
      /\ asking[c].nr # asking[d].nr
      /\ asking[c].at \in Making /\ asking[d].at \in Making => asking[c].fp # asking[d].fp

\* A file has one name, an ID is in one file, and what was answered for a fingerprint
\* is in the file of that name or was withdrawn.
NamesOnce == \A f, g \in Fingerprint : FileOf(f) = FileOf(g) /\ FileOf(f) # NoFile => f = g
IdsOnce == \A m, n \in File : content[m] = content[n] /\ content[m] # NoKit => m = n
AnswersKept ==
  \A a \in answers :
    /\ a.fp \in Fingerprint /\ a.id # NoKit
    /\ a.id \in withdrawn \/ (FileOf(a.fp) # NoFile /\ content[FileOf(a.fp)] = a.id)

KitInv == KitTypes /\ Callers /\ Distinct /\ NamesOnce /\ IdsOnce /\ AnswersKept

LEMMA KitImplies == KitInv => SameKit
<1> SUFFICES ASSUME KitInv, NEW a \in answers, NEW b \in answers,
                    a.id \notin withdrawn, b.id \notin withdrawn
             PROVE  a.fp = b.fp <=> a.id = b.id
  BY DEF SameKit
<1>1. /\ FileOf(a.fp) # NoFile /\ content[FileOf(a.fp)] = a.id
      /\ FileOf(b.fp) # NoFile /\ content[FileOf(b.fp)] = b.id
      /\ a.fp \in Fingerprint /\ b.fp \in Fingerprint /\ a.id # NoKit
  BY DEF KitInv, AnswersKept
<1>2. FileOf(a.fp) \in File /\ FileOf(b.fp) \in File
  BY <1>1 DEF KitInv, KitTypes, FileOf, Home, Directory
<1>. QED BY <1>1, <1>2 DEF KitInv, NamesOnce, IdsOnce

\* The records of the callers.
LEMMA NotBusy == Asleep \notin Busy
<1>1. \A b \in Busy : DOMAIN b = {"at", "nr", "fp", "dir", "fd"}
  BY DEF Busy
<1>2. DOMAIN Asleep = {"at"}
  BY DEF Asleep
<1>. QED BY <1>1, <1>2

LEMMA BusyUpdate ==
  ASSUME NEW b \in Busy, NEW at \in {"read", "reread", "create"} \cup Reading \cup Making
  PROVE  /\ [b EXCEPT !.at = at] \in Busy /\ [b EXCEPT !.at = at].at = at
         /\ [b EXCEPT !.at = at].nr = b.nr /\ [b EXCEPT !.at = at].fp = b.fp
         /\ [b EXCEPT !.at = at].dir = b.dir /\ [b EXCEPT !.at = at].fd = b.fd
  BY DEF Busy, Reading, Making

LEMMA Awake ==
  ASSUME KitInv, NEW c \in Caller, asking[c].at # "off"
  PROVE  asking[c] \in Busy /\ CallerOK(asking[c])
  BY DEF KitInv, KitTypes, Callers, Asleep

\* What a step makes of the callers: one of them has a new record.
Becomes(c, b) == asking' = [asking EXCEPT ![c] = b]

\* A step that leaves files, names and the withdrawn IDs alone keeps the invariant when
\* what the caller relies on then holds.
Files == <<usable, name, content, withdrawn>>
LEMMA OnlyCaller ==
  ASSUME KitInv, NEW c \in Caller, NEW b, Becomes(c, b), UNCHANGED Files,
         kitCalls' \in Nat, kitCalls' >= kitCalls, AnswersKept',
         b = Asleep \/
           /\ b \in Busy /\ CallerOK(b)'
           /\ \A d \in Caller \ {c} : asking[d] \in Busy =>
                /\ b.nr # asking[d].nr
                /\ b.at \in Making /\ asking[d].at \in Making => b.fp # asking[d].fp
  PROVE  KitInv'
<1>1. Home' = Home /\ (\A f : FileOf(f)' = FileOf(f)) /\ File' = File
  BY DEF Files, Home, FileOf, File
<1>2. asking'[c] = b /\ \A d \in Caller \ {c} : asking'[d] = asking[d]
  BY DEF Becomes, KitInv, KitTypes
<1>3. KitTypes'
  <2>1. \A k \in 0 .. kitCalls : k \in 0 .. kitCalls'
    BY DEF KitInv, KitTypes
  <2>. QED BY <1>1, <1>2, <2>1 DEF KitInv, KitTypes, Files, File, Becomes
<1>4. ASSUME NEW d \in Caller, asking'[d] \in Busy
      PROVE  CallerOK(asking[d])'
  <2>1. CASE d = c
    BY <1>2, <1>4, <2>1, NotBusy
  <2>2. CASE d # c
    <3>1. CallerOK(asking[d]) /\ asking'[d] = asking[d]
      BY <1>2, <1>4, <2>2 DEF KitInv, Callers
    <3>. QED BY <1>1, <3>1 DEF CallerOK, Files, KitInv, KitTypes
  <2>. QED BY <2>1, <2>2
<1>5. Distinct'
  BY <1>2, NotBusy DEF KitInv, Distinct
<1>6. NamesOnce' /\ IdsOnce'
  BY <1>1 DEF KitInv, NamesOnce, IdsOnce, Files
<1>. QED BY <1>3, <1>4, <1>5, <1>6 DEF KitInv, Callers

LEMMA KitCallStep == ASSUME KitInv, NEW c \in Caller, KitCall(c) PROVE KitInv'
<1>1. PICK f \in Fingerprint :
        Becomes(c, [at |-> "dir", nr |-> kitCalls + 1, fp |-> f, dir |-> Dirs[1],
                    fd |-> NoFile])
  BY DEF KitCall, Becomes
<1>0. PICK b : b = [at |-> "dir", nr |-> kitCalls + 1, fp |-> f, dir |-> Dirs[1],
                    fd |-> NoFile]
  OBVIOUS
<1>2. b \in Busy /\ b.at = "dir" /\ b.nr = kitCalls + 1
  BY <1>0 DEF Busy, Dirs, Directory, NoFile, KitInv, KitTypes
<1>3. kitCalls' = kitCalls + 1 /\ UNCHANGED Files /\ UNCHANGED answers
  BY DEF KitCall, Files
<1>4. \A d \in Caller : asking[d] \in Busy => asking[d].nr # b.nr
  BY <1>2 DEF KitInv, KitTypes, Callers, CallerOK
<1>5. CallerOK(b)'
  BY <1>2, <1>3 DEF KitInv, KitTypes, CallerOK, Files, File, Reading, Making
<1>6. AnswersKept'
  BY <1>3 DEF KitInv, AnswersKept, Files, FileOf, Home
<1>7. Becomes(c, b)
  BY <1>0, <1>1
<1>8. kitCalls' \in Nat /\ kitCalls' >= kitCalls
  BY <1>3 DEF KitInv, KitTypes
<1>9. b.at \notin Making
  BY <1>2 DEF Making
<1>. QED BY <1>2, <1>3, <1>4, <1>5, <1>6, <1>7, <1>8, <1>9, OnlyCaller

\* Steps that give up, or go on without touching a file.
LEMMA Gives ==
  ASSUME KitInv, NEW c \in Caller, GiveUp(c), UNCHANGED Files, UNCHANGED kitCalls,
         AnswersKept'
  PROVE  KitInv'
<1>1. Becomes(c, Asleep)
  BY DEF GiveUp, Becomes
<1>2. kitCalls' \in Nat /\ kitCalls' >= kitCalls
  BY DEF KitInv, KitTypes
<1>. QED BY <1>1, <1>2, OnlyCaller

LEMMA Goes ==
  ASSUME KitInv, NEW c \in Caller, asking[c].at # "off", NEW b \in Busy, Becomes(c, b),
         b.nr = asking[c].nr, b.fp = asking[c].fp, b.at \notin Making,
         asking[c].at # "newline", UNCHANGED Files, UNCHANGED <<kitCalls, answers>>,
         b.dir = Home,
         b.at \in Reading => b.fd \in File /\ FileOf(b.fp) = b.fd
  PROVE  KitInv'
<1>1. asking[c] \in Busy /\ CallerOK(asking[c])
  BY Awake
<1>2. Home' = Home /\ (\A f : FileOf(f)' = FileOf(f)) /\ File' = File
  BY DEF Files, Home, FileOf, File
<1>3. AnswersKept'
  BY <1>2 DEF KitInv, AnswersKept, Files
<1>4. b.at \in Reading => \A f \in Fingerprint : FileOf(f) = b.fd => f = b.fp
  BY DEF KitInv, KitTypes, NamesOnce, Busy, NoFile
<1>5. CallerOK(b)'
  BY <1>1, <1>2, <1>4 DEF CallerOK, Files, Making
<1>6. \A d \in Caller \ {c} : asking[d] \in Busy => b.nr # asking[d].nr
  BY <1>1 DEF KitInv, Distinct
<1>7. kitCalls' \in Nat /\ kitCalls' >= kitCalls
  BY DEF KitInv, KitTypes
<1>. QED BY <1>3, <1>5, <1>6, <1>7, OnlyCaller

LEMMA PickStep == ASSUME KitInv, NEW c \in Caller, rk_pick_dbdir(c) PROVE KitInv'
<1>1. asking[c] \in Busy /\ CallerOK(asking[c]) /\ asking[c].at = "dir"
  BY Awake DEF rk_pick_dbdir, Asks
<1>2. UNCHANGED Files /\ UNCHANGED <<kitCalls, answers>>
  BY DEF rk_pick_dbdir, Files
<1>3. AnswersKept'
  BY <1>2 DEF KitInv, AnswersKept, Files, FileOf, Home
<1>4. CASE usable = {}
  BY <1>2, <1>3, <1>4, Gives DEF rk_pick_dbdir
<1>5. CASE usable # {}
  <2> DEFINE b == [asking[c] EXCEPT !.at = "read", !.dir = Home]
  <2>1. Becomes(c, b)
    BY <1>5 DEF rk_pick_dbdir, Becomes, Home, Dirs, KitInv, KitTypes
  <2>2. /\ b \in Busy /\ b.at = "read" /\ b.nr = asking[c].nr /\ b.fp = asking[c].fp
        /\ b.dir = Home
    BY <1>1 DEF Busy, Home, Directory
  <2> HIDE DEF b
  <2>. QED BY <1>1, <1>2, <2>1, <2>2, Goes DEF Making, Reading
<1>. QED BY <1>4, <1>5

LEMMA OpenStep == ASSUME KitInv, NEW c \in Caller, OpenToRead(c) PROVE KitInv'
<1>1. asking[c] \in Busy /\ CallerOK(asking[c]) /\ asking[c].at \in {"read", "reread"}
  BY Awake DEF OpenToRead, Asks
<1>2. UNCHANGED Files /\ UNCHANGED <<kitCalls, answers>>
  BY DEF OpenToRead, Files
<1>3. AnswersKept'
  BY <1>2 DEF KitInv, AnswersKept, Files, FileOf, Home
<1>4. asking[c].dir = Home /\ Named(c) = FileOf(asking[c].fp)
  BY <1>1 DEF CallerOK, Named, FileOf
<1>5. CASE Named(c) # NoFile
  <2> DEFINE at == IF asking[c].at = "read" THEN "has" ELSE "hasAgain"
             b == [asking[c] EXCEPT !.at = at, !.fd = Named(c)]
  <2>1. Becomes(c, b)
    BY <1>1, <1>5 DEF OpenToRead, Becomes, KitInv, KitTypes, Busy
  <2>2. Named(c) \in File /\ Named(c) \in Nat
    BY <1>1, <1>4, <1>5 DEF KitInv, KitTypes, FileOf, Home, Directory, Busy
  <2>3. /\ b \in Busy /\ b.at = at /\ b.nr = asking[c].nr /\ b.fp = asking[c].fp
        /\ b.dir = asking[c].dir /\ b.fd = Named(c)
    <3>1. at \in Reading \cup Making
      BY DEF Reading
    <3> HIDE DEF at
    <3>. QED BY <1>1, <2>2, <3>1 DEF Busy, Reading, Making
  <2>4. at \in Reading
    BY DEF Reading
  <2> HIDE DEF b, at
  <2>. QED BY <1>1, <1>2, <1>4, <2>1, <2>2, <2>3, <2>4, Goes DEF Making, Reading
<1>6. CASE Named(c) = NoFile /\ asking[c].at = "read"
  <2> DEFINE b == [asking[c] EXCEPT !.at = "create"]
  <2>1. Becomes(c, b)
    BY <1>6 DEF OpenToRead, Becomes, Asks, Continue, KitInv, KitTypes
  <2>2. b \in Busy /\ b.at = "create" /\ b.nr = asking[c].nr /\ b.fp = asking[c].fp
        /\ b.dir = asking[c].dir
    BY <1>1, BusyUpdate
  <2> HIDE DEF b
  <2>. QED BY <1>1, <1>2, <1>4, <2>1, <2>2, Goes DEF Making, Reading
<1>7. CASE Named(c) = NoFile /\ asking[c].at # "read"
  BY <1>2, <1>3, <1>7, Gives DEF OpenToRead, Asks
<1>. QED BY <1>5, <1>6, <1>7

LEMMA ReadStep == ASSUME KitInv, NEW c \in Caller, ReadKit(c) PROVE KitInv'
<1>1. asking[c] \in Busy /\ CallerOK(asking[c]) /\ asking[c].at \in Reading
  BY Awake DEF ReadKit, Asks, Reading
<1>2. UNCHANGED Files /\ UNCHANGED kitCalls
  BY DEF ReadKit, Files
<1>3. asking[c].fp \in Fingerprint
  BY <1>1 DEF Busy
<1> DEFINE id == content[asking[c].fd]
<1>4. CASE id # NoKit
  <2>1. answers' = answers \cup {[fp |-> asking[c].fp, id |-> id]} /\ GiveUp(c)
    BY <1>4 DEF ReadKit, Answer
  <2>2. id \in withdrawn \/ (FileOf(asking[c].fp) # NoFile /\ content[FileOf(asking[c].fp)] = id)
    BY <1>1, <1>4 DEF CallerOK, KitInv, KitTypes, NoFile, Reading
  <2>3. AnswersKept'
    BY <1>2, <1>3, <1>4, <2>1, <2>2 DEF KitInv, AnswersKept, Files, FileOf, Home
  <2>. QED BY <1>2, <2>1, <2>3, Gives
<1>5. CASE id = NoKit
  <2>0. UNCHANGED answers /\ IF Asks(c, "has") THEN Continue(c, "create") ELSE GiveUp(c)
    BY <1>5 DEF ReadKit
  <2>1. AnswersKept'
    BY <1>2, <2>0 DEF KitInv, AnswersKept, Files, FileOf, Home
  <2>2. CASE Asks(c, "has")
    <3> DEFINE b == [asking[c] EXCEPT !.at = "create"]
    <3>1. Becomes(c, b)
      BY <2>0, <2>2 DEF Becomes, Continue, KitInv, KitTypes
    <3>2. b \in Busy /\ b.at = "create" /\ b.nr = asking[c].nr /\ b.fp = asking[c].fp
          /\ b.dir = asking[c].dir
      BY <1>1, BusyUpdate
    <3>3. asking[c].dir = Home
      BY <1>1 DEF CallerOK, Reading
    <3> HIDE DEF b
    <3>. QED BY <1>1, <1>2, <2>0, <3>1, <3>2, <3>3, Goes DEF Making, Reading
  <2>3. CASE ~Asks(c, "has")
    BY <1>2, <2>0, <2>1, <2>3, Gives
  <2>. QED BY <2>2, <2>3
<1>. QED BY <1>4, <1>5

LEMMA NotAFile == ASSUME KitInv PROVE NoFile \notin File
  BY DEF KitInv, KitTypes, NoFile

\* What is in the files stays known when nothing but the callers and the answers change.
LEMMA AnswersStay ==
  ASSUME KitInv, UNCHANGED Files, UNCHANGED answers
  PROVE  AnswersKept'
  BY DEF KitInv, AnswersKept, Files, FileOf, Home

\* A name is given to a file or taken away.
LEMMA NameChange ==
  ASSUME KitInv, NEW c \in Caller, asking[c] \in Busy, asking[c].dir = Home,
         NEW n, Name(c, n), UNCHANGED usable
  PROVE  /\ Home' = Home
         /\ \A f \in Fingerprint :
              FileOf(f)' = IF f = asking[c].fp THEN n ELSE FileOf(f)
         /\ n \in File' \cup {NoFile} /\ File \subseteq File' =>
              name' \in [Directory -> [Fingerprint -> File' \cup {NoFile}]]
<1>1. Home \in Directory /\ asking[c].fp \in Fingerprint
  BY DEF Home, Directory, Busy
<1>2. Home' = Home
  BY DEF Home
<1>3. name' = [name EXCEPT ![Home] = [name[Home] EXCEPT ![asking[c].fp] = n]]
  BY <1>1 DEF Name, KitInv, KitTypes
<1>4. name \in [Directory -> [Fingerprint -> File \cup {NoFile}]]
  BY DEF KitInv, KitTypes
<1>5. name'[Home] = [name[Home] EXCEPT ![asking[c].fp] = n]
  BY <1>1, <1>3, <1>4
<1>6. \A f \in Fingerprint : FileOf(f)' = IF f = asking[c].fp THEN n ELSE FileOf(f)
  BY <1>1, <1>2, <1>4, <1>5 DEF FileOf
<1>7. ASSUME n \in File' \cup {NoFile}, File \subseteq File'
      PROVE  name' \in [Directory -> [Fingerprint -> File' \cup {NoFile}]]
  BY <1>1, <1>3, <1>4, <1>7
<1>. QED BY <1>2, <1>6, <1>7

LEMMA RemoveStep ==
  ASSUME KitInv, NEW c \in Caller, asking[c].at \in Making, RemoveFile(c)
  PROVE  KitInv'
<1>1. asking[c] \in Busy /\ CallerOK(asking[c])
  BY Awake DEF Making
<1> DEFINE fp == asking[c].fp  fd == asking[c].fd
<1>2. /\ fd \in File /\ FileOf(fp) = fd /\ asking[c].dir = Home /\ fp \in Fingerprint
      /\ content[fd] = IF asking[c].at = "newline" THEN asking[c].nr ELSE NoKit
  BY <1>1 DEF CallerOK, Making, Busy
<1>3. /\ usable' = usable /\ content' = content /\ answers' = answers
      /\ kitCalls' = kitCalls /\ File' = File
      /\ withdrawn' = withdrawn \cup ({content[fd]} \ {NoKit})
  BY DEF RemoveFile, File
<1>4. Home' = Home /\ \A f \in Fingerprint : FileOf(f)' = IF f = fp THEN NoFile ELSE FileOf(f)
  BY <1>1, <1>2, <1>3, NameChange DEF RemoveFile
<1>5. asking'[c] = Asleep /\ (\A d \in Caller \ {c} : asking'[d] = asking[d])
      /\ asking' \in [Caller -> {Asleep} \cup Busy]
  BY DEF RemoveFile, GiveUp, KitInv, KitTypes
<1>6. KitTypes'
  <2>1. name' \in [Directory -> [Fingerprint -> File' \cup {NoFile}]]
    BY <1>1, <1>2, <1>3, NameChange DEF RemoveFile
  <2>. QED BY <1>3, <1>5, <2>1 DEF KitInv, KitTypes
<1>7. ASSUME NEW d \in Caller, asking'[d] \in Busy
      PROVE  CallerOK(asking[d])'
  <2>1. d # c /\ asking'[d] = asking[d]
    BY <1>5, <1>7, NotBusy
  <2>2. CallerOK(asking[d]) /\ asking[d] \in Busy /\ asking[d].fp \in Fingerprint
    BY <1>7, <2>1 DEF KitInv, Callers, Busy
  <2>3. asking[d].at \in Making => asking[d].fp # fp
    BY <1>1, <2>1, <2>2 DEF KitInv, Distinct
  <2>4. \A f \in Fingerprint : asking[d].at \in Reading =>
          (FileOf(f)' = asking[d].fd => f = asking[d].fp)
    <3> SUFFICES ASSUME NEW f \in Fingerprint, asking[d].at \in Reading,
                        FileOf(f)' = asking[d].fd
                 PROVE  f = asking[d].fp
      OBVIOUS
    <3>1. asking[d].fd \in File /\ (FileOf(f) = asking[d].fd => f = asking[d].fp)
      BY <2>2 DEF CallerOK
    <3>2. FileOf(f) = asking[d].fd
      BY <1>4, <3>1, NotAFile
    <3>. QED BY <3>1, <3>2
  <2>5. asking[d].at \in Reading =>
          \/ FileOf(asking[d].fp)' = asking[d].fd
          \/ content[asking[d].fd] \in withdrawn' \cup {NoKit}
    BY <1>2, <1>3, <1>4, <2>1, <2>2 DEF CallerOK
  <2>. QED BY <1>3, <1>4, <2>1, <2>2, <2>3, <2>4, <2>5 DEF CallerOK
<1>8. Distinct'
  BY <1>5, NotBusy DEF KitInv, Distinct
<1>9. NamesOnce' /\ IdsOnce'
  BY <1>3, <1>4 DEF KitInv, NamesOnce, IdsOnce
<1>10. AnswersKept'
  <2> SUFFICES ASSUME NEW a \in answers
               PROVE  /\ a.fp \in Fingerprint /\ a.id # NoKit
                      /\ \/ a.id \in withdrawn'
                         \/ FileOf(a.fp)' # NoFile /\ content[FileOf(a.fp)'] = a.id
    BY <1>3 DEF AnswersKept
  <2>1. /\ a.fp \in Fingerprint /\ a.id # NoKit
        /\ a.id \in withdrawn \/ (FileOf(a.fp) # NoFile /\ content[FileOf(a.fp)] = a.id)
    BY DEF KitInv, AnswersKept
  <2>. QED BY <1>2, <1>3, <1>4, <2>1
<1>. QED BY <1>6, <1>7, <1>8, <1>9, <1>10 DEF KitInv, Callers

LEMMA CreateStep == ASSUME KitInv, NEW c \in Caller, CreateKit(c) PROVE KitInv'
<1>1. asking[c] \in Busy /\ CallerOK(asking[c]) /\ asking[c].at = "create"
  BY Awake DEF CreateKit, Asks
<1>2. UNCHANGED <<usable, answers, withdrawn, kitCalls>>
  BY DEF CreateKit
<1>3. asking[c].dir = Home /\ Named(c) = FileOf(asking[c].fp) /\ asking[c].fp \in Fingerprint
  BY <1>1 DEF CallerOK, Named, FileOf, Busy
<1>4. CASE Named(c) # NoFile
  <2> DEFINE b == [asking[c] EXCEPT !.at = "reread"]
  <2>1. Becomes(c, b) /\ UNCHANGED <<name, content>>
    BY <1>4 DEF CreateKit, Becomes, Continue, KitInv, KitTypes
  <2>2. b \in Busy /\ b.at = "reread" /\ b.nr = asking[c].nr /\ b.fp = asking[c].fp
        /\ b.dir = asking[c].dir
    BY <1>1, BusyUpdate
  <2> HIDE DEF b
  <2>. QED BY <1>1, <1>2, <1>3, <2>1, <2>2, Goes DEF Making, Reading, Files
<1>5. CASE Named(c) = NoFile /\ GiveUp(c) /\ UNCHANGED <<name, content>>
  BY <1>2, <1>5, AnswersStay, Gives DEF Files
<1>6. CASE /\ Named(c) = NoFile
           /\ Name(c, FreshFile) /\ SetContent(FreshFile, NoKit)
           /\ asking' = [asking EXCEPT ![c].at = "generate", ![c].fd = FreshFile]
  <2> DEFINE fp == asking[c].fp  b == [asking[c] EXCEPT !.at = "generate", !.fd = FreshFile]
  <2>1. PICK k \in Nat : File = 1 .. k
    BY DEF KitInv, KitTypes
  <2>2. FreshFile = k + 1 /\ FreshFile \in Nat
    <3>1. Cardinality(1 .. k) = k
      BY FS_Interval
    <3>. QED BY <2>1, <3>1 DEF FreshFile
  <2>3. /\ File' = 1 .. k + 1 /\ content'[k + 1] = NoKit
        /\ \A n \in File : content'[n] = content[n]
        /\ content' \in [File' -> 0 .. kitCalls]
    BY <1>6, <2>1, <2>2 DEF SetContent, File, NoKit, KitInv, KitTypes
  <2>4. /\ Home' = Home
        /\ \A f \in Fingerprint : FileOf(f)' = IF f = fp THEN k + 1 ELSE FileOf(f)
        /\ name' \in [Directory -> [Fingerprint -> File' \cup {NoFile}]]
    BY <1>1, <1>2, <1>3, <1>6, <2>1, <2>2, <2>3, NameChange
  <2>5. /\ b \in Busy /\ b.at = "generate" /\ b.nr = asking[c].nr /\ b.fp = fp
        /\ b.dir = Home /\ b.fd = k + 1
    BY <1>1, <1>3, <2>2 DEF Busy, Making
  <2>6. asking' = [asking EXCEPT ![c] = b]
    BY <1>1, <1>6 DEF KitInv, KitTypes, Busy
  <2> HIDE DEF b
  <2>7. asking'[c] = b /\ (\A d \in Caller \ {c} : asking'[d] = asking[d])
        /\ asking' \in [Caller -> {Asleep} \cup Busy]
    BY <2>5, <2>6 DEF KitInv, KitTypes
  <2>8. KitTypes'
    BY <1>2, <2>3, <2>4, <2>7 DEF KitInv, KitTypes
  <2>9. \A f \in Fingerprint : FileOf(f) \in File \cup {NoFile}
    BY DEF KitInv, KitTypes, FileOf, Home, Directory
  <2>10. ASSUME NEW d \in Caller \ {c}, asking[d] \in Busy
         PROVE  CallerOK(asking[d])' /\ (asking[d].at \in Making => asking[d].fp # fp)
    <3>1. CallerOK(asking[d]) /\ asking'[d] = asking[d] /\ asking[d].fp \in Fingerprint
          /\ asking[d].nr # 0
      BY <2>7, <2>10 DEF KitInv, Callers, Busy, CallerOK, KitTypes
    <3>2. asking[d].at \in Making => asking[d].fp # fp
      BY <1>3, <1>6, <3>1, NotAFile DEF CallerOK
    <3>3. asking[d].at # "newline" => \A n \in File' : content'[n] # asking[d].nr
      BY <2>1, <2>3, <3>1 DEF CallerOK, NoKit
    <3>4. asking[d].at \in Reading \cup Making =>
            /\ asking[d].fd \in File /\ asking[d].fd \in File' /\ asking[d].fd # k + 1
            /\ content'[asking[d].fd] = content[asking[d].fd]
      BY <2>1, <2>3, <3>1 DEF CallerOK
    <3>5. asking[d].at \in Reading => FileOf(asking[d].fp)' = asking[d].fd
                                      \/ content'[asking[d].fd] \in withdrawn \cup {NoKit}
      BY <1>3, <1>6, <2>4, <3>1, <3>2, <3>4, NotAFile DEF CallerOK
    <3>. QED BY <1>2, <2>4, <3>1, <3>2, <3>3, <3>4, <3>5 DEF CallerOK
  <2>11. CallerOK(asking[c])'
    <3>1. b.nr \in 1 .. kitCalls /\ \A n \in File' : content'[n] # b.nr
      BY SMTT(30), <1>1, <2>1, <2>3, <2>5 DEF CallerOK, NoKit, KitInv, KitTypes
    <3>. QED BY <1>2, <1>3, <2>3, <2>4, <2>5, <2>7, <3>1 DEF CallerOK, Making, Reading
  <2>12. Distinct'
    BY <1>1, <2>5, <2>7, <2>10, NotBusy DEF KitInv, Distinct
  <2>13. NamesOnce'
    BY <2>1, <2>4, <2>9 DEF KitInv, NamesOnce, NoFile
  <2>14. IdsOnce'
    BY <2>1, <2>3 DEF KitInv, IdsOnce
  <2>15. AnswersKept'
    BY ZenonT(30), <1>2, <1>3, <1>6, <2>1, <2>3, <2>4, <2>9 DEF KitInv, AnswersKept, NoFile
  <2>16. Callers'
    BY <2>7, <2>10, <2>11 DEF Callers
  <2>. QED BY <2>8, <2>12, <2>13, <2>14, <2>15, <2>16 DEF KitInv
<1>. QED BY <1>4, <1>5, <1>6 DEF CreateKit

LEMMA GenerateStep == ASSUME KitInv, NEW c \in Caller, rk_generate_uuid_v4(c) PROVE KitInv'
<1>1. asking[c] \in Busy /\ CallerOK(asking[c]) /\ asking[c].at = "generate"
  BY Awake DEF rk_generate_uuid_v4, Asks
<1>2. CASE RemoveFile(c)
  BY <1>1, <1>2, RemoveStep DEF Making
<1>3. CASE Continue(c, "write") /\ UNCHANGED Files /\ UNCHANGED <<kitCalls, answers>>
  <2>1. PICK b : b = [asking[c] EXCEPT !.at = "write"]
    OBVIOUS
  <2>2. Becomes(c, b)
    BY <1>3, <2>1 DEF Becomes, Continue, KitInv, KitTypes
  <2>3. b \in Busy /\ b.at = "write" /\ b.nr = asking[c].nr /\ b.fp = asking[c].fp
        /\ b.dir = asking[c].dir /\ b.fd = asking[c].fd
    BY <1>1, <2>1, BusyUpdate DEF Making
  <2>4. CallerOK(b)'
    BY <1>1, <1>3, <2>3 DEF CallerOK, Files, File, FileOf, Home, Making, Reading
  <2>5. \A d \in Caller \ {c} : asking[d] \in Busy =>
          /\ b.nr # asking[d].nr
          /\ b.at \in Making /\ asking[d].at \in Making => b.fp # asking[d].fp
    BY <1>1, <2>3 DEF KitInv, Distinct, Making
  <2>6. kitCalls' \in Nat /\ kitCalls' >= kitCalls
    BY <1>3 DEF KitInv, KitTypes
  <2>7. AnswersKept'
    BY <1>3, AnswersStay
  <2>. QED BY <1>3, <2>2, <2>3, <2>4, <2>5, <2>6, <2>7, OnlyCaller
<1>. QED BY <1>2, <1>3 DEF rk_generate_uuid_v4, Files

LEMMA WriteStep == ASSUME KitInv, NEW c \in Caller, WriteKit(c) PROVE KitInv'
<1>1. asking[c] \in Busy /\ CallerOK(asking[c]) /\ asking[c].at = "write"
  BY Awake DEF WriteKit, Asks
<1>2. CASE RemoveFile(c)
  BY <1>1, <1>2, RemoveStep DEF Making
<1>3. CASE /\ SetContent(asking[c].fd, asking[c].nr) /\ Continue(c, "newline")
           /\ UNCHANGED <<usable, name, answers, withdrawn, kitCalls>>
  <2> DEFINE fd == asking[c].fd  nr == asking[c].nr
             b == [asking[c] EXCEPT !.at = "newline"]
  <2>1. /\ fd \in File /\ FileOf(asking[c].fp) = fd /\ content[fd] = NoKit
        /\ nr \in 1 .. kitCalls /\ asking[c].fp \in Fingerprint
        /\ \A n \in File : content[n] # nr
    BY <1>1 DEF CallerOK, Making, Busy
  <2>2. /\ File' = File /\ content'[fd] = nr
        /\ \A n \in File \ {fd} : content'[n] = content[n]
        /\ content' \in [File' -> 0 .. kitCalls']
    BY <1>3, <2>1 DEF SetContent, File, KitInv, KitTypes
  <2>3. Home' = Home /\ \A f : FileOf(f)' = FileOf(f)
    BY <1>3 DEF Home, FileOf
  <2>4. b \in Busy /\ b.at = "newline" /\ b.nr = nr /\ b.fp = asking[c].fp
        /\ b.dir = asking[c].dir /\ b.fd = fd
    BY <1>1, BusyUpdate DEF Making
  <2>5. asking' = [asking EXCEPT ![c] = b]
    BY <1>3 DEF Continue, KitInv, KitTypes
  <2> HIDE DEF b
  <2>6. asking'[c] = b /\ (\A d \in Caller \ {c} : asking'[d] = asking[d])
        /\ asking' \in [Caller -> {Asleep} \cup Busy]
    BY <2>4, <2>5 DEF KitInv, KitTypes
  <2>7. KitTypes'
    BY <1>3, <2>2, <2>6 DEF KitInv, KitTypes
  <2>8. ASSUME NEW d \in Caller \ {c}, asking[d] \in Busy
        PROVE  CallerOK(asking[d])'
    <3>1. /\ CallerOK(asking[d]) /\ asking'[d] = asking[d] /\ asking[d].nr # nr
          /\ asking[d].fp \in Fingerprint
          /\ asking[d].at \in Making => asking[d].fp # asking[c].fp
      BY <1>1, <2>6, <2>8 DEF KitInv, Callers, Distinct, Making, Busy
    <3>2. asking[d].at # "newline" => \A n \in File : content'[n] # asking[d].nr
      BY <2>1, <2>2, <3>1 DEF CallerOK
    <3>3. asking[d].at \in Making => asking[d].fd # fd
      BY <2>1, <3>1, NotAFile DEF CallerOK, KitInv, NamesOnce
    <3>4. asking[d].at \in Reading =>
            FileOf(asking[d].fp) = asking[d].fd \/ content'[asking[d].fd] \in withdrawn \cup {NoKit}
      BY <2>1, <2>2, <3>1 DEF CallerOK
    <3>. QED BY <1>3, <2>2, <2>3, <3>1, <3>2, <3>3, <3>4 DEF CallerOK
  <2>9. CallerOK(asking[c])'
    BY <1>1, <1>3, <2>1, <2>2, <2>3, <2>4, <2>6 DEF CallerOK, Making, Reading
  <2>10. Distinct'
    BY <1>1, <2>4, <2>6, NotBusy DEF KitInv, Distinct, Making
  <2>11. NamesOnce' /\ IdsOnce'
    BY <2>1, <2>2, <2>3 DEF KitInv, NamesOnce, IdsOnce
  <2>12. AnswersKept'
    <3> SUFFICES ASSUME NEW a \in answers
                 PROVE  /\ a.fp \in Fingerprint /\ a.id # NoKit
                        /\ \/ a.id \in withdrawn
                           \/ FileOf(a.fp) # NoFile /\ content'[FileOf(a.fp)] = a.id
      BY <1>3, <2>3 DEF AnswersKept
    <3>1. /\ a.fp \in Fingerprint /\ a.id # NoKit
          /\ a.id \in withdrawn \/ (FileOf(a.fp) # NoFile /\ content[FileOf(a.fp)] = a.id)
      BY DEF KitInv, AnswersKept
    <3>2. FileOf(a.fp) \in File \cup {NoFile}
      BY <3>1 DEF KitInv, KitTypes, FileOf, Home, Directory
    <3>. QED BY <2>1, <2>2, <3>1, <3>2
  <2>. QED BY <2>6, <2>7, <2>8, <2>9, <2>10, <2>11, <2>12 DEF KitInv, Callers
<1>. QED BY <1>2, <1>3 DEF WriteKit

LEMMA EndStep == ASSUME KitInv, NEW c \in Caller, EndKit(c) PROVE KitInv'
<1>1. asking[c] \in Busy /\ CallerOK(asking[c]) /\ asking[c].at = "newline"
  BY Awake DEF EndKit, Asks
<1>2. CASE RemoveFile(c)
  BY <1>1, <1>2, RemoveStep DEF Making
<1>3. CASE Answer(c, asking[c].nr) /\ UNCHANGED Files /\ UNCHANGED kitCalls
  <2>1. /\ asking[c].fp \in Fingerprint /\ FileOf(asking[c].fp) = asking[c].fd
        /\ asking[c].fd \in File /\ content[asking[c].fd] = asking[c].nr
        /\ asking[c].nr # NoKit
    BY <1>1 DEF CallerOK, Making, Busy, NoKit, KitInv, KitTypes
  <2>2. answers' = answers \cup {[fp |-> asking[c].fp, id |-> asking[c].nr]}
    BY <1>3 DEF Answer
  <2>3. AnswersKept'
    BY <1>3, <2>1, <2>2, NotAFile DEF KitInv, AnswersKept, Files, FileOf, Home
  <2>. QED BY <1>3, <2>3, Gives DEF Answer
<1>. QED BY <1>2, <1>3 DEF EndKit, Files

LEMMA StopStep == ASSUME KitInv, StopKitServer PROVE KitInv'
<1>1. /\ UNCHANGED Files /\ UNCHANGED answers /\ kitCalls' = kitCalls + 1
      /\ asking' = [c \in Caller |-> Asleep]
  BY DEF StopKitServer, Files
<1>2. KitTypes' /\ Callers' /\ Distinct'
  BY <1>1, NotBusy DEF KitInv, KitTypes, Callers, Distinct, Files, File
<1>3. NamesOnce' /\ IdsOnce'
  BY <1>1 DEF KitInv, NamesOnce, IdsOnce, Files, File, FileOf, Home
<1>. QED BY <1>1, <1>2, <1>3, AnswersStay DEF KitInv

\* An ID answered for a fingerprint is the one of that fingerprint, for ever.
THEOREM SameKitCorrect == KitSpec => []SameKit
<1>1. KitInit => KitInv
  <2> SUFFICES ASSUME KitInit PROVE KitInv
    OBVIOUS
  <2>1. File = {} /\ {} = 1 .. 0
    BY DEF KitInit, File
  <2>2. KitTypes
    BY <2>1 DEF KitInit, KitTypes, Directory
  <2>3. \A f \in Fingerprint : FileOf(f) = NoFile
    BY DEF KitInit, FileOf, Home
  <2>. QED BY <2>1, <2>2, <2>3, NotBusy
           DEF KitInit, KitInv, Callers, Distinct, NamesOnce, IdsOnce, AnswersKept
<1>2. KitInv /\ [KitNext]_kitVars => KitInv'
  <2> SUFFICES ASSUME KitInv, [KitNext]_kitVars PROVE KitInv'
    OBVIOUS
  <2>1. CASE UNCHANGED kitVars
    BY <2>1 DEF kitVars, KitInv, KitTypes, Callers, CallerOK, Distinct, NamesOnce, IdsOnce,
                AnswersKept, File, FileOf, Home
  <2>2. CASE StopKitServer
    BY <2>2, StopStep
  <2>3. ASSUME NEW c \in Caller, KitCall(c) \/ rk_get_or_create_kitid(c)
        PROVE  KitInv'
    BY <2>3, KitCallStep, PickStep, OpenStep, ReadStep, CreateStep, GenerateStep, WriteStep,
       EndStep DEF rk_get_or_create_kitid
  <2>. QED BY <2>1, <2>2, <2>3 DEF KitNext
<1>. QED BY <1>1, <1>2, KitImplies, PTL DEF KitSpec

(***************************************************************************)
(* Local streaming.  A thread has the lock of its channel exactly while it *)
(* puts a frame, the client has those of the channels it has come to, and  *)
(* threads that have ended stay so until the server is created again.      *)
(***************************************************************************)
Putting == {"record", "network", "prerecord", "release"}
StreamState ==
  [at : {"none", "begin", "loop", "take", "lock", "check", "restart", "quit", "end"}
        \cup Putting,
   dwFrameNumber : Nat, err_count : Nat, encparam_count : Nat]
StreamTypes ==
  /\ enc_lock \in [StreamChannel -> {"free", "client", "stream"}]
  /\ stream \in [StreamChannel -> StreamState]
  /\ last \in [StreamChannel -> [Buffer -> Nat]]

\* The channels whose locks the client holds, and those it has seen to the end.
Holds(c) ==
  \/ client.call = "locked" \/ (client.call = "lock" /\ c < client.nr)
  \/ client.call = "unlock" /\ c >= client.nr
Ended(c) == client.call = "down" \/ (client.call = "exit" /\ c < client.nr)

\* The buffers that the frame of the thread has not reached end with the one before it.
Whole(l) == \A b \in Buffer : l[b] = l["record"]
PutSoFar(s, l) ==
  CASE s.at = "network" -> l["prerecord"] = l["network"] /\ l["record"] = s.dwFrameNumber
    [] s.at = "prerecord" -> l["network"] = l["record"] /\ l["record"] = s.dwFrameNumber
    [] OTHER -> Whole(l)

ChannelInv(c) ==
  /\ enc_lock[c] = "client" <=> Holds(c)
  /\ enc_lock[c] = "stream" <=> stream[c].at \in Putting
  /\ Ended(c) => stream[c].at = "none"
  /\ PutSoFar(stream[c], last[c])
StreamInv == StreamTypes /\ \A c \in StreamChannel : ChannelInv(c)

LEMMA StreamImplies == StreamInv => WholeFrames
<1> SUFFICES ASSUME StreamInv, client.call = "locked", NEW c \in StreamChannel
             PROVE  Whole(last[c])
  BY DEF WholeFrames, Whole
<1>1. enc_lock[c] = "client" /\ (enc_lock[c] = "stream" <=> stream[c].at \in Putting)
      /\ PutSoFar(stream[c], last[c])
  BY DEF StreamInv, ChannelInv, Holds
<1>. QED BY <1>1 DEF PutSoFar, Putting

\* A step of one thread, which leaves the client and the other channels alone.
LEMMA OneThread ==
  ASSUME StreamInv, NEW c \in StreamChannel, NEW s \in StreamState, client' = client,
         stream' = [stream EXCEPT ![c] = s],
         StreamTypes', stream[c].at # "none",
         \A d \in StreamChannel \ {c} : enc_lock'[d] = enc_lock[d] /\ last'[d] = last[d],
         enc_lock'[c] = "client" <=> enc_lock[c] = "client",
         enc_lock'[c] = "stream" <=> s.at \in Putting,
         PutSoFar(s, last'[c])
  PROVE  StreamInv'
<1>1. \A d : (Holds(d)' <=> Holds(d)) /\ (Ended(d)' <=> Ended(d))
  BY DEF Holds, Ended
<1>2. stream'[c] = s /\ \A d \in StreamChannel \ {c} : stream'[d] = stream[d]
  BY DEF StreamInv, StreamTypes
<1>3. ASSUME NEW d \in StreamChannel PROVE ChannelInv(d)'
  <2>1. CASE d = c
    <3>1. ~Ended(c)
      BY DEF StreamInv, ChannelInv
    <3>. QED BY <1>1, <1>2, <2>1, <3>1 DEF StreamInv, ChannelInv
  <2>2. CASE d # c
    BY <1>1, <1>2, <2>2 DEF StreamInv, ChannelInv
  <2>. QED BY <2>1, <2>2
<1>. QED BY <1>3 DEF StreamInv

\* A step of one thread that neither takes nor gives the lock nor puts a frame.
LEMMA ThreadMoves ==
  ASSUME StreamInv, NEW c \in StreamChannel, NEW s \in StreamState, client' = client,
         stream' = [stream EXCEPT ![c] = s],
         stream[c].at \notin Putting \cup {"none"}, s.at \notin Putting,
         UNCHANGED <<enc_lock, last>>
  PROVE  StreamInv'
<1>1. StreamTypes'
  BY DEF StreamInv, StreamTypes
<1>2. enc_lock[c] # "stream" /\ PutSoFar(stream[c], last[c])
  BY DEF StreamInv, ChannelInv
<1>3. PutSoFar(s, last'[c])
  BY <1>2 DEF PutSoFar, Putting
<1>. QED BY <1>1, <1>2, <1>3, OneThread

Elsewhere == {"none", "begin", "loop", "take", "lock", "check", "restart", "quit", "end"}
LEMMA MovesOn ==
  ASSUME StreamInv, NEW c \in StreamChannel, NEW step \in Elsewhere, MoveOn(c, step),
         stream[c].at \notin Putting \cup {"none"}, client' = client,
         UNCHANGED <<enc_lock, last>>
  PROVE  StreamInv'
<1>1. PICK s : s = [stream[c] EXCEPT !.at = step]
  OBVIOUS
<1>2. s \in StreamState /\ s.at = step
  BY <1>1 DEF StreamInv, StreamTypes, StreamState, Elsewhere
<1>3. stream' = [stream EXCEPT ![c] = s]
  BY <1>1 DEF MoveOn, StreamInv, StreamTypes
<1>. QED BY <1>2, <1>3, ThreadMoves DEF Putting, Elsewhere

LEMMA ThreadStep ==
  ASSUME StreamInv, NEW c \in StreamChannel, DVR_H264_StreamServer(c)
  PROVE  StreamInv'
<1>1. stream[c] \in StreamState
  BY DEF StreamInv, StreamTypes
<1>2. CASE AddGetChStream(c) \/ RemoveGetChStream(c) \/ ReadStates(c) \/ EndStream(c)
  BY <1>2, MovesOn DEF AddGetChStream, RemoveGetChStream, ReadStates, EndStream, Quiet,
       SetGetChStream, StreamAt, Undisturbed, Putting, Elsewhere
<1>3. CASE GetMediaBuffer(c)
  <2>1. PICK at \in {"lock", "loop", "quit"}, n \in {0, stream[c].err_count + 1} :
          stream' = [stream EXCEPT ![c].err_count = n, ![c].at = at]
    BY <1>3 DEF GetMediaBuffer, StreamInv, StreamTypes, StreamState
  <2>2. PICK s : s = [stream[c] EXCEPT !.err_count = n, !.at = at]
    OBVIOUS
  <2>3. n \in Nat
    BY <1>1 DEF StreamState
  <2>4. s \in StreamState /\ s.at = at
    BY <1>1, <2>2, <2>3 DEF StreamState
  <2>5. stream' = [stream EXCEPT ![c] = s]
    BY <2>1, <2>2 DEF StreamInv, StreamTypes, StreamState
  <2>. QED BY <1>3, <2>4, <2>5, ThreadMoves
           DEF GetMediaBuffer, StreamAt, Undisturbed, Putting
<1>4. CASE LockChannel(c)
  <2>1. PICK s : s = [stream[c] EXCEPT !.at = "record"]
    OBVIOUS
  <2>2. s \in StreamState /\ s.at = "record" /\ s.dwFrameNumber = stream[c].dwFrameNumber
    BY <1>1, <2>1 DEF StreamState, Putting
  <2>3. stream' = [stream EXCEPT ![c] = s]
    BY <1>4, <2>1 DEF LockChannel, MoveOn, StreamInv, StreamTypes
  <2>4. /\ enc_lock[c] = "free" /\ enc_lock'[c] = "stream" /\ last' = last
        /\ \A d \in StreamChannel \ {c} : enc_lock'[d] = enc_lock[d]
        /\ enc_lock' \in [StreamChannel -> {"free", "client", "stream"}]
        /\ stream[c].at = "lock" /\ client' = client
    BY <1>4 DEF LockChannel, StreamAt, Undisturbed, StreamInv, StreamTypes
  <2>5. StreamTypes'
    BY <2>2, <2>3, <2>4 DEF StreamInv, StreamTypes
  <2>6. PutSoFar(s, last'[c])
    <3>1. PutSoFar(stream[c], last[c])
      BY DEF StreamInv, ChannelInv
    <3>. QED BY <2>2, <2>4, <3>1 DEF PutSoFar
  <2>. QED BY <2>2, <2>3, <2>4, <2>5, <2>6, OneThread DEF Putting
<1>5. CASE PutFrame(c)
  <2>1. PICK b \in Buffer :
          /\ stream[c].at = b
          /\ last' = [last EXCEPT ![c][b] = stream[c].dwFrameNumber]
          /\ MoveOn(c, AfterPut[b])
    BY <1>5 DEF PutFrame, StreamAt
  <2>2. PICK s : s = [stream[c] EXCEPT !.at = AfterPut[b]]
    OBVIOUS
  <2>3. /\ s \in StreamState /\ s.at = AfterPut[b] /\ s.dwFrameNumber = stream[c].dwFrameNumber
        /\ s.at \in Putting
    BY <1>1, <2>2 DEF StreamState, Buffer, AfterPut, Putting
  <2>4. stream' = [stream EXCEPT ![c] = s]
    BY <2>1, <2>2 DEF MoveOn, StreamInv, StreamTypes
  <2>5. /\ last'[c] = [last[c] EXCEPT ![b] = stream[c].dwFrameNumber]
        /\ \A d \in StreamChannel \ {c} : last'[d] = last[d]
        /\ last' \in [StreamChannel -> [Buffer -> Nat]]
        /\ enc_lock' = enc_lock /\ client' = client
    BY <1>1, <1>5, <2>1 DEF PutFrame, Undisturbed, StreamInv, StreamTypes, StreamState
  <2>6. StreamTypes'
    BY <2>3, <2>4, <2>5 DEF StreamInv, StreamTypes
  <2>7. PutSoFar(stream[c], last[c]) /\ last[c] \in [Buffer -> Nat]
        /\ (enc_lock[c] = "stream" <=> stream[c].at \in Putting)
    BY DEF StreamInv, ChannelInv, StreamTypes
  <2>8. b \in Putting
    BY DEF Putting, Buffer
  <2>9. PutSoFar(s, last'[c])
    <3>1. /\ last'[c][b] = stream[c].dwFrameNumber
          /\ \A a \in Buffer \ {b} : last'[c][a] = last[c][a]
      BY <2>5, <2>7
    <3>. QED BY <2>1, <2>3, <2>7, <3>1 DEF PutSoFar, Buffer, AfterPut, Whole
  <2>. QED BY <2>1, <2>3, <2>4, <2>5, <2>6, <2>7, <2>8, <2>9, OneThread DEF Putting
<1>6. CASE ReleaseFrame(c)
  <2> DEFINE n == (stream[c].dwFrameNumber + 1) % IdModulus
  <2>1. n \in Nat
    BY <1>1, StreamAssumption DEF StreamState
  <2>2. PICK s : s = [stream[c] EXCEPT !.dwFrameNumber = n, !.at = "check"]
    OBVIOUS
  <2>3. stream' = [stream EXCEPT ![c] = s]
    BY <1>6, <2>2 DEF ReleaseFrame, StreamInv, StreamTypes, StreamState
  <2> HIDE DEF n
  <2>4. s \in StreamState /\ s.at = "check"
    BY <1>1, <2>1, <2>2 DEF StreamState
  <2>5. /\ enc_lock'[c] = "free" /\ last' = last /\ client' = client
        /\ \A d \in StreamChannel \ {c} : enc_lock'[d] = enc_lock[d]
        /\ enc_lock' \in [StreamChannel -> {"free", "client", "stream"}]
        /\ stream[c].at = "release"
    BY <1>6 DEF ReleaseFrame, StreamAt, Undisturbed, StreamInv, StreamTypes
  <2>6. StreamTypes'
    BY <2>3, <2>4, <2>5 DEF StreamInv, StreamTypes
  <2>7. PutSoFar(stream[c], last[c]) /\ enc_lock[c] = "stream"
    BY <2>5 DEF StreamInv, ChannelInv, Putting
  <2>8. PutSoFar(s, last'[c])
    BY <2>4, <2>5, <2>7 DEF PutSoFar
  <2>. QED BY <2>3, <2>4, <2>5, <2>6, <2>7, <2>8, OneThread DEF Putting
<1>7. CASE CompareParams(c) \/ RestartEncoder(c)
  <2>1. /\ UNCHANGED <<enc_lock, last, client>>
        /\ stream[c].at \in {"check", "restart"}
    BY <1>7 DEF CompareParams, CompareAfter, RestartEncoder, Undisturbed, StreamAt
  <2>2. CASE MoveOn(c, "restart")
    BY <2>1, <2>2, MovesOn DEF Putting, Elsewhere
  <2>3. ASSUME NEW n \in {1, stream[c].encparam_count + 1}, Counted(c, n)
        PROVE  StreamInv'
    <3>1. PICK s : s = [stream[c] EXCEPT !.encparam_count = n, !.at = "loop"]
      OBVIOUS
    <3>2. n \in Nat
      BY <1>1 DEF StreamState
    <3>3. s \in StreamState /\ s.at = "loop"
      BY <1>1, <3>1, <3>2 DEF StreamState
    <3>4. stream' = [stream EXCEPT ![c] = s]
      BY <2>3, <3>1 DEF Counted, StreamInv, StreamTypes, StreamState
    <3>. QED BY <2>1, <3>3, <3>4, ThreadMoves DEF Putting
  <2>. QED BY <1>7, <2>2, <2>3 DEF CompareParams, CompareAfter, RestartEncoder
<1>. QED BY <1>2, <1>3, <1>4, <1>5, <1>6, <1>7 DEF DVR_H264_StreamServer

LEMMA Channels == AllChannels \in Nat \ {0} /\ StreamChannel = 1 .. AllChannels
  BY StreamAssumption DEF StreamChannel

\* The client moves, and what the threads and the buffers have stays.
LEMMA ClientMoves ==
  ASSUME StreamInv, UNCHANGED <<stream, last>>, StreamTypes',
         \A c \in StreamChannel :
           /\ enc_lock'[c] = "client" <=> Holds(c)'
           /\ enc_lock'[c] = "stream" <=> enc_lock[c] = "stream"
           /\ Ended(c)' => Ended(c) \/ stream[c].at = "none"
  PROVE  StreamInv'
  BY DEF StreamInv, ChannelInv

LEMMA CreateServerStep == ASSUME StreamInv, DVR_CreateH264MediaStreamServer PROVE StreamInv'
<1> DEFINE s == [NoThreadYet EXCEPT !.at = "begin"]
<1>1. s \in StreamState /\ s.at = "begin"
  BY DEF NoThreadYet, StreamState
<1> HIDE DEF s
<1>2. /\ client.call = "down" /\ client'.call = "up" /\ last' = last
      /\ enc_lock' = [c \in StreamChannel |-> "free"]
      /\ stream' = [c \in StreamChannel |-> s]
  BY DEF DVR_CreateH264MediaStreamServer, Call, s
<1>3. StreamTypes'
  BY <1>1, <1>2 DEF StreamInv, StreamTypes
<1>4. ASSUME NEW c \in StreamChannel PROVE ChannelInv(c)'
  <2>1. PutSoFar(stream[c], last[c]) /\ stream[c].at = "none"
    BY <1>2 DEF StreamInv, ChannelInv, Ended
  <2>2. PutSoFar(s, last[c])
    BY <1>1, <2>1 DEF PutSoFar
  <2>. QED BY <1>1, <1>2, <2>2 DEF ChannelInv, Holds, Ended, Putting
<1>. QED BY <1>3, <1>4 DEF StreamInv

LEMMA DestroyStep == ASSUME StreamInv, DVR_DestroyH264MediaStreamServer PROVE StreamInv'
<1>1. UNCHANGED <<stream, last, enc_lock>>
  BY DEF DVR_DestroyH264MediaStreamServer, Quiet
<1>2. StreamTypes'
  BY <1>1 DEF StreamInv, StreamTypes
<1>3. /\ client.call \in {"up", "exit"} /\ client'.call \in {"exit", "down"}
      /\ \A d \in StreamChannel : Ended(d)' => Ended(d) \/ stream[d].at = "none"
  <2>1. CASE client.call = "up" /\ Call("exit", 1)
    BY <2>1, Channels DEF Call, Ended
  <2>2. ASSUME NEW c \in StreamChannel, Calls("exit", c), StreamAt(c, "none"),
               IF c = AllChannels THEN Call("down", 0) ELSE Call("exit", c + 1)
        PROVE  /\ client.call = "exit" /\ client'.call \in {"exit", "down"}
               /\ \A d \in StreamChannel : Ended(d)' => Ended(d) \/ stream[d].at = "none"
    <3>1. \A d \in StreamChannel : Ended(d)' => d < c \/ d = c
      BY <2>2, Channels DEF Call, Ended
    <3>. QED BY <2>2, <3>1 DEF Calls, Call, Ended, StreamAt
  <2>. QED BY <2>1, <2>2 DEF DVR_DestroyH264MediaStreamServer
<1>. QED BY <1>1, <1>2, <1>3, ClientMoves DEF StreamInv, ChannelInv, Holds

LEMMA LockStep == ASSUME StreamInv, GetVideoLock \/ ReleaseVideoLock PROVE StreamInv'
<1>1. UNCHANGED <<stream, last>>
  BY DEF GetVideoLock, ReleaseVideoLock, Quiet
<1>2. \A c \in StreamChannel :
        /\ enc_lock[c] = "client" <=> Holds(c)
        /\ c \in 1 .. AllChannels
  BY Channels DEF StreamInv, ChannelInv
<1>3. CASE client.call = "up" /\ Call("lock", 1) /\ UNCHANGED enc_lock
  <2>1. \A c \in StreamChannel : ~Holds(c) /\ ~Holds(c)' /\ ~Ended(c)'
    BY <1>2, <1>3 DEF Holds, Ended, Call
  <2>. QED BY <1>1, <1>2, <1>3, <2>1, ClientMoves DEF StreamInv, StreamTypes
<1>4. CASE client.call = "locked" /\ Call("unlock", 1) /\ UNCHANGED enc_lock
  <2>1. \A c \in StreamChannel : Holds(c) /\ Holds(c)' /\ ~Ended(c)'
    BY <1>2, <1>4 DEF Holds, Ended, Call
  <2>. QED BY <1>1, <1>2, <1>4, <2>1, ClientMoves DEF StreamInv, StreamTypes
<1>5. ASSUME NEW c \in StreamChannel, Calls("lock", c), enc_lock[c] = "free",
             enc_lock' = [enc_lock EXCEPT ![c] = "client"],
             IF c = AllChannels THEN Call("locked", 0) ELSE Call("lock", c + 1)
      PROVE  StreamInv'
  <2>1. /\ StreamTypes' /\ enc_lock'[c] = "client"
        /\ \A d \in StreamChannel \ {c} : enc_lock'[d] = enc_lock[d]
    BY <1>1, <1>5 DEF StreamInv, StreamTypes
  <2>2. \A d \in StreamChannel : (Holds(d) <=> d < c) /\ (Holds(d)' <=> d <= c) /\ ~Ended(d)'
    BY <1>2, <1>5 DEF Holds, Ended, Calls, Call
  <2>3. \A d \in StreamChannel : d # c => (d < c <=> d <= c)
    BY <1>2
  <2>4. c <= c
    BY <1>2
  <2>. QED BY <1>1, <1>2, <1>5, <2>1, <2>2, <2>3, <2>4, ClientMoves
<1>6. ASSUME NEW c \in StreamChannel, Calls("unlock", c),
             enc_lock' = [enc_lock EXCEPT ![c] = "free"],
             IF c = AllChannels THEN Call("up", 0) ELSE Call("unlock", c + 1)
      PROVE  StreamInv'
  <2>1. /\ StreamTypes' /\ enc_lock'[c] = "free"
        /\ \A d \in StreamChannel \ {c} : enc_lock'[d] = enc_lock[d]
    BY <1>1, <1>6 DEF StreamInv, StreamTypes
  <2>2. \A d \in StreamChannel : (Holds(d) <=> d >= c) /\ (Holds(d)' <=> d > c) /\ ~Ended(d)'
    BY <1>2, <1>6 DEF Holds, Ended, Calls, Call
  <2>3. \A d \in StreamChannel : d # c => (d > c <=> d >= c)
    BY <1>2
  <2>4. c >= c /\ ~(c > c)
    BY <1>2
  <2>. QED BY <1>1, <1>2, <1>6, <2>1, <2>2, <2>3, <2>4, ClientMoves
<1>. QED BY <1>3, <1>4, <1>5, <1>6 DEF GetVideoLock, ReleaseVideoLock

\* The buffers of all channels end with whole frames while somebody has the video lock.
THEOREM WholeCorrect == StreamSpec => []WholeFrames
<1>1. StreamInit => StreamInv
  <2> SUFFICES ASSUME StreamInit PROVE StreamInv
    OBVIOUS
  <2>1. NoThreadYet \in StreamState /\ NoThreadYet.at = "none" /\ NoFrame \in Nat
    BY StreamAssumption DEF NoThreadYet, StreamState, NoFrame
  <2>2. StreamTypes
    BY <2>1 DEF StreamInit, StreamTypes
  <2>. QED BY <2>1, <2>2
           DEF StreamInit, StreamInv, ChannelInv, Holds, Ended, PutSoFar, Whole, Putting, Buffer
<1>2. StreamInv /\ [StreamNext]_streamVars => StreamInv'
  <2> SUFFICES ASSUME StreamInv, [StreamNext]_streamVars PROVE StreamInv'
    OBVIOUS
  <2>1. ASSUME UNCHANGED <<enc_lock, stream, last, client>> PROVE StreamInv'
    BY <2>1 DEF StreamInv, StreamTypes, ChannelInv, Holds, Ended
  <2>2. CASE UNCHANGED streamVars \/ SetEncParam \/ DVR_PauseH264MediaStreamServer
             \/ DVR_RunH264MediaStreamServer
    BY <2>1, <2>2 DEF streamVars, SetEncParam, DVR_PauseH264MediaStreamServer,
                      DVR_RunH264MediaStreamServer, Quiet
  <2>3. CASE DVR_CreateH264MediaStreamServer
    BY <2>3, CreateServerStep
  <2>4. CASE DVR_DestroyH264MediaStreamServer
    BY <2>4, DestroyStep
  <2>5. CASE GetVideoLock \/ ReleaseVideoLock
    BY <2>5, LockStep
  <2>6. ASSUME NEW c \in StreamChannel, DVR_H264_StreamServer(c) PROVE StreamInv'
    BY <2>6, ThreadStep
  <2>. QED BY <2>2, <2>3, <2>4, <2>5, <2>6 DEF StreamNext, StreamClient
<1>. QED BY <1>1, <1>2, StreamImplies, PTL DEF StreamSpec

(***************************************************************************)
(* The pictures of an incident.  The list of cameras has every camera      *)
(* once, the decoder is bound to the camera a picture is taken of, and a   *)
(* file has the picture of the camera it is named after.  What is held     *)
(* follows from the step of the call, and what an exit still has to give   *)
(* back is what is held.                                                   *)
(***************************************************************************)
\* The rank of a place numbers the places from 1 on, whatever their number is.
LEMMA RankCounts ==
  ASSUME NEW P \in SUBSET Nat, IsFiniteSet(P)
  PROVE  \A k \in 1 .. Cardinality(P) : \E i \in P : Rank(P, i) = k
<1> DEFINE below(i) == {j \in P : j <= i}  f == [i \in P |-> Rank(P, i)]
<1>1. ASSUME NEW i \in P
      PROVE  IsFiniteSet(below(i)) /\ Rank(P, i) \in 1 .. Cardinality(P)
  <2>1. /\ IsFiniteSet(below(i)) /\ Cardinality(below(i)) <= Cardinality(P)
        /\ Cardinality(below(i)) \in Nat /\ Cardinality(P) \in Nat
    BY FS_Subset, FS_CardinalityType
  <2>2. i \in below(i)
    OBVIOUS
  <2>3. Cardinality(below(i)) # 0
    BY <2>1, <2>2, FS_EmptySet
  <2>. QED BY <2>1, <2>3 DEF Rank
<1>2. ASSUME NEW i \in P, NEW j \in P, i < j
      PROVE  Rank(P, i) # Rank(P, j)
  <2>0. i \in Nat /\ j \in Nat /\ j <= j /\ ~(j <= i)
    BY <1>2
  <2>1. below(i) \in SUBSET below(j) /\ j \in below(j) /\ j \notin below(i)
    <3>1. \A k \in P : k <= i => k <= j
      BY <1>2, <2>0
    <3>. QED BY <2>0, <3>1
  <2>2. Cardinality(below(i)) # Cardinality(below(j))
    BY <1>1, <2>1, FS_Subset
  <2>. QED BY <2>2 DEF Rank
<1>3. f \in [P -> 1 .. Cardinality(P)]
  BY <1>1
<1>4. \A i, j \in P : i < j \/ j < i \/ i = j
  OBVIOUS
<1>5. IsInjective(f)
  BY <1>2, <1>3, <1>4 DEF IsInjective
<1>6. IsFiniteSet(1 .. Cardinality(P)) /\ Cardinality(1 .. Cardinality(P)) = Cardinality(P)
  BY FS_CardinalityType, FS_Interval
<1>7. f \in Injection(P, 1 .. Cardinality(P))
  BY <1>3, <1>5 DEF Injection
<1>8. f \in Surjection(P, 1 .. Cardinality(P))
  BY <1>6, <1>7, FS_Injection
<1>. QED BY <1>8 DEF Surjection

LEMMA CamerasOnce ==
  ASSUME NEW ids \in Seq(Nat)
  PROVE  /\ absChsOf(ids) \in Seq(Camera)
         /\ \A k, l \in DOMAIN absChsOf(ids) : absChsOf(ids)[k] = absChsOf(ids)[l] => k = l
<1> DEFINE P == FirstPlaces(ids)
           place(k) == CHOOSE i \in P : Rank(P, i) = k
<1>1. P \in SUBSET Nat /\ IsFiniteSet(P)
  <2>1. DOMAIN ids = 1 .. Len(ids) /\ Len(ids) \in Nat
    BY LenProperties
  <2>2. IsFiniteSet(1 .. Len(ids))
    BY <2>1, FS_Interval
  <2>3. P \in SUBSET (1 .. Len(ids))
    BY <2>1 DEF FirstPlaces
  <2>. QED BY <2>1, <2>2, <2>3, FS_Subset
<1>2. \A k \in 1 .. Cardinality(P) : place(k) \in P /\ Rank(P, place(k)) = k
  BY <1>1, RankCounts
<1>3. \A i, j \in P : ids[i] = ids[j] => i = j
  <2>1. \A i, j \in P : i < j => ids[i] # ids[j]
    BY <1>1 DEF FirstPlaces
  <2>. QED BY <1>1, <2>1
<1>4. \A i \in P : ids[i] \in 1 .. MAXIPCNUM
  BY DEF FirstPlaces
<1>5. absChsOf(ids) = [k \in 1 .. Cardinality(P) |-> IPCCHANNELBEGIN + ids[place(k)] - 1]
  BY DEF absChsOf
<1> HIDE DEF P, place
<1>6. Cardinality(P) \in Nat
  BY <1>1, FS_CardinalityType
<1>7. \A k \in 1 .. Cardinality(P) : IPCCHANNELBEGIN + ids[place(k)] - 1 \in Camera
  BY <1>2, <1>4, ImageAssumption DEF Camera
<1>8. absChsOf(ids) \in Seq(Camera)
  BY <1>5, <1>6, <1>7
<1>9. \A k, l \in 1 .. Cardinality(P) :
        IPCCHANNELBEGIN + ids[place(k)] - 1 = IPCCHANNELBEGIN + ids[place(l)] - 1 => k = l
  <2> SUFFICES ASSUME NEW k \in 1 .. Cardinality(P), NEW l \in 1 .. Cardinality(P),
                      IPCCHANNELBEGIN + ids[place(k)] - 1 = IPCCHANNELBEGIN + ids[place(l)] - 1
               PROVE  k = l
    OBVIOUS
  <2>1. ids[place(k)] \in Nat /\ ids[place(l)] \in Nat
    BY <1>2, <1>4
  <2>2. ids[place(k)] = ids[place(l)]
    BY SMTT(30), <2>1, ImageAssumption
  <2>. QED BY <1>2, <1>3, <2>2
<1>. QED BY <1>5, <1>8, <1>9

(***************************************************************************)
(* The call under way                                                      *)
(***************************************************************************)
\* Where something may be held, and where a picture of absCh is being taken.
Holding == {"direct", "rga", "in", "out", "frame", "open", "write", "undo"}
Taking == {"ready", "venc"} \cup Holding
\* What may still have to be given back.
Rests ==
  {<<>>, <<"venc">>, <<"rga", "venc">>, <<"VDEC-RGA", "rga", "venc">>,
   <<"RGA-VENC", "VDEC-RGA", "rga", "venc">>,
   <<"getting", "RGA-VENC", "VDEC-RGA", "rga", "venc">>,
   <<"buffer", "getting", "RGA-VENC", "VDEC-RGA", "rga", "venc">>,
   <<"VDEC-VENC", "venc">>, <<"getting", "VDEC-VENC", "venc">>,
   <<"buffer", "getting", "VDEC-VENC", "venc">>}
Snap ==
  [at : {"off", "camera", "bind", "read"} \cup Taking, absChs : Seq(Camera), i : Nat \ {0},
   use_rga : BOOLEAN, undo : Rests, got : BOOLEAN, ok : Nat, success_idx : Seq(Nat)]
Size == {"none", "empty", "part", "whole"}

ImageTypes ==
  /\ incidentImageIds \in IdLists
  /\ m_mapIpcVdec \in Camera \cup {NoCamera}
  /\ ask \in Snap /\ asked \in Nat

\* What the call relies on: cameras come once, the decoder is bound to the one whose
\* picture is taken, and the pictures found are files of different cameras.
ListInv(a) == \A k, l \in DOMAIN a.absChs : a.absChs[k] = a.absChs[l] => k = l
TakingInv(a, bound, files) ==
  /\ a.at \in {"bind"} \cup Taking => a.i \in DOMAIN a.absChs
  /\ a.at \in Taking => bound = a.absChs[a.i]
  /\ a.at = "write" => files[a.absChs[a.i]].of = bound
ReadInv(a, files) ==
  /\ a.at # "read" => a.success_idx = <<>>
  /\ \A k \in DOMAIN a.success_idx :
       /\ a.success_idx[k] \in DOMAIN a.absChs /\ a.success_idx[k] < a.i
       /\ files[a.absChs[a.success_idx[k]]].size # "none"
  /\ \A k, l \in DOMAIN a.success_idx : a.success_idx[k] = a.success_idx[l] => k = l
FilesInv(files) ==
  /\ files \in [Camera -> [of : Camera \cup {NoCamera}, call : Nat, size : Size]]
  /\ \A c \in Camera : files[c].size # "none" => files[c].of = c

\* The way from the decoder to the encoder, and what is held at each step.
Way(rga) == IF rga THEN {"venc", "rga", "VDEC-RGA", "RGA-VENC"} ELSE {"venc", "VDEC-VENC"}
HeldInv(at, rga, undo, h) ==
  /\ at \notin Holding => h = {}
  /\ at = "direct" => h = {"venc"} /\ ~rga
  /\ at = "rga" => h = {"venc"} /\ rga
  /\ at = "in" => h = {"venc", "rga"} /\ rga
  /\ at = "out" => h = {"venc", "rga", "VDEC-RGA"} /\ rga
  /\ at = "frame" => h = Way(rga)
  /\ at \in {"open", "write"} => h = Way(rga) \cup {"getting", "buffer"}
  /\ at = "undo" => h = ToSet(undo)
  /\ at # "undo" => undo = <<>>

ImageInv ==
  /\ ImageTypes
  /\ HeldInv(ask.at, ask.use_rga, ask.undo, held)
  /\ ListInv(ask) /\ TakingInv(ask, m_mapIpcVdec, jpg) /\ ReadInv(ask, jpg)
  /\ FilesInv(jpg)
  /\ ImagesMatchIds

LEMMA RestSets ==
  /\ ToSet(<<>>) =
       {}
  /\ ToSet(<<"venc">>) =
       {"venc"}
  /\ ToSet(<<"rga", "venc">>) =
       {"rga", "venc"}
  /\ ToSet(<<"VDEC-RGA", "rga", "venc">>) =
       {"VDEC-RGA", "rga", "venc"}
  /\ ToSet(<<"RGA-VENC", "VDEC-RGA", "rga", "venc">>) =
       {"RGA-VENC", "VDEC-RGA", "rga", "venc"}
  /\ ToSet(<<"getting", "RGA-VENC", "VDEC-RGA", "rga", "venc">>) =
       {"getting", "RGA-VENC", "VDEC-RGA", "rga", "venc"}
  /\ ToSet(<<"buffer", "getting", "RGA-VENC", "VDEC-RGA", "rga", "venc">>) =
       {"buffer", "getting", "RGA-VENC", "VDEC-RGA", "rga", "venc"}
  /\ ToSet(<<"VDEC-VENC", "venc">>) =
       {"VDEC-VENC", "venc"}
  /\ ToSet(<<"getting", "VDEC-VENC", "venc">>) =
       {"getting", "VDEC-VENC", "venc"}
  /\ ToSet(<<"buffer", "getting", "VDEC-VENC", "venc">>) =
       {"buffer", "getting", "VDEC-VENC", "venc"}
  BY DEF ToSet

LEMMA RestTails ==
  /\ Head(<<"venc">>) = "venc"
  /\ Tail(<<"venc">>) =
       <<>>
  /\ Head(<<"rga", "venc">>) = "rga"
  /\ Tail(<<"rga", "venc">>) =
       <<"venc">>
  /\ Head(<<"VDEC-RGA", "rga", "venc">>) = "VDEC-RGA"
  /\ Tail(<<"VDEC-RGA", "rga", "venc">>) =
       <<"rga", "venc">>
  /\ Head(<<"RGA-VENC", "VDEC-RGA", "rga", "venc">>) = "RGA-VENC"
  /\ Tail(<<"RGA-VENC", "VDEC-RGA", "rga", "venc">>) =
       <<"VDEC-RGA", "rga", "venc">>
  /\ Head(<<"getting", "RGA-VENC", "VDEC-RGA", "rga", "venc">>) = "getting"
  /\ Tail(<<"getting", "RGA-VENC", "VDEC-RGA", "rga", "venc">>) =
       <<"RGA-VENC", "VDEC-RGA", "rga", "venc">>
  /\ Head(<<"buffer", "getting", "RGA-VENC", "VDEC-RGA", "rga", "venc">>) = "buffer"
  /\ Tail(<<"buffer", "getting", "RGA-VENC", "VDEC-RGA", "rga", "venc">>) =
       <<"getting", "RGA-VENC", "VDEC-RGA", "rga", "venc">>
  /\ Head(<<"VDEC-VENC", "venc">>) = "VDEC-VENC"
  /\ Tail(<<"VDEC-VENC", "venc">>) =
       <<"venc">>
  /\ Head(<<"getting", "VDEC-VENC", "venc">>) = "getting"
  /\ Tail(<<"getting", "VDEC-VENC", "venc">>) =
       <<"VDEC-VENC", "venc">>
  /\ Head(<<"buffer", "getting", "VDEC-VENC", "venc">>) = "buffer"
  /\ Tail(<<"buffer", "getting", "VDEC-VENC", "venc">>) =
       <<"getting", "VDEC-VENC", "venc">>
  OBVIOUS

\* To give back the first of what is left leaves the others, and the ends of what is
\* still bound.
LEMMA GivingBack ==
  ASSUME NEW u \in Rests
  PROVE  /\ u # <<>> => Tail(u) \in Rests /\ ToSet(Tail(u)) = ToSet(u) \ {Head(u)}
         /\ {"VDEC-VENC", "RGA-VENC"} \cap ToSet(u) # {} => "venc" \in ToSet(u)
         /\ {"VDEC-RGA", "RGA-VENC"} \cap ToSet(u) # {} => "rga" \in ToSet(u)
<1>1. u # <<>> => Tail(u) \in Rests
  BY RestTails DEF Rests
<1>2. u # <<>> => ToSet(Tail(u)) = ToSet(u) \ {Head(u)}
  <2>1. CASE u = <<"venc">>
    BY <2>1, RestSets, RestTails
  <2>2. CASE u = <<"rga", "venc">>
    BY <2>2, RestSets, RestTails
  <2>3. CASE u = <<"VDEC-RGA", "rga", "venc">>
    BY <2>3, RestSets, RestTails
  <2>4. CASE u = <<"RGA-VENC", "VDEC-RGA", "rga", "venc">>
    BY <2>4, RestSets, RestTails
  <2>5. CASE u = <<"getting", "RGA-VENC", "VDEC-RGA", "rga", "venc">>
    BY <2>5, RestSets, RestTails
  <2>6. CASE u = <<"buffer", "getting", "RGA-VENC", "VDEC-RGA", "rga", "venc">>
    BY <2>6, RestSets, RestTails
  <2>7. CASE u = <<"VDEC-VENC", "venc">>
    BY <2>7, RestSets, RestTails
  <2>8. CASE u = <<"getting", "VDEC-VENC", "venc">>
    BY <2>8, RestSets, RestTails
  <2>9. CASE u = <<"buffer", "getting", "VDEC-VENC", "venc">>
    BY <2>9, RestSets, RestTails
  <2>. QED BY <2>1, <2>2, <2>3, <2>4, <2>5, <2>6, <2>7, <2>8, <2>9 DEF Rests
<1>3. /\ {"VDEC-VENC", "RGA-VENC"} \cap ToSet(u) # {} => "venc" \in ToSet(u)
      /\ {"VDEC-RGA", "RGA-VENC"} \cap ToSet(u) # {} => "rga" \in ToSet(u)
  BY RestSets DEF Rests
<1>. QED BY <1>1, <1>2, <1>3

LEMMA ImageImplies == ImageInv => HardwareReturned /\ ImagesMatchIds
<1> SUFFICES ASSUME ImageInv PROVE HardwareReturned
  BY DEF ImageInv
<1>1. ask \in Snap /\ HeldInv(ask.at, ask.use_rga, ask.undo, held)
  BY DEF ImageInv, ImageTypes
<1>2. ask.undo \in Rests /\ ask.use_rga \in BOOLEAN
      /\ ask.at \in {"off", "camera", "bind", "read", "ready", "venc"} \cup Holding
  BY <1>1 DEF Snap, Taking
<1>3. ask.at \in {"off", "camera", "bind", "ready", "venc", "read"} => held = {}
  BY <1>1 DEF HeldInv, Holding
<1>4. CASE ask.at = "undo"
  <2>1. held = ToSet(ask.undo)
    BY <1>1, <1>4 DEF HeldInv
  <2>. QED BY <1>2, <1>3, <2>1, GivingBack DEF HardwareReturned
<1>5. CASE ask.at # "undo"
  <2>1. ToSet(ask.undo) = {}
    BY <1>1, <1>5, RestSets DEF HeldInv
  <2>2. /\ {"VDEC-VENC", "RGA-VENC"} \cap held # {} => "venc" \in held
        /\ {"VDEC-RGA", "RGA-VENC"} \cap held # {} => "rga" \in held
    BY <1>1, <1>2, <1>5 DEF HeldInv, Holding, Way
  <2>. QED BY <1>3, <2>1, <2>2 DEF HardwareReturned
<1>. QED BY <1>4, <1>5

\* A step that leaves the answer, the lists and the files alone.
LEMMA AskMoves ==
  ASSUME ImageInv, NEW a \in Snap, ask' = a,
         UNCHANGED <<incidentImageIds, response, asked>>, FilesInv(jpg'),
         m_mapIpcVdec' \in Camera \cup {NoCamera},
         a.absChs = ask.absChs, a.success_idx = <<>>, ask.success_idx = <<>>,
         HeldInv(a.at, a.use_rga, a.undo, held'),
         TakingInv(a, m_mapIpcVdec', jpg')
  PROVE  ImageInv'
<1>1. ImageTypes' /\ ListInv(ask)' /\ ImagesMatchIds'
  BY DEF ImageInv, ImageTypes, ListInv, ImagesMatchIds
<1>2. ReadInv(ask, jpg)'
  BY DEF ReadInv
<1>. QED BY <1>1, <1>2 DEF ImageInv

LEMMA AskAtUpdate ==
  ASSUME NEW a \in Snap, NEW at \in {"off", "camera", "bind", "read"} \cup Taking
  PROVE  /\ [a EXCEPT !.at = at] \in Snap /\ [a EXCEPT !.at = at].at = at
         /\ [a EXCEPT !.at = at].absChs = a.absChs /\ [a EXCEPT !.at = at].i = a.i
         /\ [a EXCEPT !.at = at].success_idx = a.success_idx
         /\ [a EXCEPT !.at = at].use_rga = a.use_rga /\ [a EXCEPT !.at = at].undo = a.undo
  BY DEF Snap

\* The call goes on with its camera.
LEMMA AskGoes ==
  ASSUME ImageInv, NEW at \in {"bind"} \cup (Taking \ {"undo"}), AskTo(at),
         UNCHANGED <<incidentImageIds, response, asked>>, FilesInv(jpg'),
         m_mapIpcVdec' \in Camera \cup {NoCamera},
         ask.at \notin {"read", "undo"}, ask.i \in DOMAIN ask.absChs,
         at \in Taking => m_mapIpcVdec' = absCh,
         at = "write" => jpg'[absCh].of = absCh,
         HeldInv(at, ask.use_rga, <<>>, held')
  PROVE  ImageInv'
<1>1. PICK a : a = [ask EXCEPT !.at = at]
  OBVIOUS
<1>2. ask \in Snap /\ ask.success_idx = <<>> /\ ask.undo = <<>>
  BY DEF ImageInv, ImageTypes, ReadInv, HeldInv
<1>3. /\ a \in Snap /\ a.at = at /\ a.use_rga = ask.use_rga /\ a.undo = <<>> /\ a.absChs = ask.absChs /\ a.i = ask.i
      /\ a.success_idx = <<>> /\ ask' = a
  BY <1>1, <1>2, AskAtUpdate DEF AskTo
<1>4. TakingInv(a, m_mapIpcVdec', jpg')
  BY <1>3 DEF TakingInv, absCh
<1>. QED BY <1>2, <1>3, <1>4, AskMoves

\* The call leaves its camera for the next one.
LEMMA AskNext ==
  ASSUME ImageInv, NEW ok \in {0, 1}, NextCamera(ok), ask.at # "read", held' = {},
         ask.undo = <<>>,
         UNCHANGED <<incidentImageIds, response, asked>>, FilesInv(jpg'),
         m_mapIpcVdec' \in Camera \cup {NoCamera}
  PROVE  ImageInv'
<1>1. PICK a : a = [ask EXCEPT !.at = "camera", !.i = @ + 1, !.ok = @ + ok, !.use_rga = FALSE]
  OBVIOUS
<1>2. ask \in Snap /\ ask.success_idx = <<>>
  BY DEF ImageInv, ImageTypes, ReadInv
<1>3. /\ a \in Snap /\ a.at = "camera" /\ a.absChs = ask.absChs
      /\ a.success_idx = ask.success_idx /\ a.undo = ask.undo /\ a.use_rga = FALSE
  <2>1. a = [at |-> "camera", absChs |-> ask.absChs, i |-> ask.i + 1, use_rga |-> FALSE,
             undo |-> ask.undo, got |-> ask.got, ok |-> ask.ok + ok,
             success_idx |-> ask.success_idx]
    BY <1>1, <1>2 DEF Snap
  <2>2. ask.i + 1 \in Nat \ {0} /\ ask.ok + ok \in Nat /\ ask.absChs \in Seq(Camera)
        /\ ask.success_idx \in Seq(Nat) /\ ask.undo \in Rests /\ ask.got \in BOOLEAN
    BY <1>2 DEF Snap
  <2>. QED BY <2>1, <2>2 DEF Snap
<1>4. TakingInv(a, m_mapIpcVdec', jpg') /\ HeldInv(a.at, a.use_rga, a.undo, held')
  BY <1>3 DEF TakingInv, Taking, Holding, HeldInv
<1>. QED BY <1>1, <1>2, <1>3, <1>4, AskMoves DEF NextCamera

\* snap_once takes an exit whose list is what is held.
LEMMA AskExits ==
  ASSUME ImageInv, NEW u \in Rests, NEW got \in BOOLEAN, Exit(u, got), ask.at \in Taking,
         held' = ToSet(u),
         UNCHANGED <<incidentImageIds, response, asked, m_mapIpcVdec>>, FilesInv(jpg')
  PROVE  ImageInv'
<1>1. ask \in Snap /\ ask.at # "read" /\ ask.success_idx = <<>>
      /\ m_mapIpcVdec' \in Camera \cup {NoCamera}
  BY DEF ImageInv, ImageTypes, ReadInv, Taking, Holding
<1>2. PICK a : a = [ask EXCEPT !.at = "undo", !.undo = u, !.got = got]
  OBVIOUS
<1>3. /\ a \in Snap /\ a.at = "undo" /\ a.undo = u /\ a.absChs = ask.absChs /\ a.i = ask.i
      /\ a.success_idx = ask.success_idx
  BY <1>1, <1>2 DEF Snap, Taking, Holding
<1>4. TakingInv(a, m_mapIpcVdec', jpg') /\ HeldInv(a.at, a.use_rga, a.undo, held')
  BY <1>3 DEF ImageInv, TakingInv, HeldInv, Taking, Holding
<1>. QED BY <1>1, <1>2, <1>3, <1>4, AskMoves DEF Exit

LEMMA FirstOf ==
  ASSUME NEW S, NEW a \in S, NEW v \in Seq(S), NEW w \in Seq(S), w # <<>>, Head(w) = a,
         Tail(w) = v
  PROVE  <<a>> \o v = w
<1>1. <<a>> \in Seq(S) /\ Len(<<a>>) = 1 /\ <<a>>[1] = a
  OBVIOUS
<1>2. <<a>> \o v \in Seq(S) /\ Len(<<a>> \o v) = Len(w)
  BY <1>1
<1>3. \A i \in 1 .. Len(w) : (<<a>> \o v)[i] = w[i]
  <2> TAKE i \in 1 .. Len(w)
  <2>1. CASE i = 1
    BY <1>1, <2>1
  <2>2. CASE i # 1
    <3>1. i - 1 \in 1 .. Len(v) /\ i > 1
      BY <2>2
    <3>2. Tail(w)[i - 1] = w[i]
      BY <3>1
    <3>3. (<<a>> \o v)[i] = v[i - 1]
      BY <1>1, <3>1
    <3>. QED BY <3>2, <3>3
  <2>. QED BY <2>1, <2>2
<1>. QED BY <1>2, <1>3, SeqEqual

LEMMA ListsInFull ==
  /\ <<"getting">> \o <<"VDEC-VENC", "venc">> = <<"getting", "VDEC-VENC", "venc">>
  /\ <<"buffer">> \o <<"getting", "VDEC-VENC", "venc">>
       = <<"buffer", "getting", "VDEC-VENC", "venc">>
  /\ <<"getting">> \o <<"RGA-VENC", "VDEC-RGA", "rga", "venc">>
       = <<"getting", "RGA-VENC", "VDEC-RGA", "rga", "venc">>
  /\ <<"buffer">> \o <<"getting", "RGA-VENC", "VDEC-RGA", "rga", "venc">>
       = <<"buffer", "getting", "RGA-VENC", "VDEC-RGA", "rga", "venc">>
<1> PICK S : S = {"getting", "VDEC-VENC", "venc", "RGA-VENC", "VDEC-RGA", "rga", "buffer"}
  OBVIOUS
<1>1. /\ "getting" \in S /\ "buffer" \in S
      /\ <<"VDEC-VENC", "venc">> \in Seq(S)
      /\ <<"RGA-VENC", "VDEC-RGA", "rga", "venc">> \in Seq(S)
  OBVIOUS
<1>2. /\ <<"getting", "VDEC-VENC", "venc">> \in Seq(S)
      /\ <<"getting", "RGA-VENC", "VDEC-RGA", "rga", "venc">> \in Seq(S)
      /\ <<"getting", "VDEC-VENC", "venc">> # <<>>
      /\ <<"getting", "RGA-VENC", "VDEC-RGA", "rga", "venc">> # <<>>
  OBVIOUS
<1>3. /\ <<"buffer", "getting", "VDEC-VENC", "venc">> \in Seq(S)
      /\ <<"buffer", "getting", "RGA-VENC", "VDEC-RGA", "rga", "venc">> \in Seq(S)
      /\ <<"buffer", "getting", "VDEC-VENC", "venc">> # <<>>
      /\ <<"buffer", "getting", "RGA-VENC", "VDEC-RGA", "rga", "venc">> # <<>>
  OBVIOUS
<1>. QED BY ZenonT(30), <1>1, <1>2, <1>3, RestTails, FirstOf

\* The lists of the exits after the way is bound.
LEMMA LateExits ==
  ASSUME ask.use_rga \in BOOLEAN
  PROVE  /\ StopAnd(Unbound) \in Rests
         /\ ToSet(StopAnd(Unbound)) = Way(ask.use_rga) \cup {"getting"}
         /\ <<"buffer">> \o StopAnd(Unbound) \in Rests
         /\ ToSet(<<"buffer">> \o StopAnd(Unbound)) = Way(ask.use_rga) \cup {"getting", "buffer"}
<1>1. CASE ask.use_rga
  <2>2. Unbound = <<"RGA-VENC", "VDEC-RGA", "rga", "venc">>
    BY <1>1 DEF Unbound
  <2>3. /\ StopAnd(Unbound) = <<"getting", "RGA-VENC", "VDEC-RGA", "rga", "venc">>
        /\ <<"buffer">> \o StopAnd(Unbound)
             = <<"buffer", "getting", "RGA-VENC", "VDEC-RGA", "rga", "venc">>
    BY Zenon, <2>2, ListsInFull DEF StopAnd
  <2>. QED BY <1>1, <2>3, RestSets DEF Rests, Way
<1>2. CASE ~ask.use_rga
  <2>2. Unbound = <<"VDEC-VENC", "venc">>
    BY <1>2 DEF Unbound
  <2>3. /\ StopAnd(Unbound) = <<"getting", "VDEC-VENC", "venc">>
        /\ <<"buffer">> \o StopAnd(Unbound) = <<"buffer", "getting", "VDEC-VENC", "venc">>
    BY Zenon, <2>2, ListsInFull DEF StopAnd
  <2>. QED BY <1>2, <2>3, RestSets DEF Rests, Way
<1>. QED BY <1>1, <1>2

\* The steps of the snapshot that touch no file.
TakeStep ==
  \/ EnsureDecoder \/ WaitForFrame \/ CreateVenc \/ BindDirect \/ CreateRga \/ BindRga
  \/ GetJpeg
LEMMA TakingStep == ASSUME ImageInv, TakeStep PROVE ImageInv'
<1>1. /\ UNCHANGED <<incidentImageIds, response, asked>> /\ FilesInv(jpg')
      /\ ask.at \in {"bind"} \cup Taking /\ ask.at \notin {"read", "undo"}
  BY DEF TakeStep, EnsureDecoder, WaitForFrame, CreateVenc, BindDirect, CreateRga, BindRga,
         Make, GetJpeg, Unasked, AskAt, Taking, Holding, ImageInv
<1>2. /\ ask.i \in DOMAIN ask.absChs /\ (ask.at \in Taking => m_mapIpcVdec = absCh)
      /\ m_mapIpcVdec \in Camera \cup {NoCamera} /\ ask \in Snap
      /\ HeldInv(ask.at, ask.use_rga, ask.undo, held) /\ ask.undo = <<>>
  BY <1>1 DEF ImageInv, ImageTypes, TakingInv, absCh, HeldInv
<1>3. absCh \in Camera /\ ask.use_rga \in BOOLEAN
  BY <1>2 DEF Snap, absCh
<1>4. CASE EnsureDecoder
  <2>1. ask.at = "bind" /\ held' = held /\ held = {}
    BY <1>2, <1>4 DEF EnsureDecoder, AskAt, Holding, HeldInv
  <2>2. CASE AskTo("ready") /\ m_mapIpcVdec' = absCh
    <3>1. HeldInv("ready", ask.use_rga, <<>>, held')
      BY <2>1 DEF HeldInv, Holding
    <3>. QED BY <1>1, <1>2, <1>3, <2>2, <3>1, AskGoes DEF Taking
  <2>3. CASE NextCamera(0) /\ m_mapIpcVdec' = NoCamera
    BY <1>1, <1>2, <2>1, <2>3, AskNext
  <2>. QED BY <1>4, <2>2, <2>3 DEF EnsureDecoder
<1>5. CASE WaitForFrame
  <2>1. ask.at = "ready" /\ held' = held /\ held = {} /\ m_mapIpcVdec' = m_mapIpcVdec
    BY <1>2, <1>5 DEF WaitForFrame, AskAt, Holding, hardwareVars, HeldInv
  <2>2. CASE AskTo("venc")
    <3>1. HeldInv("venc", ask.use_rga, <<>>, held')
      BY <2>1 DEF HeldInv, Holding
    <3>. QED BY <1>1, <1>2, <2>1, <2>2, <3>1, AskGoes DEF Taking
  <2>3. CASE NextCamera(0)
    BY <1>1, <1>2, <2>1, <2>3, AskNext
  <2>. QED BY <1>5, <2>2, <2>3 DEF WaitForFrame
<1>6. ASSUME NEW what, NEW begin \in Taking, NEW next \in Holding \ {"write", "undo"},
             NEW undo \in Rests, Make(what, begin, next, undo), held = ToSet(undo),
             HeldInv(next, ask.use_rga, <<>>, held \cup {what})
      PROVE  ImageInv'
  <2>1. ask.at \in Taking /\ m_mapIpcVdec' = m_mapIpcVdec
    BY <1>6 DEF Make, AskAt
  <2>2. CASE held' = held \cup {what} /\ AskTo(next)
    BY <1>1, <1>2, <1>6, <2>1, <2>2, AskGoes DEF Taking
  <2>3. CASE Exit(undo, FALSE) /\ held' = held
    BY <1>1, <1>6, <2>1, <2>3, AskExits
  <2>. QED BY <1>6, <2>2, <2>3 DEF Make
<1>7. CASE CreateVenc
  <2>1. held = {} /\ held = ToSet(<<>>) /\ <<>> \in Rests
    BY <1>2, <1>7, RestSets DEF CreateVenc, Make, AskAt, HeldInv, Holding, Rests
  <2>2. CASE ask.use_rga
    <3>1. HeldInv("rga", ask.use_rga, <<>>, held \cup {"venc"})
      BY <2>1, <2>2 DEF HeldInv, Holding
    <3>2. Make("venc", "venc", "rga", <<>>)
      BY <1>7, <2>2 DEF CreateVenc
    <3>. QED BY <1>6, <2>1, <3>1, <3>2 DEF Taking, Holding
  <2>3. CASE ~ask.use_rga
    <3>1. HeldInv("direct", ask.use_rga, <<>>, held \cup {"venc"})
      BY <2>1, <2>3 DEF HeldInv, Holding
    <3>2. Make("venc", "venc", "direct", <<>>)
      BY <1>7, <2>3 DEF CreateVenc
    <3>. QED BY <1>6, <2>1, <3>1, <3>2 DEF Taking, Holding
  <2>. QED BY <2>2, <2>3
<1>8. CASE BindDirect
  <2>1. held = {"venc"} /\ held = ToSet(<<"venc">>) /\ <<"venc">> \in Rests /\ ~ask.use_rga
    BY <1>2, <1>8, RestSets DEF BindDirect, Make, AskAt, HeldInv, Rests
  <2>2. HeldInv("frame", ask.use_rga, <<>>, held \cup {"VDEC-VENC"})
    BY <2>1 DEF HeldInv, Holding, Way
  <2>. QED BY <1>6, <1>8, <2>1, <2>2 DEF BindDirect, Taking, Holding
<1>9. CASE CreateRga
  <2>1. held = {"venc"} /\ held = ToSet(<<"venc">>) /\ <<"venc">> \in Rests /\ ask.use_rga
    BY <1>2, <1>9, RestSets DEF CreateRga, Make, AskAt, HeldInv, Rests
  <2>2. HeldInv("in", ask.use_rga, <<>>, held \cup {"rga"})
    BY <2>1 DEF HeldInv, Holding
  <2>. QED BY <1>6, <1>9, <2>1, <2>2 DEF CreateRga, Taking, Holding
<1>10. CASE Make("VDEC-RGA", "in", "out", <<"rga", "venc">>)
  <2>1. held = {"rga", "venc"} /\ held = ToSet(<<"rga", "venc">>) /\ ask.use_rga
        /\ <<"rga", "venc">> \in Rests
    BY <1>2, <1>10, RestSets DEF Make, AskAt, HeldInv, Rests
  <2>2. HeldInv("out", ask.use_rga, <<>>, held \cup {"VDEC-RGA"})
    BY <2>1 DEF HeldInv, Holding
  <2>. QED BY <1>6, <1>10, <2>1, <2>2 DEF Taking, Holding
<1>11. CASE Make("RGA-VENC", "out", "frame", <<"VDEC-RGA", "rga", "venc">>)
  <2>1. held = {"VDEC-RGA", "rga", "venc"} /\ held = ToSet(<<"VDEC-RGA", "rga", "venc">>)
        /\ ask.use_rga /\ <<"VDEC-RGA", "rga", "venc">> \in Rests
    BY <1>2, <1>11, RestSets DEF Make, AskAt, HeldInv, Rests
  <2>2. HeldInv("frame", ask.use_rga, <<>>, held \cup {"RGA-VENC"})
    BY <2>1 DEF HeldInv, Holding, Way
  <2>. QED BY <1>6, <1>11, <2>1, <2>2 DEF Taking, Holding
<1>12. CASE GetJpeg
  <2>1. ask.at = "frame" /\ m_mapIpcVdec' = m_mapIpcVdec /\ held = Way(ask.use_rga)
        /\ ask.at \in Taking
    BY <1>2, <1>12 DEF GetJpeg, AskAt, Taking, Holding, HeldInv
  <2>2. CASE held' = held \cup {"getting", "buffer"} /\ AskTo("open")
    <3>1. HeldInv("open", ask.use_rga, <<>>, held')
      BY <2>1, <2>2 DEF HeldInv, Holding
    <3>. QED BY <1>1, <1>2, <2>1, <2>2, <3>1, AskGoes DEF Taking, Holding
  <2>3. CASE held' = held \cup {"getting"} /\ Exit(StopAnd(Unbound), FALSE)
    <3>1. StopAnd(Unbound) \in Rests /\ held' = ToSet(StopAnd(Unbound))
      BY <1>3, <2>1, <2>3, LateExits
    <3>. QED BY <1>1, <2>1, <2>3, <3>1, AskExits
  <2>. QED BY <1>12, <2>2, <2>3 DEF GetJpeg
<1>. QED BY <1>4, <1>5, <1>7, <1>8, <1>9, <1>10, <1>11, <1>12 DEF TakeStep, BindRga

LEMMA FileStep == ASSUME ImageInv, OpenJpg \/ WriteJpg PROVE ImageInv'
<1>1. /\ UNCHANGED <<incidentImageIds, response, asked, m_mapIpcVdec, held>>
      /\ ask.at \in {"open", "write"}
  BY DEF OpenJpg, OpenWith, WriteJpg, Unasked, AskAt, hardwareVars
<1>2. /\ ask.i \in DOMAIN ask.absChs /\ m_mapIpcVdec = absCh /\ ask.at \in Taking
      /\ m_mapIpcVdec \in Camera \cup {NoCamera} /\ ask \in Snap /\ asked \in Nat
      /\ FilesInv(jpg) /\ held = Way(ask.use_rga) \cup {"getting", "buffer"}
  BY <1>1 DEF ImageInv, ImageTypes, TakingInv, absCh, Taking, Holding, HeldInv
<1>3. absCh \in Camera /\ ask.use_rga \in BOOLEAN
  BY <1>2 DEF Snap, absCh
<1> DEFINE image == [of |-> m_mapIpcVdec, call |-> asked, size |-> "empty"]
           list == <<"buffer">> \o StopAnd(Unbound)
<1>4. list \in Rests /\ held' = ToSet(list)
  BY <1>1, <1>2, <1>3, LateExits
<1> HIDE DEF list
<1>5. CASE OpenJpg /\ jpg' = [jpg EXCEPT ![absCh] = image] /\ AskTo("write")
  <2>1. FilesInv(jpg') /\ jpg'[absCh].of = absCh
    BY <1>2, <1>3, <1>5 DEF FilesInv, Size
  <2>2. HeldInv("write", ask.use_rga, <<>>, held')
    BY <1>1, <1>2 DEF HeldInv, Holding
  <2>. QED BY <1>1, <1>2, <1>5, <2>1, <2>2, AskGoes DEF Taking, Holding
<1>6. CASE Exit(list, FALSE) /\ jpg' = jpg
  BY <1>1, <1>2, <1>4, <1>6, AskExits
<1>7. CASE WriteJpg
  <2>1. jpg[absCh].of = absCh
    BY <1>1, <1>2, <1>7 DEF ImageInv, TakingInv, WriteJpg, AskAt, absCh
  <2>2. ASSUME NEW size \in Size, jpg' = [jpg EXCEPT ![absCh].size = size]
        PROVE  FilesInv(jpg')
    BY <1>2, <1>3, <2>1, <2>2 DEF FilesInv
  <2>3. FilesInv(jpg') /\ (Exit(list, TRUE) \/ Exit(list, FALSE))
    BY <1>7, <2>2 DEF WriteJpg, Size, list
  <2>. QED BY <1>1, <1>2, <1>4, <2>3, AskExits
<1>. QED BY <1>5, <1>6, <1>7 DEF OpenJpg, OpenWith, list

\* snap_once gives something back, or returns.
LEMMA ReturnStep == ASSUME ImageInv, GiveBack \/ SnapReturns PROVE ImageInv'
<1>1. /\ UNCHANGED <<incidentImageIds, response, asked, m_mapIpcVdec, jpg>>
      /\ ask.at = "undo"
  BY DEF GiveBack, SnapReturns, Unasked, AskAt, hardwareVars
<1>2. /\ FilesInv(jpg') /\ ask \in Snap /\ ask.undo \in Rests /\ held = ToSet(ask.undo)
      /\ m_mapIpcVdec' \in Camera \cup {NoCamera} /\ ask.success_idx = <<>>
  BY <1>1 DEF ImageInv, ImageTypes, HeldInv, ReadInv, Snap
<1>3. ask.i \in DOMAIN ask.absChs /\ m_mapIpcVdec = ask.absChs[ask.i]
  BY <1>1 DEF ImageInv, TakingInv, Taking, Holding
<1>4. CASE GiveBack
  <2>1. ask.undo # <<>> /\ held' = held \ {Head(ask.undo)} /\ ask' = [ask EXCEPT !.undo = Tail(@)]
    BY <1>4 DEF GiveBack
  <2>2. Tail(ask.undo) \in Rests /\ held' = ToSet(Tail(ask.undo))
    BY <1>2, <2>1, GivingBack
  <2>3. PICK a : a = ask'
    OBVIOUS
  <2>4. /\ a \in Snap /\ a.at = "undo" /\ a.undo = Tail(ask.undo) /\ a.absChs = ask.absChs
        /\ a.i = ask.i /\ a.success_idx = <<>>
    BY <1>1, <1>2, <2>1, <2>2, <2>3 DEF Snap
  <2>5. TakingInv(a, m_mapIpcVdec', jpg') /\ HeldInv(a.at, a.use_rga, a.undo, held')
    BY <1>1, <1>3, <2>2, <2>4 DEF TakingInv, HeldInv, Taking, Holding
  <2>. QED BY <1>1, <1>2, <2>3, <2>4, <2>5, AskMoves
<1>5. CASE SnapReturns
  <2>1. ask.undo = <<>> /\ held' = held
    BY <1>5 DEF SnapReturns, hardwareVars
  <2>2. held' = {}
    BY <1>2, <2>1, RestSets
  <2>3. CASE NextCamera(1) \/ NextCamera(0)
    BY <1>1, <1>2, <2>1, <2>2, <2>3, AskNext
  <2>4. CASE ask' = [ask EXCEPT !.at = "venc", !.use_rga = TRUE]
    <3>1. PICK a : a = ask'
      OBVIOUS
    <3>2. /\ a \in Snap /\ a.at = "venc" /\ a.absChs = ask.absChs /\ a.i = ask.i
          /\ a.success_idx = <<>> /\ a.undo = <<>>
      BY <1>2, <2>1, <2>4, <3>1 DEF Snap, Taking
    <3>3. TakingInv(a, m_mapIpcVdec', jpg') /\ HeldInv(a.at, a.use_rga, a.undo, held')
      BY <1>1, <1>3, <2>2, <3>2 DEF TakingInv, HeldInv, Taking, Holding
    <3>. QED BY <1>1, <1>2, <3>1, <3>2, <3>3, AskMoves
  <2>. QED BY <1>5, <2>3, <2>4 DEF SnapReturns
<1>. QED BY <1>4, <1>5

LEMMA NoImages ==
  ASSUME NEW valid, response' = [isValid |-> valid, images |-> <<>>]
  PROVE  ImagesMatchIds'
<1>1. DOMAIN <<>> = {} /\ Len(<<>>) = 0
  OBVIOUS
<1>2. {response'.images[k].id : k \in DOMAIN response'.images} = {}
  BY <1>1
<1>. QED BY <1>1, <1>2, FS_EmptySet DEF ImagesMatchIds

\* A call begins, ends, skips a camera or goes on to the files.
LEMMA AnswerEnds ==
  ASSUME ImageInv, NEW valid, Respond(valid, <<>>), UNCHANGED <<incidentImageIds, jpg, held>>,
         held = {}, m_mapIpcVdec' \in Camera \cup {NoCamera}, asked' \in Nat
  PROVE  ImageInv'
<1>1. /\ NoAsk \in Snap /\ NoAsk.at = "off" /\ NoAsk.absChs = <<>> /\ NoAsk.success_idx = <<>>
      /\ NoAsk.undo = <<>>
  BY DEF NoAsk, Snap, Rests
<1>2. ask' = NoAsk /\ response' = [isValid |-> valid, images |-> <<>>]
  BY DEF Respond
<1>3. ImagesMatchIds'
  BY <1>2, NoImages
<1>4. ImageTypes'
  BY <1>1, <1>2 DEF ImageInv, ImageTypes
<1>. QED BY <1>1, <1>2, <1>3, <1>4
         DEF ImageInv, ListInv, TakingInv, ReadInv, HeldInv, Taking, Holding

LEMMA BeginStep == ASSUME ImageInv, rk_get_incident_images PROVE ImageInv'
<1>1. /\ UNCHANGED <<incidentImageIds, jpg, held, m_mapIpcVdec>> /\ asked' = asked + 1
      /\ ask.at = "off"
  BY DEF rk_get_incident_images, hardwareVars, AskAt
<1>2. /\ asked' \in Nat /\ held = {} /\ m_mapIpcVdec' \in Camera \cup {NoCamera}
  BY <1>1 DEF ImageInv, ImageTypes, Holding, HeldInv
<1>3. CASE Respond(FALSE, <<>>)
  BY <1>1, <1>2, <1>3, AnswerEnds
<1>4. CASE /\ ask' = [NoAsk EXCEPT !.at = "camera", !.absChs = absChsOf(incidentImageIds)]
           /\ response' = [isValid |-> TRUE, images |-> <<>>]
  <2>1. incidentImageIds \in Seq(Nat)
    BY ImageAssumption DEF ImageInv, ImageTypes
  <2>2. PICK cameras \in Seq(Camera) :
          /\ cameras = absChsOf(incidentImageIds)
          /\ \A k, l \in DOMAIN cameras : cameras[k] = cameras[l] => k = l
    BY <2>1, CamerasOnce
  <2>3. ask' = [at |-> "camera", absChs |-> cameras, i |-> 1, use_rga |-> FALSE,
                undo |-> <<>>, got |-> FALSE, ok |-> 0, success_idx |-> <<>>]
    BY <1>4, <2>2 DEF NoAsk
  <2>4. ask' \in Snap /\ ask'.at = "camera" /\ ask'.absChs = cameras /\ ask'.success_idx = <<>>
        /\ ask'.undo = <<>>
    BY <2>3 DEF Snap, Rests
  <2>5. ImageTypes'
    BY <1>1, <1>2, <2>4 DEF ImageInv, ImageTypes
  <2>6. ImagesMatchIds'
    BY <1>4, NoImages
  <2>. QED BY <1>1, <1>2, <2>2, <2>4, <2>5, <2>6
           DEF ImageInv, ListInv, TakingInv, ReadInv, HeldInv, Taking, Holding
<1>. QED BY <1>3, <1>4 DEF rk_get_incident_images

LEMMA CameraStep == ASSUME ImageInv, SnapshotDone \/ CameraValid PROVE ImageInv'
<1>1. /\ UNCHANGED <<incidentImageIds, jpg, held, m_mapIpcVdec, asked>> /\ ask.at = "camera"
  BY DEF SnapshotDone, CameraValid, hardwareVars, AskAt, Unasked
<1>2. /\ asked' \in Nat /\ held = {} /\ held' = {} /\ m_mapIpcVdec' \in Camera \cup {NoCamera}
      /\ FilesInv(jpg') /\ ask \in Snap /\ ask.success_idx = <<>> /\ ask.undo = <<>>
  BY <1>1 DEF ImageInv, ImageTypes, ReadInv, Holding, HeldInv
<1>3. CASE SnapshotDone /\ Respond(FALSE, <<>>)
  BY <1>1, <1>2, <1>3, AnswerEnds
<1>4. CASE ask' = [ask EXCEPT !.at = "read", !.i = 1] /\ UNCHANGED response
  <2>1. /\ ask' \in Snap /\ ask'.absChs = ask.absChs /\ ask'.at = "read"
        /\ ask'.success_idx = <<>> /\ ask'.undo = <<>>
    <3>1. ask' = [at |-> "read", absChs |-> ask.absChs, i |-> 1, use_rga |-> ask.use_rga,
                  undo |-> ask.undo, got |-> ask.got, ok |-> ask.ok,
                  success_idx |-> ask.success_idx]
      BY <1>2, <1>4 DEF Snap
    <3>. QED BY <1>2, <3>1 DEF Snap
  <2>2. PICK a : a = ask'
    OBVIOUS
  <2>3. TakingInv(a, m_mapIpcVdec', jpg') /\ HeldInv(a.at, a.use_rga, a.undo, held')
    BY <1>2, <2>1, <2>2 DEF TakingInv, HeldInv, Taking, Holding
  <2>. QED BY <1>1, <1>2, <1>4, <2>1, <2>2, <2>3, AskMoves
<1>5. CASE CameraValid
  <2>1. UNCHANGED response /\ ask.i <= Len(ask.absChs)
    BY <1>5 DEF CameraValid, Unasked
  <2>2. ask.i \in DOMAIN ask.absChs
    BY <1>2, <2>1 DEF Snap
  <2>3. CASE AskTo("bind")
    <3>1. HeldInv("bind", ask.use_rga, <<>>, held')
      BY <1>2 DEF HeldInv, Holding
    <3>2. ask.at \notin {"read", "undo"} /\ (ask.at \notin Taking)
      BY <1>1 DEF Taking, Holding
    <3>3. ask.at = "camera" /\ ask.at \notin Taking /\ UNCHANGED <<incidentImageIds, response, asked>>
          /\ FilesInv(jpg') /\ "bind" \notin Taking
      BY <1>1, <1>2, <2>1, <3>2 DEF Taking, Holding
    <3>. QED BY <1>2, <2>2, <2>3, <3>1, <3>2, <3>3, AskGoes
  <2>4. CASE NextCamera(0)
    BY <1>1, <1>2, <2>1, <2>4, AskNext
  <2>. QED BY <1>5, <2>3, <2>4 DEF CameraValid
<1>. QED BY <1>3, <1>4, <1>5 DEF SnapshotDone

LEMMA ReadPictureStep == ASSUME ImageInv, ReadJpg PROVE ImageInv'
<1>1. /\ UNCHANGED <<incidentImageIds, response, asked, jpg, held, m_mapIpcVdec>>
      /\ ask.at = "read" /\ ask.i <= Len(ask.absChs) /\ ask \in Snap
  BY DEF ReadJpg, AskAt, Unasked, hardwareVars, ImageInv, ImageTypes
<1>2. ask.i \in DOMAIN ask.absChs /\ ask.i \in Nat /\ ask.success_idx \in Seq(Nat)
      /\ ask.absChs \in Seq(Camera) /\ ask.i + 1 \in Nat \ {0}
  BY <1>1 DEF Snap
<1>3. ReadInv(ask, jpg) /\ ask.undo = <<>> /\ held' = {}
  BY <1>1 DEF ImageInv, HeldInv, Holding
<1>4. PICK s \in Seq(Nat) :
        /\ \/ s = ask.success_idx
           \/ s = Append(ask.success_idx, ask.i) /\ jpg[absCh].size \in {"part", "whole"}
        /\ ask' = [at |-> "read", absChs |-> ask.absChs, i |-> ask.i + 1,
                   use_rga |-> ask.use_rga, undo |-> ask.undo, got |-> ask.got,
                   ok |-> ask.ok, success_idx |-> s]
  <2>1. Append(ask.success_idx, ask.i) \in Seq(Nat)
    BY <1>2
  <2>2. CASE ask' = [ask EXCEPT !.i = @ + 1, !.success_idx = Append(@, ask.i)]
             /\ jpg[absCh].size \in {"part", "whole"}
    <3>1. ask' = [at |-> "read", absChs |-> ask.absChs, i |-> ask.i + 1,
                  use_rga |-> ask.use_rga, undo |-> ask.undo, got |-> ask.got,
                  ok |-> ask.ok,
                  success_idx |-> Append(ask.success_idx, ask.i)]
      BY <1>1, <2>2 DEF Snap
    <3>. QED BY <2>1, <2>2, <3>1
  <2>3. CASE ask' = [ask EXCEPT !.i = @ + 1]
    <3>1. ask' = [at |-> "read", absChs |-> ask.absChs, i |-> ask.i + 1,
                  use_rga |-> ask.use_rga, undo |-> ask.undo, got |-> ask.got,
                  ok |-> ask.ok,
                  success_idx |-> ask.success_idx]
      BY <1>1, <2>3 DEF Snap
    <3>. QED BY <1>2, <3>1
  <2>. QED BY <2>2, <2>3 DEF ReadJpg
<1>5. /\ ask'.at = "read" /\ ask'.absChs = ask.absChs /\ ask'.i = ask.i + 1
      /\ ask'.success_idx = s /\ ask' \in Snap /\ ask'.undo = <<>>
  BY <1>1, <1>2, <1>3, <1>4 DEF Snap
<1>6. \A k \in DOMAIN s : /\ s[k] \in DOMAIN ask.absChs /\ s[k] < ask.i + 1
                          /\ jpg[ask.absChs[s[k]]].size # "none"
  <2>1. CASE s = ask.success_idx
    BY <1>2, <1>3, <2>1 DEF ReadInv
  <2>2. CASE s = Append(ask.success_idx, ask.i) /\ jpg[absCh].size \in {"part", "whole"}
    <3> SUFFICES ASSUME NEW k \in DOMAIN s
                 PROVE  /\ s[k] \in DOMAIN ask.absChs /\ s[k] < ask.i + 1
                        /\ jpg[ask.absChs[s[k]]].size # "none"
      OBVIOUS
    <3>1. CASE k \in DOMAIN ask.success_idx
      <4>1. s[k] = ask.success_idx[k] /\ s[k] \in Nat
        BY <1>2, <2>2, <3>1
      <4>. QED BY SMTT(30), <1>2, <1>3, <3>1, <4>1 DEF ReadInv
    <3>2. CASE k \notin DOMAIN ask.success_idx
      <4>1. s[k] = ask.i
        BY <1>2, <2>2, <3>2
      <4>. QED BY SMTT(30), <1>2, <2>2, <4>1 DEF absCh
    <3>. QED BY <3>1, <3>2
  <2>. QED BY <1>4, <2>1, <2>2
<1>7. \A k, l \in DOMAIN s : s[k] = s[l] => k = l
  <2>1. CASE s = ask.success_idx
    BY <1>3, <2>1 DEF ReadInv
  <2>2. CASE s = Append(ask.success_idx, ask.i)
    <3> DEFINE n == Len(ask.success_idx)
    <3>1. /\ n \in Nat /\ DOMAIN ask.success_idx = 1 .. n /\ DOMAIN s = 1 .. n + 1
          /\ s[n + 1] = ask.i /\ \A k \in 1 .. n : s[k] = ask.success_idx[k]
      BY <1>2, <2>2
    <3>2. ASSUME NEW k \in 1 .. n PROVE s[k] \in Nat /\ s[k] < ask.i
      <4>1. k \in DOMAIN ask.success_idx /\ s[k] = ask.success_idx[k]
        BY <3>1
      <4>2. ask.success_idx[k] \in Nat
        BY <1>2, <4>1
      <4>3. ask.success_idx[k] < ask.i
        BY <1>3, <4>1 DEF ReadInv
      <4>. QED BY <4>1, <4>2, <4>3
    <3>3. \A k \in 1 .. n + 1 : k \in 1 .. n \/ k = n + 1
      BY <3>1
    <3>4. \A k \in 1 .. n : s[k] # s[n + 1]
      BY <1>2, <3>1, <3>2
    <3> HIDE DEF n
    <3>. QED BY <1>3, <3>1, <3>3, <3>4 DEF ReadInv
  <2>. QED BY <1>4, <2>1, <2>2
<1>8. ImageTypes' /\ ImagesMatchIds' /\ FilesInv(jpg')
  BY <1>1, <1>5 DEF ImageInv, ImageTypes, ImagesMatchIds
<1>. QED BY <1>1, <1>3, <1>5, <1>6, <1>7, <1>8
         DEF ImageInv, ListInv, TakingInv, ReadInv, HeldInv, Taking, Holding

LEMMA FillStep == ASSUME ImageInv, FillImages PROVE ImageInv'
<1>1. /\ UNCHANGED <<incidentImageIds, jpg, held, m_mapIpcVdec, asked>> /\ ask.at = "read"
  BY DEF FillImages, hardwareVars, AskAt
<1>2. /\ asked' \in Nat /\ held = {} /\ m_mapIpcVdec' \in Camera \cup {NoCamera}
      /\ FilesInv(jpg) /\ ask \in Snap /\ ReadInv(ask, jpg) /\ ListInv(ask)
  BY <1>1 DEF ImageInv, ImageTypes, Holding, HeldInv
<1> DEFINE images == [k \in DOMAIN ask.success_idx |-> ImageOf(k)]
<1>3. CASE Respond(FALSE, <<>>)
  BY <1>1, <1>2, <1>3, AnswerEnds
<1>4. ASSUME NEW valid, Respond(valid, images)
      PROVE  ImageInv'
  <2> DEFINE s == ask.success_idx  n == Len(s)  camera(k) == ask.absChs[s[k]]
  <2>1. n \in Nat /\ DOMAIN s = 1 .. n
    BY <1>2 DEF Snap
  <2>2. ASSUME NEW k \in 1 .. n
        PROVE  /\ camera(k) \in Camera /\ jpg[camera(k)].of = camera(k)
               /\ images[k].id = userId(camera(k)) /\ images[k].jpg = jpg[camera(k)]
    <3>1. s[k] \in DOMAIN ask.absChs /\ jpg[camera(k)].size # "none"
      BY <1>2, <2>1 DEF ReadInv
    <3>2. camera(k) \in Camera
      BY <1>2, <3>1 DEF Snap
    <3>3. jpg[camera(k)].of = camera(k)
      BY <1>2, <3>1, <3>2 DEF FilesInv
    <3>. QED BY <2>1, <3>2, <3>3 DEF ImageOf
  <2>3. \A k, l \in 1 .. n : camera(k) = camera(l) => k = l
    BY <1>2, <2>1 DEF ReadInv, ListInv
  <2>4. Len(images) = n /\ DOMAIN images = 1 .. n
    <3>1. PICK S : S = {images[k] : k \in 1 .. n}
      OBVIOUS
    <3>2. images \in [1 .. n -> S]
      BY <2>1, <3>1
    <3>. QED BY <2>1, <3>2
  <2>5. \A c \in Camera : c = IPCCHANNELBEGIN + userId(c) - 1
    BY ImageAssumption DEF Camera, userId
  <2> HIDE DEF images, camera, n
  <2>6. \A k \in 1 .. n : images[k].jpg.of = IPCCHANNELBEGIN + images[k].id - 1
    <3> SUFFICES ASSUME NEW k \in 1 .. n
                 PROVE  images[k].jpg.of = IPCCHANNELBEGIN + images[k].id - 1
      OBVIOUS
    <3>1. camera(k) = IPCCHANNELBEGIN + userId(camera(k)) - 1
      BY <2>2, <2>5
    <3>. QED BY <2>2, <3>1
  <2>7. \A k, l \in 1 .. n : images[k].id = images[l].id => k = l
    <3> SUFFICES ASSUME NEW k \in 1 .. n, NEW l \in 1 .. n, images[k].id = images[l].id
                 PROVE  k = l
      OBVIOUS
    <3>1. userId(camera(k)) = userId(camera(l)) /\ camera(k) \in Camera /\ camera(l) \in Camera
      BY <2>2
    <3>2. camera(k) = camera(l)
      BY <2>5, <3>1
    <3>. QED BY <2>3, <3>2
  <2>8. Cardinality({images[k].id : k \in 1 .. n}) = n
    <3> DEFINE ids == {images[k].id : k \in 1 .. n}  f == [k \in 1 .. n |-> images[k].id]
    <3>1. f \in Bijection(1 .. n, ids)
      BY <2>7 DEF Bijection, Injection, Surjection, IsInjective
    <3>2. ExistsBijection(1 .. n, ids)
      BY <3>1 DEF ExistsBijection
    <3>. QED BY <2>1, <3>2, FS_CountingElements DEF n
  <2>9. ask' = NoAsk /\ response'.images = images /\ DOMAIN images = 1 .. n
    <3>1. ask' = NoAsk /\ response' = [isValid |-> valid, images |-> images]
      BY <1>4 DEF Respond
    <3>. QED BY <2>4, <3>1
  <2>10. ImagesMatchIds'
    BY <2>4, <2>6, <2>8, <2>9 DEF ImagesMatchIds
  <2>11. /\ NoAsk \in Snap /\ NoAsk.at = "off" /\ NoAsk.absChs = <<>>
         /\ NoAsk.success_idx = <<>> /\ NoAsk.undo = <<>>
    BY DEF NoAsk, Snap, Rests
  <2>12. ImageTypes'
    BY <1>1, <1>2, <2>9, <2>11 DEF ImageInv, ImageTypes
  <2>. QED BY <1>1, <1>2, <2>9, <2>10, <2>11, <2>12
           DEF ImageInv, ListInv, TakingInv, ReadInv, HeldInv, Taking, Holding
<1>. QED BY <1>3, <1>4 DEF FillImages

LEMMA ImageStep == ASSUME ImageInv, [ImageNext]_imageVars PROVE ImageInv'
<1>1. ASSUME UNCHANGED <<m_mapIpcVdec, held, jpg, ask, response, asked>>,
             incidentImageIds' \in IdLists
      PROVE  ImageInv'
  BY <1>1 DEF ImageInv, ImageTypes, ListInv, TakingInv, ReadInv, FilesInv, ImagesMatchIds
<1>2. CASE UNCHANGED imageVars \/ rk_create_incident \/ CameraComesOrGoes
  BY <1>1, <1>2 DEF imageVars, hardwareVars, rk_create_incident, CameraComesOrGoes, ImageInv,
                    ImageTypes
<1>3. CASE rk_get_incident_images
  BY <1>3, BeginStep
<1>4. CASE SnapshotJpegMulti
  BY <1>4, CameraStep, TakingStep, FileStep, ReturnStep DEF SnapshotJpegMulti, TakeStep
<1>5. CASE ReadJpg \/ FillImages
  BY <1>5, ReadPictureStep, FillStep
<1>. QED BY <1>2, <1>3, <1>4, <1>5 DEF ImageNext

LEMMA ImageBegins == ASSUME ImageInit PROVE ImageInv
<1>1. /\ NoAsk \in Snap /\ NoAsk.at = "off" /\ NoAsk.absChs = <<>> /\ NoAsk.success_idx = <<>>
      /\ NoAsk.undo = <<>>
  BY DEF NoAsk, Snap, Rests
<1>2. ImagesMatchIds
  <2>1. DOMAIN <<>> = {} /\ Len(<<>>) = 0
    OBVIOUS
  <2>2. {response.images[k].id : k \in DOMAIN response.images} = {}
    BY <2>1 DEF ImageInit
  <2>. QED BY <2>1, <2>2, FS_EmptySet DEF ImagesMatchIds, ImageInit
<1>3. FilesInv(jpg)
  BY DEF ImageInit, FilesInv, NoJpg, Size
<1>. QED BY <1>1, <1>2, <1>3
         DEF ImageInit, ImageInv, ImageTypes, ListInv, TakingInv, ReadInv, HeldInv, Taking,
             Holding

\* A picture of an answer has the ID of its camera, and no camera comes twice.
THEOREM ImagesCorrect == ImageSpec => []ImagesMatchIds
<1>1. ImageInit => ImageInv
  BY ImageBegins
<1>2. ImageInv /\ [ImageNext]_imageVars => ImageInv'
  BY ImageStep
<1>. QED BY <1>1, <1>2, ImageImplies, PTL DEF ImageSpec

\* Between two attempts no channel is held, whichever exit was taken; each exit gives back
\* what is there, the ways before their ends.
THEOREM ReturnedCorrect == ImageSpec => []HardwareReturned
<1>1. ImageInit => ImageInv
  BY ImageBegins
<1>2. ImageInv /\ [ImageNext]_imageVars => ImageInv'
  BY ImageStep
<1>. QED BY <1>1, <1>2, ImageImplies, PTL DEF ImageSpec

(***************************************************************************)
(* The audio of a channel.  The samples are numbers of times, so that the  *)
(* proofs need what the capacity of the FIFO is when it grows, what the    *)
(* concatenation of the packets is when one is added, and the arithmetic   *)
(* of the time stamps.                                                     *)
(***************************************************************************)
(***************************************************************************)
(* Induction, for a set of numbers                                         *)
(***************************************************************************)
LEMMA EveryNumber ==
  ASSUME NEW T, 0 \in T, \A n \in Nat : n \in T => n + 1 \in T
  PROVE  \A n \in Nat : n \in T
<1> SUFFICES ASSUME Nat \ T # {} PROVE FALSE
  OBVIOUS
<1>1. PICK x \in Nat \ T : \A y \in Nat \ T : ~(<<y, x>> \in OpToRel(<, Nat))
  <2>1. Nat \ T \subseteq Nat
    OBVIOUS
  <2>. QED BY <2>1, NatLessThanWellFounded, WFMin
<1>2. x # 0 /\ x - 1 \in Nat /\ x - 1 < x
  OBVIOUS
<1>3. x - 1 \in T
  BY <1>1, <1>2 DEF OpToRel
<1>. QED BY <1>2, <1>3

(***************************************************************************)
(* The capacity of the FIFO                                                *)
(***************************************************************************)
Doubles(f, n) == f = [k \in 0 .. n |-> IF k = 0 THEN 1 ELSE 2 * f[k - 1]]

LEMMA DoublesExist == \A n \in Nat : \E f : Doubles(f, n)
<1> DEFINE T == {n \in Nat : \E f : Doubles(f, n)}
<1>1. 0 \in T
  <2>1. Doubles([k \in 0 .. 0 |-> 1], 0)
    BY DEF Doubles
  <2>. QED BY <2>1
<1>2. ASSUME NEW n \in Nat, n \in T PROVE n + 1 \in T
  <2>1. PICK f : Doubles(f, n)
    BY <1>2
  <2> DEFINE g == [k \in 0 .. n + 1 |-> IF k <= n THEN f[k] ELSE 2 * f[n]]
  <2>2. \A k \in 0 .. n + 1 : g[k] = IF k = 0 THEN 1 ELSE 2 * g[k - 1]
    BY <2>1 DEF Doubles
  <2>3. Doubles(g, n + 1)
    BY <2>2 DEF Doubles
  <2>. QED BY <2>3
<1>3. \A n \in Nat : n \in T
  <2> HIDE DEF T
  <2>. QED BY <1>1, <1>2, EveryNumber
<1>. QED BY <1>3

LEMMA DoublesAgree ==
  ASSUME NEW n \in Nat, NEW m \in Nat, n <= m, NEW f, Doubles(f, n), NEW g, Doubles(g, m)
  PROVE  \A k \in 0 .. n : f[k] = g[k]
<1> DEFINE T == {k \in Nat : k <= n => f[k] = g[k]}
<1>1. 0 \in T
  BY DEF Doubles
<1>2. ASSUME NEW k \in Nat, k \in T PROVE k + 1 \in T
  <2> SUFFICES ASSUME k + 1 <= n PROVE f[k + 1] = g[k + 1]
    OBVIOUS
  <2>1. f[k] = g[k] /\ k + 1 \in 0 .. n /\ k + 1 \in 0 .. m /\ (k + 1) - 1 = k /\ k + 1 # 0
    BY <1>2
  <2>. QED BY <2>1 DEF Doubles
<1>3. \A k \in Nat : k \in T
  BY <1>1, <1>2, EveryNumber
<1>. QED BY <1>3

\* The doubled capacities grow without bound.
LEMMA DoubledGrows == \A k \in Nat : Doubled[k] \in Nat /\ Doubled[k] >= k + 1
<1> DEFINE p(n) == CHOOSE f : Doubles(f, n)
           all == [n \in Nat |-> p(n)[n]]
<1>1. \A n \in Nat : Doubles(p(n), n)
  BY DoublesExist
<1>2. ASSUME NEW n \in Nat PROVE all[n] = IF n = 0 THEN 1 ELSE 2 * all[n - 1]
  <2>0. \A m \in Nat : all[m] = p(m)[m]
    <3> HIDE DEF p
    <3>. QED OBVIOUS
  <2> HIDE DEF all
  <2>1. CASE n = 0
    <3>1. Doubles(p(0), 0) /\ all[0] = p(0)[0]
      BY <1>1, <2>0
    <3> HIDE DEF p
    <3>2. p(0)[0] = 1
      BY <3>1 DEF Doubles
    <3>. QED BY <2>1, <3>1, <3>2
  <2>2. CASE n # 0
    <3>1. n - 1 \in Nat /\ n - 1 <= n /\ n \in 0 .. n
      BY <2>2
    <3>2. p(n)[n] = 2 * p(n)[n - 1]
      BY ZenonT(30), <1>1, <2>2, <3>1 DEF Doubles
    <3>3. p(n)[n - 1] = p(n - 1)[n - 1]
      <4> HIDE DEF p
      <4>. QED BY <1>1, <3>1, DoublesAgree
    <3> HIDE DEF p
    <3>. QED BY <2>0, <2>2, <3>1, <3>2, <3>3
  <2>. QED BY <2>1, <2>2
<1>3. all = [n \in Nat |-> IF n = 0 THEN 1 ELSE 2 * all[n - 1]]
  <2>1. all = [n \in Nat |-> all[n]]
    <3> HIDE DEF p
    <3>. QED OBVIOUS
  <2> HIDE DEF all
  <2>. QED BY <1>2, <2>1
<1>4. Doubled = [n \in Nat |-> IF n = 0 THEN 1 ELSE 2 * Doubled[n - 1]]
  <2> HIDE DEF all
  <2>. QED BY <1>3 DEF Doubled
<1> DEFINE T == {k \in Nat : Doubled[k] \in Nat /\ Doubled[k] >= k + 1}
<1>5. 0 \in T
  BY <1>4
<1>6. ASSUME NEW k \in Nat, k \in T PROVE k + 1 \in T
  <2>1. Doubled[k + 1] = 2 * Doubled[k]
    BY <1>4
  <2>. QED BY <1>6, <2>1
<1>7. \A k \in Nat : k \in T
  BY <1>5, <1>6, EveryNumber
<1>. QED BY <1>7

LEMMA GrownEnough ==
  ASSUME NEW cap \in Nat, NEW need \in Nat
  PROVE  Grown(cap, need) \in Nat /\ Grown(cap, need) >= need
<1> DEFINE start == IF cap = 0 THEN InitialCap ELSE cap
           enough == {k \in 0 .. need : start * Doubled[k] >= need}
<1>1. start \in Nat \ {0}
  BY AudioAssumption
<1>2. \A k \in Nat : Doubled[k] \in Nat /\ Doubled[k] >= k + 1
  BY DoubledGrows
<1> HIDE DEF start
<1>3. need \in enough
  <2>1. PICK d \in Nat : d = Doubled[need] /\ d >= need + 1
    BY <1>2
  <2>2. start * d >= d
    BY <1>1, <2>1
  <2>. QED BY <1>1, <2>1, <2>2
<1>4. \E k \in enough : \A l \in enough : k <= l
  <2>1. enough \subseteq Nat
    OBVIOUS
  <2> HIDE DEF enough
  <2>2. PICK x \in enough : \A y \in enough : ~(<<y, x>> \in OpToRel(<, Nat))
    BY <1>3, <2>1, NatLessThanWellFounded, WFMin
  <2>3. \A y \in enough : ~(y < x)
    BY <2>1, <2>2 DEF OpToRel
  <2>4. x \in Nat /\ \A y \in enough : y \in Nat
    BY <2>1
  <2>. QED BY <2>3, <2>4
<1>5. PICK k \in enough : Grown(cap, need) = start * Doubled[k]
  <2> HIDE DEF enough
  <2>. QED BY <1>4 DEF Grown, start, enough
<1>6. start * Doubled[k] \in Nat
  BY <1>1, <1>2
<1>. QED BY <1>5, <1>6

(***************************************************************************)
(* The concatenation of a sequence of sequences                            *)
(***************************************************************************)
Joins(f, s, n) ==
  f = [i \in 1 .. n |-> IF i = 1 THEN s[i] ELSE f[i - 1] \o s[i]]

LEMMA JoinsExist ==
  ASSUME NEW S, NEW s \in Seq(Seq(S))
  PROVE  \A n \in Nat : n <= Len(s) =>
           \E f : Joins(f, s, n) /\ \A i \in 1 .. n : f[i] \in Seq(S)
<1> DEFINE T == {n \in Nat : n <= Len(s) =>
                   \E f : Joins(f, s, n) /\ \A i \in 1 .. n : f[i] \in Seq(S)}
<1>1. 0 \in T
  <2>1. Joins(<<>>, s, 0)
    BY DEF Joins
  <2>. QED BY <2>1
<1>2. ASSUME NEW n \in Nat, n \in T PROVE n + 1 \in T
  <2> SUFFICES ASSUME n + 1 <= Len(s)
               PROVE  \E f : Joins(f, s, n + 1) /\ \A i \in 1 .. n + 1 : f[i] \in Seq(S)
    OBVIOUS
  <2>1. PICK f : Joins(f, s, n) /\ \A i \in 1 .. n : f[i] \in Seq(S)
    BY <1>2
  <2> DEFINE next == IF n = 0 THEN s[1] ELSE f[n] \o s[n + 1]
             g == [i \in 1 .. n + 1 |-> IF i <= n THEN f[i] ELSE next]
  <2>2. s[n + 1] \in Seq(S) /\ (n # 0 => n \in 1 .. n)
    BY LenProperties
  <2>3. next \in Seq(S)
    <3>1. CASE n = 0
      BY <2>2, <3>1
    <3>2. CASE n # 0
      BY <2>1, <2>2, <3>2, ConcatProperties
    <3>. QED BY <3>1, <3>2
  <2>4. \A i \in 1 .. n + 1 : g[i] = IF i <= n THEN f[i] ELSE next
    <3> HIDE DEF next
    <3>. QED OBVIOUS
  <2>5. \A i \in 1 .. n + 1 : g[i] = IF i = 1 THEN s[i] ELSE g[i - 1] \o s[i]
    <3> HIDE DEF g
    <3> TAKE i \in 1 .. n + 1
    <3>0. i \in Nat /\ i # 0 /\ (i # 1 => i - 1 \in 1 .. n /\ i - 1 \in 1 .. n + 1 /\ i - 1 <= n)
      OBVIOUS
    <3>1. CASE i <= n
      <4>0. i \in 1 .. n
        BY <3>0, <3>1
      <4>1. f[i] = IF i = 1 THEN s[i] ELSE f[i - 1] \o s[i]
        BY <2>1, <4>0 DEF Joins
      <4>2. g[i] = f[i] /\ (i # 1 => g[i - 1] = f[i - 1])
        BY <2>4, <3>0, <3>1
      <4>. QED BY <4>1, <4>2
    <3>2. CASE i = n + 1
      <4>1. g[i] = next /\ (i # 1 => n # 0 /\ i - 1 = n /\ g[n] = f[n])
        BY <2>4, <3>0, <3>2
      <4>. QED BY <3>2, <4>1
    <3>. QED BY <3>1, <3>2
  <2>6. g = [i \in 1 .. n + 1 |-> g[i]]
    <3> HIDE DEF next
    <3>. QED OBVIOUS
  <2>7. Joins(g, s, n + 1)
    <3> HIDE DEF g
    <3>. QED BY <2>5, <2>6 DEF Joins
  <2>. QED
    <3> HIDE DEF g, next
    <3>. QED BY <2>1, <2>3, <2>4, <2>7
<1>3. \A n \in Nat : n \in T
  <2> HIDE DEF T
  <2>. QED BY <1>1, <1>2, EveryNumber
<1>. QED BY <1>3

\* What is joined so far depends only on what has been read so far.
LEMMA JoinsAgree ==
  ASSUME NEW s, NEW t, NEW n \in Nat, NEW m \in Nat, n <= m,
         \A i \in 1 .. n : s[i] = t[i],
         NEW f, Joins(f, s, n), NEW g, Joins(g, t, m)
  PROVE  \A i \in 1 .. n : f[i] = g[i]
<1> DEFINE T == {i \in Nat : i + 1 <= n => f[i + 1] = g[i + 1]}
<1>1. 0 \in T
  <2> SUFFICES ASSUME 1 <= n PROVE f[1] = g[1]
    OBVIOUS
  <2>1. 1 \in 1 .. n /\ 1 \in 1 .. m
    OBVIOUS
  <2>. QED BY <2>1 DEF Joins
<1>2. ASSUME NEW i \in Nat, i \in T PROVE i + 1 \in T
  <2> SUFFICES ASSUME i + 2 <= n PROVE f[i + 2] = g[i + 2]
    OBVIOUS
  <2>1. /\ f[i + 1] = g[i + 1] /\ i + 2 \in 1 .. n /\ i + 2 \in 1 .. m
        /\ (i + 2) - 1 = i + 1 /\ i + 2 # 1
    BY <1>2
  <2>2. f[i + 2] = f[i + 1] \o s[i + 2] /\ g[i + 2] = g[i + 1] \o t[i + 2]
    BY ZenonT(30), <2>1 DEF Joins
  <2>. QED BY <2>1, <2>2
<1>3. \A i \in Nat : i \in T
  <2> HIDE DEF T
  <2>. QED BY <1>1, <1>2, EveryNumber
<1>4. ASSUME NEW i \in 1 .. n PROVE i - 1 \in Nat /\ (i - 1) + 1 = i
  OBVIOUS
<1>. QED BY <1>3, <1>4

LEMMA FlattenJoins ==
  ASSUME NEW S, NEW s \in Seq(Seq(S)), s # <<>>
  PROVE  \E f : /\ Joins(f, s, Len(s)) /\ FlattenSeq(s) = f[Len(s)]
                /\ \A i \in 1 .. Len(s) : f[i] \in Seq(S)
<1> DEFINE n == Len(s)
           f == CHOOSE h : h = [i \in 1 .. n |-> IF i = 1 THEN s[i] ELSE h[i - 1] \o s[i]]
<1>1. n \in Nat /\ n # 0
  BY EmptySeq, LenProperties
<1>2. PICK g : Joins(g, s, n) /\ \A i \in 1 .. n : g[i] \in Seq(S)
  BY <1>1, JoinsExist
<1>3. Joins(f, s, n)
  BY <1>2 DEF Joins
<1>4. FlattenSeq(s) = f[n]
  BY <1>1 DEF FlattenSeq
<1>5. \A i \in 1 .. n : f[i] = g[i]
  <2> HIDE DEF f
  <2>. QED BY <1>1, <1>2, <1>3, JoinsAgree
<1>. QED
  <2> HIDE DEF f
  <2>. QED BY <1>2, <1>3, <1>4, <1>5

LEMMA FlattenEmpty == FlattenSeq(<<>>) = <<>>
  BY DEF FlattenSeq

LEMMA FlattenType ==
  ASSUME NEW S, NEW s \in Seq(Seq(S)) PROVE FlattenSeq(s) \in Seq(S)
<1>1. CASE s = <<>>
  <2>1. <<>> \in Seq(S)
    OBVIOUS
  <2>. QED BY <1>1, <2>1, FlattenEmpty
<1>2. CASE s # <<>>
  <2>1. Len(s) \in 1 .. Len(s)
    BY <1>2, EmptySeq, LenProperties
  <2>2. PICK f : /\ Joins(f, s, Len(s)) /\ FlattenSeq(s) = f[Len(s)]
                 /\ \A i \in 1 .. Len(s) : f[i] \in Seq(S)
    BY <1>2, FlattenJoins
  <2>. QED BY <2>1, <2>2
<1>. QED BY <1>1, <1>2

LEMMA FlattenAppend ==
  ASSUME NEW S, NEW s \in Seq(Seq(S)), NEW e \in Seq(S)
  PROVE  FlattenSeq(Append(s, e)) = FlattenSeq(s) \o e
<1> DEFINE a == Append(s, e)
           n == Len(s)
<1>1. /\ a \in Seq(Seq(S)) /\ a # <<>> /\ Len(a) = n + 1 /\ a[n + 1] = e
      /\ \A i \in 1 .. n : a[i] = s[i]
  BY AppendProperties
<1>2. n \in Nat
  OBVIOUS
<1> HIDE DEF a, n
<1>3. PICK g : Joins(g, a, n + 1) /\ FlattenSeq(a) = g[n + 1]
  BY <1>1, FlattenJoins
<1>4. CASE s = <<>>
  <2>1. n = 0 /\ 1 \in 1 .. n + 1
    BY <1>4 DEF n
  <2>2. g[1] = a[1]
    BY <1>3, <2>1 DEF Joins
  <2>3. <<>> \o e = e
    BY ConcatEmptySeq
  <2>. QED BY <1>1, <1>3, <1>4, <2>1, <2>2, <2>3, FlattenEmpty DEF a
<1>5. CASE s # <<>>
  <2>1. n # 0 /\ n \in 1 .. n /\ n + 1 \in 1 .. n + 1 /\ n + 1 # 1 /\ (n + 1) - 1 = n
    BY <1>2, <1>5, EmptySeq DEF n
  <2>2. PICK f : Joins(f, s, n) /\ FlattenSeq(s) = f[n]
    BY <1>5, FlattenJoins DEF n
  <2>3. f[n] = g[n]
    <3>2. Joins(f, s, n)
      BY <2>2
    <3>3. Joins(g, a, n + 1)
      BY <1>3
    <3>4. n <= n + 1
      BY <1>2
    <3>5. n + 1 \in Nat
      BY <1>2
    <3>6. \A i \in 1 .. n : s[i] = a[i]
      BY <1>1
    <3>1. \A m \in Nat : \A h :
            n <= m /\ Joins(h, a, m) => \A i \in 1 .. n : f[i] = h[i]
      BY <1>2, <3>2, <3>6, JoinsAgree
    <3>7. \A i \in 1 .. n : f[i] = g[i]
      BY <3>1, <3>3, <3>4, <3>5
    <3>. QED BY <2>1, <3>7
  <2>4. g[n + 1] = g[n] \o a[n + 1]
    BY <1>3, <2>1 DEF Joins
  <2>. QED BY <1>1, <1>3, <2>2, <2>3, <2>4 DEF a
<1>. QED BY <1>4, <1>5

LEMMA FlattenTail ==
  ASSUME NEW S, NEW s \in Seq(Seq(S)), s # <<>>
  PROVE  FlattenSeq(s) = s[1] \o FlattenSeq(Tail(s))
<1> DEFINE t == Tail(s)
           n == Len(t)
<1>1. t \in Seq(Seq(S)) /\ Len(s) = n + 1 /\ \A i \in 1 .. n : t[i] = s[i + 1]
  BY HeadTailProperties
<1>2. n \in Nat /\ s[1] \in Seq(S)
  BY <1>1, LenProperties
<1>3. t = <<>> <=> n = 0
  BY <1>1, EmptySeq
<1> HIDE DEF t, n
<1>6. PICK f : /\ Joins(f, s, n + 1) /\ FlattenSeq(s) = f[n + 1]
  BY <1>1, FlattenJoins
<1>4. CASE t = <<>>
  <2>1. n = 0 /\ 1 \in 1 .. n + 1
    BY <1>3, <1>4
  <2>2. f[1] = s[1]
    BY <1>6, <2>1 DEF Joins
  <2>3. s[1] \o <<>> = s[1]
    BY <1>2, ConcatEmptySeq
  <2>4. FlattenSeq(t) = <<>>
    BY <1>4, FlattenEmpty
  <2>5. FlattenSeq(s) = s[1]
    BY <1>6, <2>1, <2>2
  <2>. QED BY <2>3, <2>4, <2>5 DEF t
<1>5. CASE t # <<>>
  <2>1. PICK g : /\ Joins(g, t, n) /\ FlattenSeq(t) = g[n]
                 /\ \A i \in 1 .. n : g[i] \in Seq(S)
    BY <1>1, <1>5, FlattenJoins DEF n
  <2>2. n # 0
    BY <1>3, <1>5
  <2> DEFINE T == {i \in Nat : i + 1 <= n => f[i + 2] = s[1] \o g[i + 1]}
  <2>0. \A i \in Nat : i \in T <=> (i + 1 <= n => f[i + 2] = s[1] \o g[i + 1])
    OBVIOUS
  <2> HIDE DEF T
  <2>3. 0 \in T
    <3>1. f[2] = f[1] \o s[2] /\ f[1] = s[1] /\ g[1] = t[1] /\ t[1] = s[2]
      <4>1. 1 \in 1 .. n + 1 /\ 2 \in 1 .. n + 1 /\ 1 \in 1 .. n /\ 2 - 1 = 1 /\ 2 # 1 /\ 1 + 1 = 2
        BY <1>2, <2>2
      <4>2. f[2] = f[1] \o s[2] /\ f[1] = s[1]
        BY <1>6, <4>1 DEF Joins
      <4>3. g[1] = t[1]
        BY <2>1, <4>1 DEF Joins
      <4>. QED BY <1>1, <4>1, <4>2, <4>3
    <3>2. 0 + 1 = 1 /\ 0 + 2 = 2
      OBVIOUS
    <3>. QED BY <2>0, <3>1, <3>2
  <2>4. ASSUME NEW i \in Nat, i \in T PROVE i + 1 \in T
    <3>0. (i + 1) + 1 = i + 2 /\ (i + 1) + 2 = i + 3
      OBVIOUS
    <3> SUFFICES ASSUME i + 2 <= n PROVE f[i + 3] = s[1] \o g[i + 2]
      <4>1. i + 1 \in Nat
        OBVIOUS
      <4>. QED BY <2>0, <3>0, <4>1
    <3>1. /\ i + 1 \in 1 .. n /\ i + 2 \in 1 .. n /\ i + 3 \in 1 .. n + 1
          /\ (i + 3) - 1 = i + 2 /\ (i + 2) - 1 = i + 1 /\ (i + 2) + 1 = i + 3
          /\ i + 3 # 1 /\ i + 2 # 1
      BY <1>2
    <3>2. f[i + 2] = s[1] \o g[i + 1]
      <4>1. i + 1 <= n
        BY <1>2
      <4>. QED BY <2>0, <2>4, <4>1
    <3>3. f[i + 3] = f[i + 2] \o s[i + 3]
      BY <1>6, <3>1 DEF Joins
    <3>4. g[i + 2] = g[i + 1] \o t[i + 2]
      BY <2>1, <3>1 DEF Joins
    <3>5. t[i + 2] = s[i + 3] /\ t[i + 2] \in Seq(S) /\ g[i + 1] \in Seq(S)
      BY <1>1, <2>1, <3>1, LenProperties
    <3>6. (s[1] \o g[i + 1]) \o t[i + 2] = s[1] \o (g[i + 1] \o t[i + 2])
      <4>1. s[1] \in Seq(S) /\ g[i + 1] \in Seq(S) /\ t[i + 2] \in Seq(S)
        BY <1>2, <3>5
      <4>2. \A x, y, z \in Seq(S) : (x \o y) \o z = x \o (y \o z)
        BY SMTT(30), ConcatAssociative
      <4>. QED BY <4>1, <4>2, Zenon
    <3>. QED BY <3>2, <3>3, <3>4, <3>5, <3>6
  <2>5. \A i \in Nat : i \in T
    BY <2>3, <2>4, EveryNumber
  <2>6. n - 1 \in Nat /\ (n - 1) + 1 = n /\ (n - 1) + 2 = n + 1
    BY <1>2, <2>2
  <2>7. f[n + 1] = s[1] \o g[n]
    <3>1. n - 1 \in T /\ (n - 1) + 1 <= n
      BY <1>2, <2>5, <2>6
    <3>. QED BY <2>0, <2>6, <3>1
  <2>. QED BY <1>6, <2>1, <2>7 DEF t
<1>. QED BY <1>4, <1>5

(***************************************************************************)
(* The invariant of the audio path.                                        *)
(***************************************************************************)
Codec == [initialized : BOOLEAN, sr_out : {0, 8000, 16000}, seq_hdr_sent : BOOLEAN,
          next_pts_ms : Nat, cap : Nat]
Packet == [pts_ms : Nat, samples : Seq(Nat)]
Samples == [i \in DOMAIN packets |-> packets[i].samples]

AudioTypes ==
  /\ A \in Codec /\ (A.initialized => A.sr_out # 0) /\ (A.seq_hdr_sent => A.initialized)
  /\ fifo \in Seq(Nat) /\ chunk \in Seq(Nat) /\ frame \in Seq(Nat) /\ stored \in Seq(Nat)
  /\ encoder \in Seq(Seq(Nat)) /\ packets \in Seq(Packet) /\ clock \in Nat

\* What is held where: each buffer is filled between two steps of a call only.
AudioPhase ==
  /\ audioAt \in {"open", "header", "store"} => chunk # <<>>
  /\ audioAt \notin {"open", "header", "store"} => chunk = <<>>
  /\ audioAt # "send" => frame = <<>>
  /\ audioAt \notin {"idle", "open"} => A.initialized
  /\ audioAt \notin {"idle", "open", "header"} => A.seq_hdr_sent
  /\ ~A.seq_hdr_sent =>
       fifo = <<>> /\ encoder = <<>> /\ packets = <<>> /\ stored = <<>>
  /\ \A j \in 1 .. Len(chunk) : chunk[j] + Len(chunk) + 1 = clock + j

\* The samples on the way are those taken from T on, until now: the next packet begins
\* with T, and each frame that is held begins where the one before it ended.
Held == IF audioAt = "send" THEN Len(encoder) + 1 ELSE Len(encoder)
AudioFlow(T) ==
  /\ A.next_pts_ms = pts(T)
  /\ \A i \in 1 .. Len(encoder) : encoder[i][1] = T + (i - 1) * need_in_8k
  /\ audioAt = "send" => frame[1] = T + Len(encoder) * need_in_8k
  /\ \A j \in 1 .. Len(fifo) : fifo[j] + 1 = T + Held * need_in_8k + j
  /\ T + Held * need_in_8k + Len(fifo) + Len(chunk) = clock
AudioTime == A.seq_hdr_sent /\ ~skewed => \E T \in Nat : AudioFlow(T)

AudioInv == AudioTypes /\ AudioPhase /\ AudioTime /\ PacketTimes /\ AudioInOrder

(***************************************************************************)
(* Arithmetic of the times                                                 *)
(***************************************************************************)
LEMMA PtsAdds ==
  ASSUME NEW a \in Nat, NEW b \in Nat
  PROVE  pts(a) \in Nat /\ pts(pts(a) + b) = pts(a + b)
<1> DEFINE m == PtsModulus
<1>1. m \in Nat \ {0}
  BY AudioAssumption
<1> HIDE DEF m
<1>2. a = m * (a \div m) + (a % m) /\ a % m \in 0 .. m - 1 /\ a \div m \in Nat
  BY <1>1
<1> DEFINE c == (a % m) + b
<1>3. c \in Nat
  BY <1>1, <1>2
<1>4. c = m * (c \div m) + (c % m) /\ c % m \in 0 .. m - 1 /\ c \div m \in Nat
  BY <1>1, <1>3
<1> HIDE DEF c
<1>5. a + b = m * ((a \div m) + (c \div m)) + (c % m)
  BY <1>1, <1>2, <1>4 DEF c
<1>6. \A q \in Nat, r \in 0 .. m - 1 : (m * q + r) % m = r
  BY <1>1
<1>7. (a + b) % m = c % m
  <2>1. (a \div m) + (c \div m) \in Nat
    BY <1>2, <1>4
  <2>. QED BY <1>4, <1>5, <1>6, <2>1
<1>. QED BY <1>2, <1>7 DEF pts, c, m

\* Both rates give a packet the time that its samples took.
LEMMA StepIsNeed ==
  ASSUME AudioTypes, A.initialized
  PROVE  need_in_8k \in Nat \ {0} /\ frame_ms_step = need_in_8k
<1>1. A.sr_out \in {8000, 16000}
  BY DEF AudioTypes, Codec
<1>2. FrameSize \in Nat \ {0} /\ FrameSize % 2 = 0
  BY AudioAssumption
<1>3. FrameSize \div 2 \in Nat \ {0} /\ (8000 * FrameSize) \div 16000 = FrameSize \div 2
      /\ (8000 * FrameSize) \div 8000 = FrameSize
  BY <1>2
<1>. QED BY <1>1, <1>2, <1>3 DEF need_in_8k, frame_ms_step

LEMMA SamplesType ==
  ASSUME AudioTypes
  PROVE  /\ Samples \in Seq(Seq(Nat)) /\ FlattenSeq(Samples) \in Seq(Nat)
         /\ FlattenSeq(encoder) \in Seq(Nat)
<1>1. Samples \in Seq(Seq(Nat))
  <2>1. Len(packets) \in Nat /\ DOMAIN packets = 1 .. Len(packets)
    BY LenProperties DEF AudioTypes
  <2>2. \A i \in 1 .. Len(packets) : packets[i].samples \in Seq(Nat)
    <3>1. \A i \in 1 .. Len(packets) : packets[i] \in Packet
      BY ElementOfSeq DEF AudioTypes
    <3>2. \A q \in Packet : q.samples \in Seq(Nat)
      BY DEF Packet
    <3>. QED BY <3>1, <3>2
  <2>. QED BY <2>1, <2>2, IsASeq DEF Samples
<1>. QED BY <1>1, FlattenType DEF AudioTypes

LEMMA JoinsAssociate == \A x, y, z \in Seq(Nat) : (x \o y) \o z = x \o (y \o z)
  BY SMTT(30), ConcatAssociative

LEMMA AudioBegins == AudioInit => AudioInv
<1> SUFFICES ASSUME AudioInit PROVE AudioInv
  OBVIOUS
<1>1. AudioTypes
  BY DEF AudioInit, AudioTypes, Zeroed, Codec
<1>2. AudioPhase /\ AudioTime /\ PacketTimes
  BY DEF AudioInit, AudioPhase, AudioTime, PacketTimes, Zeroed
<1>3. AudioInOrder
  <2>1. [i \in DOMAIN packets |-> packets[i].samples] = <<>> /\ FlattenSeq(<<>>) = <<>>
    BY FlattenEmpty DEF AudioInit
  <2>2. <<>> \o <<>> \o <<>> \o <<>> = <<>>
    OBVIOUS
  <2>. QED BY <2>1, <2>2 DEF AudioInOrder, AudioInit
<1>. QED BY <1>1, <1>2, <1>3 DEF AudioInv

LEMMA CaptureStep == ASSUME AudioInv, ms_rtmp_write_audio_frame PROVE AudioInv'
<1> USE DEF AudioInv
<1>1. PICK n \in ChunkSizes :
        /\ chunk' = [i \in 1 .. n |-> clock + i - 1] /\ clock' = clock + n
        /\ audioAt = "idle" /\ audioAt' = "open"
        /\ UNCHANGED <<A, fifo, encoder, frame, stored, packets, skewed, failed>>
  BY DEF ms_rtmp_write_audio_frame, GoTo, historyVars
<1>2. n \in Nat \ {0} /\ clock \in Nat
  BY AudioAssumption DEF AudioTypes
<1>3. chunk' \in Seq(Nat) /\ Len(chunk') = n /\ chunk' # <<>>
  <2>1. \A i \in 1 .. n : clock + i - 1 \in Nat
    BY <1>2
  <2>. QED BY <1>1, <1>2, <2>1, IsASeq, EmptySeq
<1>4. \A j \in 1 .. n : chunk'[j] = clock + j - 1
  BY <1>1
<1>5. AudioTypes'
  BY <1>1, <1>2, <1>3 DEF AudioTypes
<1>6. AudioPhase'
  BY <1>1, <1>2, <1>3, <1>4 DEF AudioPhase
<1>7. AudioTime'
  <2> SUFFICES ASSUME A.seq_hdr_sent, ~skewed PROVE \E T \in Nat : AudioFlow(T)'
    BY <1>1 DEF AudioTime
  <2>1. PICK T \in Nat : AudioFlow(T)
    BY DEF AudioTime
  <2>2. chunk = <<>> /\ Len(chunk) = 0
    BY <1>1 DEF AudioPhase
  <2>3. Held' = Held /\ need_in_8k' = need_in_8k /\ need_in_8k \in Nat /\ Held \in Nat
        /\ Len(fifo) \in Nat
    BY <1>1, StepIsNeed DEF Held, need_in_8k, AudioTypes
  <2>4. T + Held * need_in_8k + Len(fifo) + n = clock + n
    BY <1>2, <2>1, <2>2, <2>3 DEF AudioFlow
  <2>5. AudioFlow(T)'
    BY <1>1, <1>3, <2>1, <2>3, <2>4 DEF AudioFlow, pts
  <2>. QED BY <2>5
<1>8. PacketTimes' /\ AudioInOrder'
  BY <1>1 DEF PacketTimes, AudioInOrder, pts
<1>. QED BY <1>5, <1>6, <1>7, <1>8

LEMMA DeleteStep == ASSUME AudioInv, DeleteAudio PROVE AudioInv'
<1> USE DEF AudioInv
<1>1. PICK n \in Gaps :
        /\ clock' = clock + n /\ audioAt = "idle" /\ skewed' = (skewed \/ A.seq_hdr_sent)
        /\ UNCHANGED <<A, fifo, encoder, chunk, frame, audioAt, stored, packets, failed>>
  BY DEF DeleteAudio, dataVars
<1>2. n \in Nat /\ clock' \in Nat
  BY <1>1, AudioAssumption DEF AudioTypes
<1>3. chunk = <<>> /\ Len(chunk) = 0
  BY <1>1 DEF AudioPhase
<1>4. AudioTypes'
  BY <1>1, <1>2 DEF AudioTypes
<1>5. AudioPhase'
  BY <1>1, <1>3 DEF AudioPhase
<1>6. AudioTime' /\ PacketTimes' /\ AudioInOrder'
  BY <1>1 DEF AudioTime, PacketTimes, AudioInOrder, pts
<1>. QED BY <1>4, <1>5, <1>6

LEMMA CloseStep == ASSUME AudioInv, aac_close_if_open PROVE AudioInv'
<1> USE DEF AudioInv
<1>1. /\ A' = Zeroed /\ fifo' = <<>> /\ encoder' = <<>> /\ stored' = <<>> /\ packets' = <<>>
      /\ audioAt = "idle" /\ UNCHANGED <<audioAt, chunk, frame, clock>>
  BY DEF aac_close_if_open
<1>2. AudioTypes' /\ AudioPhase' /\ AudioTime'
  BY <1>1 DEF AudioTypes, AudioPhase, AudioTime, Zeroed, Codec
<1>3. PacketTimes'
  BY <1>1 DEF PacketTimes
<1>4. AudioInOrder'
  <2>1. [i \in DOMAIN packets |-> packets[i].samples]' = <<>> /\ FlattenSeq(<<>>) = <<>>
    BY <1>1, FlattenEmpty
  <2>2. <<>> \o <<>> \o <<>> \o <<>> = <<>>
    OBVIOUS
  <2>3. frame = <<>>
    BY <1>1 DEF AudioPhase
  <2>. QED BY <1>1, <2>1, <2>2, <2>3 DEF AudioInOrder
<1>. QED BY <1>2, <1>3, <1>4

LEMMA AudioOpenStep == ASSUME AudioInv, aac_open_if_needed PROVE AudioInv'
<1> USE DEF AudioInv
<1>1. /\ audioAt = "open"
      /\ UNCHANGED <<fifo, encoder, clock, stored, packets, skewed, failed>>
  BY DEF aac_open_if_needed, historyVars
<1>2. frame = <<>> /\ chunk # <<>> /\ \A j \in 1 .. Len(chunk) : chunk[j] + Len(chunk) + 1 = clock + j
  BY <1>1 DEF AudioPhase
<1>3. CASE A.initialized
  <2>1. audioAt' = "header" /\ UNCHANGED <<A, chunk, frame>>
    BY <1>3 DEF aac_open_if_needed, GoTo
  <2>2. AudioTypes' /\ AudioPhase'
    BY <1>1, <1>2, <1>3, <2>1 DEF AudioTypes, AudioPhase
  <2>3. AudioTime'
    BY <1>1, <2>1 DEF AudioTime, AudioFlow, Held, need_in_8k, pts
  <2>4. PacketTimes' /\ AudioInOrder'
    BY <1>1, <2>1 DEF PacketTimes, AudioInOrder, pts
  <2>. QED BY <2>2, <2>3, <2>4
<1>4. CASE ~A.initialized
  <2>1. ~A.seq_hdr_sent
    BY <1>4 DEF AudioTypes
  <2>2. /\ A' \in Codec /\ ~A'.seq_hdr_sent /\ (A'.initialized => A'.sr_out # 0)
        /\ frame' = <<>> /\ chunk' \in Seq(Nat)
        /\ \/ audioAt' = "header" /\ A'.initialized /\ chunk' = chunk
           \/ audioAt' = "idle" /\ chunk' = <<>>
    <3>1. CASE AudioFails("open") /\ UNCHANGED A
      BY <1>2, <2>1, <3>1 DEF AudioFails, GoTo, AudioTypes
    <3>2. CASE audioAt' = "header" /\ chunk' = chunk /\ frame' = frame
               /\ \E rate \in {8000, 16000}, cap \in {InitialCap}
                                        \cup (IF "alloc" \in AudioFaults THEN {0} ELSE {}) :
                    A' = Opened(rate, cap)
      <4>1. PICK rate \in {8000, 16000}, cap \in {InitialCap}
                                        \cup (IF "alloc" \in AudioFaults THEN {0} ELSE {}) :
              A' = Opened(rate, cap)
        BY <3>2
      <4>2. cap \in Nat
        BY AudioAssumption
      <4>. QED BY <1>2, <3>2, <4>1, <4>2 DEF Opened, Codec, AudioTypes
    <3>. QED BY <1>4, <3>1, <3>2 DEF aac_open_if_needed, GoTo
  <2>3. AudioTypes'
    BY <1>1, <2>2 DEF AudioTypes
  <2>4. AudioPhase'
    BY <1>1, <1>2, <2>1, <2>2 DEF AudioPhase
  <2>5. AudioTime' /\ PacketTimes'
    BY <1>1, <2>2 DEF AudioTime, PacketTimes, pts
  <2>6. AudioInOrder'
    BY <1>1, <1>2, <2>2 DEF AudioInOrder
  <2>. QED BY <2>3, <2>4, <2>5, <2>6
<1>. QED BY <1>3, <1>4

\* The first chunk gives the time of the first packet.
LEMMA HeaderStep ==
  ASSUME AudioInv, send_aac_sequence_header_if_needed PROVE AudioInv'
<1> USE DEF AudioInv
<1>1. /\ audioAt = "header"
      /\ UNCHANGED <<fifo, encoder, clock, stored, packets, skewed, failed>>
  BY DEF send_aac_sequence_header_if_needed, historyVars
<1>2. /\ frame = <<>> /\ chunk # <<>> /\ A.initialized
      /\ \A j \in 1 .. Len(chunk) : chunk[j] + Len(chunk) + 1 = clock + j
  BY <1>1 DEF AudioPhase
<1>3. CASE A.seq_hdr_sent /\ audioAt' = "store" /\ UNCHANGED <<A, chunk, frame>>
  <2>1. AudioTypes' /\ AudioPhase'
    BY <1>1, <1>2, <1>3 DEF AudioTypes, AudioPhase
  <2>2. AudioTime'
    BY <1>1, <1>3 DEF AudioTime, AudioFlow, Held, need_in_8k, pts
  <2>3. PacketTimes' /\ AudioInOrder'
    BY <1>1, <1>3 DEF PacketTimes, AudioInOrder, pts
  <2>. QED BY <2>1, <2>2, <2>3
<1>4. chunk[1] \in Nat /\ Len(chunk) \in Nat \ {0} /\ chunk[1] + Len(chunk) = clock
  <2>1. Len(chunk) \in Nat /\ Len(chunk) # 0
    BY <1>2, EmptySeq DEF AudioTypes
  <2>2. 1 \in 1 .. Len(chunk)
    BY <2>1
  <2>3. chunk[1] \in Nat
    BY <2>2, ElementOfSeq DEF AudioTypes
  <2>4. chunk[1] + Len(chunk) + 1 = clock + 1
    BY <1>2, <2>2
  <2>5. clock \in Nat
    BY DEF AudioTypes
  <2>. QED BY <2>1, <2>3, <2>4, <2>5
<1>5. pts(chunk[1]) \in Nat
  BY <1>4, PtsAdds
<1>0. A \in Codec
  BY DEF AudioTypes
<1>6. CASE /\ ~A.seq_hdr_sent /\ audioAt' = "store" /\ UNCHANGED <<chunk, frame>>
           /\ A' = [A EXCEPT !.next_pts_ms = pts(chunk[1]), !.seq_hdr_sent = TRUE]
  <2>1. /\ A' \in Codec /\ A'.seq_hdr_sent /\ A'.next_pts_ms = pts(chunk[1])
        /\ A'.initialized = A.initialized /\ A'.sr_out = A.sr_out
    <3> DEFINE b == [A EXCEPT !.next_pts_ms = pts(chunk[1])]
    <3>1. b \in Codec /\ b.next_pts_ms = pts(chunk[1])
          /\ b.initialized = A.initialized /\ b.sr_out = A.sr_out
      BY <1>0, <1>5 DEF Codec
    <3>2. A' = [b EXCEPT !.seq_hdr_sent = TRUE]
      BY <1>6
    <3>3. b.cap = A.cap
      BY <1>0 DEF Codec
    <3>4. PICK c \in Codec : c = b
      BY <3>1
    <3> HIDE DEF b
    <3>5. A' = [c EXCEPT !.seq_hdr_sent = TRUE]
      BY <3>2, <3>4
    <3>6. /\ A' \in Codec /\ A'.seq_hdr_sent /\ A'.next_pts_ms = c.next_pts_ms
          /\ A'.initialized = c.initialized /\ A'.sr_out = c.sr_out
      <4>1. /\ A'.next_pts_ms = c.next_pts_ms
            /\ A'.initialized = c.initialized /\ A'.sr_out = c.sr_out
        BY <3>5 DEF Codec
      <4>2. A'.seq_hdr_sent = TRUE
        BY <3>5 DEF Codec
      <4>3. A' \in Codec
        <5>1. \A v \in BOOLEAN : [c EXCEPT !.seq_hdr_sent = v] \in Codec
          BY DEF Codec
        <5>. QED BY <3>5, <5>1
      <4>. QED BY <4>1, <4>2, <4>3
    <3>. QED BY <3>1, <3>4, <3>6
  <2>2. AudioTypes' /\ AudioPhase'
    BY <1>1, <1>2, <1>6, <2>1 DEF AudioTypes, AudioPhase
  <2>3. fifo = <<>> /\ encoder = <<>> /\ packets = <<>> /\ stored = <<>>
    BY <1>6 DEF AudioPhase
  <2>4. AudioFlow(chunk[1])'
    <3>1. Len(encoder') = 0 /\ Len(fifo') = 0 /\ audioAt' # "send" /\ Held' = 0
      BY <1>1, <1>6, <2>3 DEF Held
    <3>2. need_in_8k \in Nat /\ need_in_8k' = need_in_8k
      BY <1>2, <2>1, StepIsNeed DEF need_in_8k
    <3>3. chunk[1] + 0 * need_in_8k + 0 + Len(chunk) = clock
      BY <1>4, <3>2
    <3>. QED BY <1>1, <1>4, <1>6, <2>1, <3>1, <3>2, <3>3 DEF AudioFlow, pts
  <2>5. AudioTime'
    BY <1>4, <1>6, <2>4 DEF AudioTime
  <2>6. PacketTimes' /\ AudioInOrder'
    BY <1>1, <1>6, <2>3 DEF PacketTimes, AudioInOrder, pts
  <2>. QED BY <2>2, <2>5, <2>6
<1>7. CASE /\ ~A.seq_hdr_sent /\ AudioFails("push")
           /\ A' = [A EXCEPT !.next_pts_ms = pts(chunk[1])]
  <2>0. audioAt' = "idle" /\ chunk' = <<>> /\ frame' = <<>>
    BY <1>7 DEF AudioFails, GoTo
  <2>1. /\ A' \in Codec /\ ~A'.seq_hdr_sent
        /\ A'.initialized = A.initialized /\ A'.sr_out = A.sr_out
    BY <1>0, <1>5, <1>7 DEF Codec
  <2>2. AudioTypes' /\ AudioPhase'
    BY <1>1, <1>2, <1>7, <2>0, <2>1 DEF AudioTypes, AudioPhase
  <2>3. AudioTime' /\ PacketTimes'
    BY <1>1, <2>1 DEF AudioTime, PacketTimes, pts
  <2>4. AudioInOrder'
    BY <1>1, <1>2, <2>0 DEF AudioInOrder
  <2>. QED BY <2>2, <2>3, <2>4
<1>. QED BY <1>3, <1>6, <1>7 DEF send_aac_sequence_header_if_needed, GoTo

\* The FIFO has room for the whole chunk.
LEMMA StoreStep == ASSUME AudioInv, s16_fifo_write PROVE AudioInv'
<1> USE DEF AudioInv
<1> DEFINE total == Len(fifo) + Len(chunk)
<1>1. audioAt = "store" /\ UNCHANGED <<encoder, clock, packets, failed>>
  BY DEF s16_fifo_write
<1>2. /\ frame = <<>> /\ A.initialized /\ A.seq_hdr_sent
  BY <1>1 DEF AudioPhase
<1>3. CASE AudioFails("alloc") /\ skewed' = TRUE /\ UNCHANGED <<A, fifo, stored>>
  <2>1. audioAt' = "idle" /\ chunk' = <<>> /\ frame' = <<>>
    BY <1>3 DEF AudioFails, GoTo
  <2>2. AudioTypes' /\ AudioPhase'
    BY <1>1, <1>2, <1>3, <2>1 DEF AudioTypes, AudioPhase
  <2>3. AudioTime' /\ PacketTimes' /\ AudioInOrder'
    BY <1>1, <1>2, <1>3, <2>1 DEF AudioTime, PacketTimes, AudioInOrder
  <2>. QED BY <2>2, <2>3
<1>4. CASE /\ A' = [A EXCEPT !.cap = IF total <= @ THEN @ ELSE Grown(@, total)]
           /\ fifo' = SubSeq(fifo \o chunk, 1, IF total <= A'.cap THEN total ELSE A'.cap)
           /\ stored' = stored \o chunk
           /\ chunk' = <<>> /\ audioAt' = "encode" /\ UNCHANGED <<frame, skewed>>
  <2>1. total \in Nat /\ A.cap \in Nat /\ A \in Codec
    BY DEF AudioTypes, Codec
  <2>2. /\ A'.cap \in Nat /\ total <= A'.cap
        /\ A' = [A EXCEPT !.cap = A'.cap]
    <3> HIDE DEF total
    <3>1. Grown(A.cap, total) \in Nat /\ Grown(A.cap, total) >= total
      BY <2>1, GrownEnough
    <3>2. A'.cap = IF total <= A.cap THEN A.cap ELSE Grown(A.cap, total)
      BY <1>4, <2>1 DEF Codec
    <3>. QED BY <1>4, <2>1, <3>1, <3>2 DEF Codec
  <2>3. /\ A' \in Codec /\ A'.initialized = A.initialized /\ A'.sr_out = A.sr_out
        /\ A'.seq_hdr_sent = A.seq_hdr_sent /\ A'.next_pts_ms = A.next_pts_ms
    BY <2>1, <2>2 DEF Codec
  <2>4. fifo \o chunk \in Seq(Nat) /\ Len(fifo \o chunk) = total
    BY ConcatProperties DEF AudioTypes
  <2>5. fifo' = fifo \o chunk
    <3>1. fifo' = SubSeq(fifo \o chunk, 1, total)
      BY <1>4, <2>2
    <3>. QED BY <2>4, <3>1, SubSeqFull
  <2>6. stored' \in Seq(Nat)
    BY <1>4, ConcatProperties DEF AudioTypes
  <2>7. AudioTypes' /\ AudioPhase'
    <3>1. Len(chunk') = 0
      BY <1>4
    <3>2. AudioTypes'
      <4>0. <<>> \in Seq(Nat)
        OBVIOUS
      <4>1. chunk' \in Seq(Nat) /\ fifo' \in Seq(Nat)
        BY <1>4, <2>4, <2>5, <4>0, Zenon
      <4> HIDE DEF total
      <4>. QED BY <1>1, <1>2, <1>4, <2>3, <2>6, <4>1 DEF AudioTypes
    <3>3. AudioPhase'
      BY <1>1, <1>2, <1>4, <2>3, <3>1 DEF AudioPhase
    <3>. QED BY <3>2, <3>3
  <2>8. AudioTime'
    <3> SUFFICES ASSUME ~skewed PROVE \E T \in Nat : AudioFlow(T)'
      BY <1>4 DEF AudioTime
    <3>1. PICK T \in Nat : AudioFlow(T)
      BY <1>2 DEF AudioTime
    <3>2. /\ Held' = Held /\ need_in_8k' = need_in_8k /\ need_in_8k \in Nat /\ Held \in Nat
          /\ Len(fifo) \in Nat /\ Len(chunk) \in Nat /\ clock \in Nat
      BY <1>1, <1>2, <1>4, <2>3, StepIsNeed DEF Held, need_in_8k, AudioTypes
    <3>3. PICK start \in Nat : start = T + Held * need_in_8k
      BY <3>2
    <3>4. start + Len(fifo) + Len(chunk) = clock
      BY <3>1, <3>3 DEF AudioFlow
    <3>5. ASSUME NEW j \in 1 .. Len(fifo') PROVE fifo'[j] + 1 = start + j
      <4>1. j \in 1 .. total
        BY <2>4, <2>5
      <4>2. CASE j <= Len(fifo)
        <5>1. fifo'[j] = fifo[j] /\ j \in 1 .. Len(fifo)
          BY <2>5, <3>2, <4>1, <4>2, ConcatProperties DEF AudioTypes
        <5>. QED BY <3>1, <3>3, <5>1 DEF AudioFlow
      <4>3. CASE j > Len(fifo)
        <5>1. j - Len(fifo) \in 1 .. Len(chunk)
          BY <3>2, <4>1, <4>3
        <5>2. fifo'[j] = chunk[j - Len(fifo)]
          BY <2>5, <3>2, <4>1, <4>3, ConcatProperties DEF AudioTypes
        <5>3. chunk[j - Len(fifo)] + Len(chunk) + 1 = clock + (j - Len(fifo))
          BY <5>1 DEF AudioPhase
        <5>4. chunk[j - Len(fifo)] \in Nat
          BY <5>1, ElementOfSeq DEF AudioTypes
        <5>5. j \in Nat
          BY <3>2, <4>1
        <5> DEFINE c == chunk[j - Len(fifo)]
        <5> HIDE DEF c, total
        <5>6. c \in Nat /\ c + Len(chunk) + 1 = clock + (j - Len(fifo)) /\ fifo'[j] = c
          BY <5>2, <5>3, <5>4 DEF c
        <5>. QED BY <3>2, <3>4, <5>5, <5>6
      <4>. QED BY <3>2, <4>1, <4>2, <4>3
    <3>6. start + Len(fifo') + Len(chunk') = clock
      <4>1. Len(fifo') = Len(fifo) + Len(chunk) /\ Len(chunk') = 0
        BY <1>4, <2>4, <2>5
      <4>. QED BY <3>2, <3>4, <4>1
    <3>7. AudioFlow(T)'
      <4> HIDE DEF total
      <4>. QED BY <1>1, <1>4, <2>3, <3>1, <3>2, <3>3, <3>5, <3>6 DEF AudioFlow, pts
    <3>. QED BY <3>7
  <2>9. PacketTimes'
    BY <1>1, <1>4 DEF PacketTimes, pts
  <2>10. AudioInOrder'
    <3> SUFFICES ASSUME ~failed PROVE AudioInOrder'
      BY <1>1 DEF AudioInOrder
    <3>1. FlattenSeq(Samples) \o FlattenSeq(encoder) \o frame \o fifo = stored
      BY DEF AudioInOrder, Samples
    <3>2. PICK front \in Seq(Nat) : front = FlattenSeq(Samples) \o FlattenSeq(encoder) \o frame
      BY SamplesType, ConcatProperties DEF AudioTypes
    <3>3. front \o (fifo \o chunk) = (front \o fifo) \o chunk
      <4>1. fifo \in Seq(Nat) /\ chunk \in Seq(Nat)
        BY DEF AudioTypes
      <4>. QED BY <4>1, JoinsAssociate, Zenon
    <3>4. FlattenSeq(Samples)' = FlattenSeq(Samples)
      BY <1>1 DEF Samples
    <3>. QED BY <1>1, <1>4, <2>5, <3>1, <3>2, <3>3, <3>4 DEF AudioInOrder, Samples
  <2>. QED BY <2>7, <2>8, <2>9, <2>10
<1>. QED BY <1>3, <1>4 DEF s16_fifo_write, GoTo

\* A whole frame leaves the FIFO, or nothing does.
LEMMA FifoReadStep == ASSUME AudioInv, s16_fifo_read PROVE AudioInv'
<1> USE DEF AudioInv
<1>1. audioAt = "encode" /\ UNCHANGED <<A, encoder, clock, stored, packets, skewed, failed>>
  BY DEF s16_fifo_read, historyVars
<1>2. /\ frame = <<>> /\ chunk = <<>> /\ A.initialized /\ A.seq_hdr_sent
  BY <1>1 DEF AudioPhase
<1>3. CASE audioAt' = "idle" /\ UNCHANGED fifo /\ chunk' = <<>> /\ frame' = <<>>
  <2>1. AudioTypes' /\ AudioPhase'
    BY <1>1, <1>2, <1>3 DEF AudioTypes, AudioPhase
  <2>2. AudioTime'
    BY <1>1, <1>2, <1>3 DEF AudioTime, AudioFlow, Held, need_in_8k, pts
  <2>3. PacketTimes' /\ AudioInOrder'
    BY <1>1, <1>2, <1>3 DEF PacketTimes, AudioInOrder, pts
  <2>. QED BY <2>1, <2>2, <2>3
<1>4. CASE /\ Len(fifo) >= need_in_8k /\ audioAt' = "send" /\ UNCHANGED chunk
           /\ frame' = SubSeq(fifo, 1, need_in_8k)
           /\ fifo' = SubSeq(fifo, need_in_8k + 1, Len(fifo))
  <2> DEFINE n == need_in_8k
             len == Len(fifo)
  <2>1. /\ n \in Nat \ {0} /\ len \in Nat /\ n <= len /\ fifo \in Seq(Nat)
    BY <1>2, <1>4, StepIsNeed DEF AudioTypes
  <2>2. \A i \in 1 .. len : fifo[i] \in Nat
    BY ElementOfSeq DEF AudioTypes
  <2>3. need_in_8k' = n
    BY <1>1 DEF need_in_8k
  <2>4. /\ frame' = SubSeq(fifo, 1, n) /\ fifo' = SubSeq(fifo, n + 1, len)
    BY <1>4
  <2> HIDE DEF n, len
  <2>5. /\ frame' \in Seq(Nat) /\ Len(frame') = n /\ \A i \in 1 .. n : frame'[i] = fifo[i]
    <3>1. \A i \in 1 .. n : fifo[i] \in Nat
      BY <2>1, <2>2
    <3>2. /\ SubSeq(fifo, 1, n) \in Seq(Nat) /\ Len(SubSeq(fifo, 1, n)) = n
          /\ \A i \in 1 .. n - 1 + 1 : SubSeq(fifo, 1, n)[i] = fifo[1 + i - 1]
      BY <2>1, <3>1, SubSeqProperties
    <3>. QED BY <2>1, <2>4, <3>2
  <2>6. /\ fifo' \in Seq(Nat) /\ Len(fifo') = len - n
        /\ \A i \in 1 .. len - n : fifo'[i] = fifo[n + i]
    <3>1. \A i \in n + 1 .. len : fifo[i] \in Nat
      BY <2>1, <2>2
    <3>2. /\ SubSeq(fifo, n + 1, len) \in Seq(Nat)
          /\ Len(SubSeq(fifo, n + 1, len)) = IF n + 1 <= len THEN len - (n + 1) + 1 ELSE 0
          /\ \A i \in 1 .. len - (n + 1) + 1 : SubSeq(fifo, n + 1, len)[i] = fifo[(n + 1) + i - 1]
      BY <2>1, <3>1, SubSeqProperties
    <3>. QED BY <2>1, <2>4, <3>2
  <2>7. AudioTypes'
    BY <1>1, <1>4, <2>5, <2>6 DEF AudioTypes
  <2>8. AudioPhase'
    BY <1>1, <1>2, <1>4 DEF AudioPhase
  <2>9. AudioTime'
    <3> SUFFICES ASSUME ~skewed PROVE \E T \in Nat : AudioFlow(T)'
      BY <1>1 DEF AudioTime
    <3>1. PICK T \in Nat : AudioFlow(T)
      BY <1>2 DEF AudioTime
    <3> DEFINE c == Len(encoder)
    <3>2. c \in Nat /\ Held = c /\ Held' = c + 1 /\ Len(chunk') = 0 /\ Len(chunk) = 0
          /\ T \in Nat /\ clock \in Nat
      BY <1>1, <1>2, <1>4 DEF Held, AudioTypes
    <3>3. /\ \A j \in 1 .. len : fifo[j] + 1 = T + c * n + j
          /\ T + c * n + len + 0 = clock
      BY <3>1, <3>2 DEF AudioFlow, n, len
    <3> HIDE DEF c
    <3>4. PICK q \in Nat : q = c * n
      BY <2>1, <3>2
    <3>5. (c + 1) * n = q + n
      BY <2>1, <3>2, <3>4
    <3>6. frame'[1] = T + c * n
      <4>1. 1 \in 1 .. n /\ 1 \in 1 .. len
        BY <2>1
      <4>2. fifo[1] + 1 = T + q + 1 /\ fifo[1] \in Nat
        BY <2>2, <3>3, <3>4, <4>1
      <4>. QED BY SMTT(30), <2>5, <3>2, <3>4, <4>1, <4>2
    <3>7. ASSUME NEW j \in 1 .. len - n PROVE fifo'[j] + 1 = T + (c + 1) * n + j
      <4>1. n + j \in 1 .. len
        BY <2>1
      <4>2. fifo[n + j] + 1 = T + q + (n + j)
        BY <3>3, <3>4, <4>1
      <4>. QED BY <2>1, <2>6, <3>2, <3>4, <3>5, <4>2
    <3>8. T + (c + 1) * n + (len - n) + 0 = clock
      BY <2>1, <3>2, <3>3, <3>4, <3>5
    <3>9. AudioFlow(T)'
      <4>1. need_in_8k' = n /\ need_in_8k = n /\ Len(encoder) = c
        BY <2>3 DEF n, c
      <4>. QED BY <1>1, <1>4, <2>6, <3>1, <3>2, <3>6, <3>7, <3>8, <4>1 DEF AudioFlow, pts
    <3>. QED BY <3>9
  <2>10. PacketTimes'
    BY <1>1 DEF PacketTimes, pts
  <2>11. AudioInOrder'
    <3> SUFFICES ASSUME ~failed PROVE AudioInOrder'
      BY <1>1 DEF AudioInOrder
    <3>1. PICK front \in Seq(Nat) : front = FlattenSeq(Samples) \o FlattenSeq(encoder)
      BY SamplesType, ConcatProperties
    <3>2. front \o frame \o fifo = stored
      BY <3>1 DEF AudioInOrder, Samples
    <3>3. front \o frame = front
      BY <1>2, <3>1, ConcatEmptySeq
    <3>4. frame' \o fifo' = fifo
      <4>1. SubSeq(fifo, 1, n) \o SubSeq(fifo, n + 1, len) = SubSeq(fifo, 1, len)
        <5>1. /\ 1 \in 1 .. Len(fifo) + 1 /\ n \in 1 - 1 .. Len(fifo)
              /\ len \in n .. Len(fifo)
          BY <2>1 DEF len
        <5>2. \A k \in 1 - 1 .. Len(fifo) : \A l \in k .. Len(fifo) :
                SubSeq(fifo, 1, k) \o SubSeq(fifo, k + 1, l) = SubSeq(fifo, 1, l)
          BY <2>1, <5>1, ConcatAdjacentSubSeq
        <5>. QED BY <5>1, <5>2
      <4>2. SubSeq(fifo, 1, len) = fifo
        BY <2>1, SubSeqFull DEF len
      <4>. QED BY <2>4, <4>1, <4>2
    <3>5. (front \o frame') \o fifo' = front \o (frame' \o fifo')
      BY <2>5, <2>6, <3>1, JoinsAssociate, Zenon
    <3>6. Samples' = Samples
      BY <1>1 DEF Samples
    <3>7. FlattenSeq(Samples)' \o FlattenSeq(encoder)' = front
      BY <1>1, <3>1, <3>6
    <3>. QED BY <1>1, <3>2, <3>3, <3>4, <3>5, <3>7 DEF AudioInOrder, Samples
  <2>. QED BY <2>7, <2>8, <2>9, <2>10, <2>11
<1>5. CASE AudioFails("alloc") /\ UNCHANGED fifo
  BY <1>3, <1>5 DEF AudioFails, GoTo
<1>. QED BY <1>2, <1>3, <1>4, <1>5 DEF s16_fifo_read, GoTo

\* After a step that lost a frame nothing is promised.
LEMMA FrameIsLost ==
  ASSUME AudioInv, NEW fault, FrameLost(fault),
         UNCHANGED <<A, fifo, clock, stored, packets>>, encoder' \in Seq(Seq(Nat)),
         A.initialized, A.seq_hdr_sent
  PROVE  AudioInv'
<1> USE DEF AudioInv
<1>1. /\ audioAt' = "idle" /\ chunk' = <<>> /\ frame' = <<>> /\ skewed' = TRUE
      /\ failed' = TRUE
  BY DEF FrameLost, AudioFails, GoTo
<1>2. AudioTypes' /\ AudioPhase'
  BY <1>1 DEF AudioTypes, AudioPhase
<1>3. AudioTime' /\ PacketTimes' /\ AudioInOrder'
  BY <1>1 DEF AudioTime, PacketTimes, AudioInOrder
<1>. QED BY <1>2, <1>3

\* The encoder takes the frame after those it has.
LEMMA SendFrameStep == ASSUME AudioInv, avcodec_send_frame PROVE AudioInv'
<1> USE DEF AudioInv
<1>1. audioAt = "send" /\ UNCHANGED <<A, fifo, clock, stored, packets>>
  BY DEF avcodec_send_frame, SendTo
<1>2. /\ chunk = <<>> /\ A.initialized /\ A.seq_hdr_sent
  BY <1>1 DEF AudioPhase
<1>3. CASE /\ encoder' = Append(encoder, frame) /\ frame' = <<>> /\ audioAt' = "receive"
           /\ UNCHANGED <<chunk, skewed, failed>>
  <2> DEFINE c == Len(encoder)
  <2>1. /\ encoder' \in Seq(Seq(Nat)) /\ Len(encoder') = c + 1 /\ c \in Nat
        /\ \A i \in 1 .. c : encoder'[i] = encoder[i]
        /\ encoder'[c + 1] = frame
    BY <1>3, AppendProperties DEF AudioTypes
  <2>2. AudioTypes' /\ AudioPhase'
    <3>1. <<>> \in Seq(Nat)
      OBVIOUS
    <3>2. AudioTypes'
      BY <1>1, <1>3, <2>1, <3>1 DEF AudioTypes
    <3>. QED BY <1>1, <1>2, <1>3, <3>2 DEF AudioPhase
  <2>3. AudioTime'
    <3> SUFFICES ASSUME ~skewed PROVE \E T \in Nat : AudioFlow(T)'
      BY <1>3 DEF AudioTime
    <3>1. PICK T \in Nat : AudioFlow(T)
      BY <1>2 DEF AudioTime
    <3>2. Held' = Held /\ need_in_8k' = need_in_8k /\ need_in_8k \in Nat
      BY <1>1, <1>2, <1>3, <2>1, StepIsNeed DEF Held, need_in_8k
    <3>3. ASSUME NEW i \in 1 .. c + 1 PROVE encoder'[i][1] = T + (i - 1) * need_in_8k
      <4>1. CASE i \in 1 .. c
        BY <2>1, <3>1, <4>1 DEF AudioFlow
      <4>2. CASE i = c + 1
        <5>1. i - 1 = c
          BY <2>1, <4>2
        <5>. QED BY <1>1, <2>1, <3>1, <4>2, <5>1 DEF AudioFlow
      <4>. QED BY <2>1, <4>1, <4>2
    <3>4. AudioFlow(T)'
      BY <1>1, <1>3, <2>1, <3>1, <3>2, <3>3 DEF AudioFlow, pts
    <3>. QED BY <3>4
  <2>4. PacketTimes'
    BY <1>1, <1>3 DEF PacketTimes, pts
  <2>5. AudioInOrder'
    <3> SUFFICES ASSUME ~failed PROVE AudioInOrder'
      BY <1>3 DEF AudioInOrder
    <3>1. /\ frame \in Seq(Nat) /\ FlattenSeq(Samples) \in Seq(Nat)
          /\ FlattenSeq(encoder) \in Seq(Nat) /\ FlattenSeq(encoder)' \in Seq(Nat)
      BY <2>1, SamplesType, FlattenType DEF AudioTypes
    <3>2. FlattenSeq(encoder)' = FlattenSeq(encoder) \o frame
      BY <1>3, FlattenAppend DEF AudioTypes
    <3>3. (FlattenSeq(Samples) \o FlattenSeq(encoder)) \o frame
            = FlattenSeq(Samples) \o FlattenSeq(encoder)'
      <4>1. PICK x, y \in Seq(Nat) : x = FlattenSeq(Samples) /\ y = FlattenSeq(encoder)
        BY <3>1
      <4>2. (x \o y) \o frame = x \o (y \o frame)
        BY <3>1, JoinsAssociate, ZenonT(30)
      <4>. QED BY <3>2, <4>1, <4>2
    <3>4. (FlattenSeq(Samples) \o FlattenSeq(encoder)') \o frame'
            = FlattenSeq(Samples) \o FlattenSeq(encoder)'
      <4>1. FlattenSeq(Samples) \o FlattenSeq(encoder)' \in Seq(Nat)
        BY <3>1, ConcatProperties
      <4>. QED BY <1>3, <4>1, ConcatEmptySeq
    <3>5. Samples' = Samples
      BY <1>1 DEF Samples
    <3>6. FlattenSeq(Samples) \o FlattenSeq(encoder) \o frame \o fifo = stored
      BY DEF AudioInOrder, Samples
    <3>7. FlattenSeq(Samples)' \o FlattenSeq(encoder)' \o frame' \o fifo' = stored'
      BY <1>1, <3>3, <3>4, <3>5, <3>6
    <3>. QED BY <3>7 DEF AudioInOrder, Samples
  <2>. QED BY <2>2, <2>3, <2>4, <2>5
<1>4. CASE (FrameLost("alloc") \/ FrameLost("encode")) /\ UNCHANGED encoder
  <2>1. encoder' \in Seq(Seq(Nat))
    BY <1>4 DEF AudioTypes
  <2>. QED BY <1>1, <1>2, <1>4, <2>1, FrameIsLost
<1>. QED BY <1>3, <1>4 DEF avcodec_send_frame, SendTo, GoTo

LEMMA ReceiveStep == ASSUME AudioInv, ReceivedAll PROVE AudioInv'
<1> USE DEF AudioInv
<1>1. /\ audioAt = "receive" /\ audioAt' = "encode"
      /\ UNCHANGED <<A, fifo, encoder, chunk, frame, clock, stored, packets, skewed, failed>>
  BY DEF ReceivedAll, GoTo, dataVars, historyVars
<1>2. AudioTypes' /\ AudioPhase'
  BY <1>1 DEF AudioTypes, AudioPhase
<1>3. AudioTime'
  BY <1>1 DEF AudioTime, AudioFlow, Held, need_in_8k, pts
<1>4. PacketTimes' /\ AudioInOrder'
  BY <1>1 DEF PacketTimes, AudioInOrder, pts
<1>. QED BY <1>2, <1>3, <1>4

\* A packet has the time of its first sample, and the next one that of the samples after it.
LEMMA PushStep == ASSUME AudioInv, flv_push_aac_packet PROVE AudioInv'
<1> USE DEF AudioInv
<1>1. audioAt = "receive" /\ UNCHANGED <<fifo, clock, stored>>
  BY DEF flv_push_aac_packet, PushPacket
<1>2. /\ chunk = <<>> /\ frame = <<>> /\ A.initialized /\ A.seq_hdr_sent
  BY <1>1 DEF AudioPhase
<1>3. CASE /\ audioAt' = "idle" /\ chunk' = <<>> /\ frame' = <<>>
           /\ UNCHANGED <<A, encoder, packets, skewed, failed>>
  <2>1. AudioTypes' /\ AudioPhase'
    BY <1>1, <1>2, <1>3 DEF AudioTypes, AudioPhase
  <2>2. AudioTime'
    BY <1>1, <1>2, <1>3 DEF AudioTime, AudioFlow, Held, need_in_8k, pts
  <2>3. PacketTimes' /\ AudioInOrder'
    BY <1>1, <1>2, <1>3 DEF PacketTimes, AudioInOrder, pts
  <2>. QED BY <2>1, <2>2, <2>3
<1>4. ASSUME Len(encoder) > EncoderDelay
      PROVE  /\ encoder # <<>> /\ encoder[1] \in Seq(Nat)
             /\ Tail(encoder) \in Seq(Seq(Nat)) /\ Len(Tail(encoder)) = Len(encoder) - 1
             /\ Len(encoder) \in Nat \ {0}
             /\ \A i \in 1 .. Len(encoder) - 1 : Tail(encoder)[i] = encoder[i + 1]
  <2>1. Len(encoder) \in Nat \ {0} /\ encoder \in Seq(Seq(Nat))
    BY <1>4, AudioAssumption DEF AudioTypes
  <2>2. encoder # <<>> /\ 1 \in 1 .. Len(encoder)
    BY <2>1
  <2>. QED BY <2>1, <2>2, ElementOfSeq, HeadTailProperties
<1>5. CASE Len(encoder) > EncoderDelay /\ FrameLost("push") /\ encoder' = Tail(encoder)
           /\ UNCHANGED <<A, packets>>
  BY <1>1, <1>2, <1>4, <1>5, FrameIsLost
<1>6. CASE /\ Len(encoder) > EncoderDelay
           /\ packets' = Append(packets, [pts_ms |-> A.next_pts_ms, samples |-> encoder[1]])
           /\ A' = [A EXCEPT !.next_pts_ms = pts(@ + frame_ms_step)]
           /\ encoder' = Tail(encoder)
           /\ UNCHANGED <<audioAt, chunk, frame, skewed, failed>>
  <2> DEFINE c == Len(encoder)
             packet == [pts_ms |-> A.next_pts_ms, samples |-> encoder[1]]
  <2>0. A \in Codec /\ A.next_pts_ms \in Nat
    BY DEF AudioTypes, Codec
  <2>1. PICK n \in Nat \ {0} : need_in_8k = n /\ frame_ms_step = n
    BY <1>2, StepIsNeed
  <2>2. pts(A.next_pts_ms + n) \in Nat
    <3>1. A.next_pts_ms + n \in Nat
      BY <2>0, <2>1
    <3>. QED BY <3>1, PtsAdds
  <2>3. /\ A' \in Codec /\ A'.initialized = A.initialized /\ A'.sr_out = A.sr_out
        /\ A'.seq_hdr_sent = A.seq_hdr_sent /\ A'.next_pts_ms = pts(A.next_pts_ms + n)
    <3>1. A' = [A EXCEPT !.next_pts_ms = pts(A.next_pts_ms + n)]
      BY <1>6, <2>1
    <3>2. PICK p \in Nat : p = pts(A.next_pts_ms + n)
      BY <2>2
    <3>3. A' = [A EXCEPT !.next_pts_ms = p]
      BY <3>1, <3>2
    <3>4. /\ A' \in Codec /\ A'.initialized = A.initialized /\ A'.sr_out = A.sr_out
          /\ A'.seq_hdr_sent = A.seq_hdr_sent /\ A'.next_pts_ms = p
      BY <2>0, <3>3 DEF Codec
    <3>. QED BY <3>2, <3>4
  <2>4. packet \in Packet /\ packets \in Seq(Packet)
    BY <1>4, <1>6, <2>0 DEF Packet, AudioTypes
  <2>5. /\ packets' \in Seq(Packet) /\ Len(packets') = Len(packets) + 1
        /\ Len(packets) \in Nat
        /\ \A i \in 1 .. Len(packets) : packets'[i] = packets[i]
        /\ packets'[Len(packets) + 1] = packet
    <3>1. packets' = Append(packets, packet)
      BY <1>6
    <3> HIDE DEF packet
    <3>. QED BY <2>4, <3>1, AppendProperties, LenProperties
  <2>6. AudioTypes'
    BY <1>1, <1>2, <1>4, <1>6, <2>3, <2>5 DEF AudioTypes
  <2>7. AudioPhase'
    BY <1>1, <1>2, <1>6, <2>3 DEF AudioPhase
  <2>8. ASSUME ~skewed
        PROVE  \E T \in Nat : AudioFlow(T) /\ AudioFlow(T + n)' /\ encoder[1][1] = T
    <3>1. PICK T \in Nat : AudioFlow(T)
      BY <1>2, <2>8 DEF AudioTime
    <3>2. need_in_8k' = n
      BY <2>1, <2>3 DEF need_in_8k
    <3>3. /\ c \in Nat \ {0} /\ Len(encoder') = c - 1 /\ Held = c /\ Held' = c - 1
          /\ Len(fifo) \in Nat /\ clock \in Nat /\ Len(chunk) = 0 /\ Len(chunk') = 0
      BY <1>1, <1>2, <1>4, <1>6 DEF Held, AudioTypes
    <3>4. /\ A.next_pts_ms = pts(T)
          /\ \A i \in 1 .. c : encoder[i][1] = T + (i - 1) * n
          /\ \A j \in 1 .. Len(fifo) : fifo[j] + 1 = T + c * n + j
          /\ T + c * n + Len(fifo) + 0 = clock
      BY <2>1, <3>1, <3>3 DEF AudioFlow
    <3> HIDE DEF c
    <3>5. encoder[1][1] = T
      <4>1. 1 \in 1 .. c /\ T + (1 - 1) * n = T
        BY <2>1, <3>3
      <4>. QED BY <3>4, <4>1
    <3>6. A'.next_pts_ms = pts(T + n)
      BY <2>1, <2>3, <3>4, PtsAdds
    <3>7. ASSUME NEW i \in 1 .. c - 1 PROVE encoder'[i][1] = (T + n) + (i - 1) * n
      <4>1. i \in Nat /\ i + 1 \in 1 .. c /\ (i + 1) - 1 = i
        BY <3>3
      <4>2. encoder'[i] = encoder[i + 1]
        BY <1>4, <1>6, <3>7 DEF c
      <4>3. T + ((i + 1) - 1) * n = (T + n) + (i - 1) * n
        <5>1. i * n = (i - 1) * n + n
          BY <2>1, <4>1
        <5>. QED BY <2>1, <4>1, <5>1
      <4>. QED BY <3>4, <4>1, <4>2, <4>3
    <3>8. T + c * n = (T + n) + (c - 1) * n /\ (T + n) + (c - 1) * n \in Nat
      <4>1. c * n = (c - 1) * n + n /\ (c - 1) * n \in Nat
        BY <2>1, <3>3
      <4>. QED BY <2>1, <3>3, <4>1
    <3>9. AudioFlow(T + n)'
      <4>1. \A j \in 1 .. Len(fifo) : fifo[j] + 1 = (T + n) + (c - 1) * n + j
        BY <3>4, <3>8
      <4>2. (T + n) + (c - 1) * n + Len(fifo) + 0 = clock
        BY <3>4, <3>8
      <4>3. audioAt' # "send"
        BY <1>1, <1>6
      <4>4. A.next_pts_ms' = pts(T + n)'
        BY <3>6 DEF pts
      <4>. QED BY <1>1, <3>2, <3>3, <3>7, <4>1, <4>2, <4>3, <4>4 DEF AudioFlow
    <3>. QED BY <3>1, <3>5, <3>9
  <2>9. AudioTime'
    <3> SUFFICES ASSUME ~skewed PROVE \E T \in Nat : AudioFlow(T)'
      BY <1>6 DEF AudioTime
    <3>1. PICK T \in Nat : AudioFlow(T) /\ AudioFlow(T + n)' /\ encoder[1][1] = T
      BY <2>8
    <3>2. T + n \in Nat
      BY <2>1
    <3>. QED BY <3>1, <3>2
  <2>10. PacketTimes'
    <3> SUFFICES ASSUME ~skewed, NEW i \in 1 .. Len(packets) + 1
                 PROVE  packets'[i].pts_ms = pts(packets'[i].samples[1])
      <4>1. DOMAIN packets' = 1 .. Len(packets) + 1
        BY <2>5, LenProperties
      <4>. QED BY <1>6, <4>1 DEF PacketTimes, pts
    <3>1. CASE i \in 1 .. Len(packets)
      <4>1. DOMAIN packets = 1 .. Len(packets)
        BY LenProperties DEF AudioTypes
      <4>. QED BY <2>5, <3>1, <4>1 DEF PacketTimes
    <3>2. CASE i = Len(packets) + 1
      <4>1. PICK T \in Nat : A.next_pts_ms = pts(T) /\ encoder[1][1] = T
        BY <2>8 DEF AudioFlow
      <4>2. packet.pts_ms = A.next_pts_ms /\ packet.samples = encoder[1]
        OBVIOUS
      <4> HIDE DEF packet
      <4>. QED BY <2>5, <3>2, <4>1, <4>2
    <3>. QED BY <2>5, <3>1, <3>2
  <2>11. AudioInOrder'
    <3> SUFFICES ASSUME ~failed PROVE AudioInOrder'
      BY <1>6 DEF AudioInOrder
    <3>1. Samples' = Append(Samples, encoder[1])
      <4>1. DOMAIN packets = 1 .. Len(packets) /\ DOMAIN packets' = 1 .. Len(packets) + 1
        BY <2>5, LenProperties DEF AudioTypes
      <4>2. packet.samples = encoder[1]
        OBVIOUS
      <4> HIDE DEF packet
      <4>3. Samples \in Seq(Seq(Nat)) /\ Len(Samples) = Len(packets)
            /\ \A i \in 1 .. Len(packets) : Samples[i] = packets[i].samples
        BY <4>1, SamplesType, LenProperties DEF Samples
      <4>4. Samples' \in Seq(Seq(Nat)) /\ Len(Samples') = Len(packets) + 1
            /\ \A i \in 1 .. Len(packets) + 1 : Samples'[i] = packets'[i].samples
        <5>1. Samples' \in Seq(Seq(Nat))
          <6>1. \A i \in 1 .. Len(packets) + 1 : packets'[i].samples \in Seq(Nat)
            <7>1. \A i \in 1 .. Len(packets) + 1 : packets'[i] \in Packet
              BY <2>5, ElementOfSeq
            <7>2. \A q \in Packet : q.samples \in Seq(Nat)
              BY DEF Packet
            <7>. QED BY <7>1, <7>2
          <6>2. Len(packets) + 1 \in Nat
            BY <2>5
          <6>. QED BY <4>1, <6>1, <6>2, IsASeq DEF Samples
        <5>2. Samples' = [i \in 1 .. Len(packets) + 1 |-> packets'[i].samples]
          BY <4>1 DEF Samples
        <5>. QED BY <2>5, <5>1, <5>2, LenProperties
      <4>5. /\ Append(Samples, encoder[1]) \in Seq(Seq(Nat))
            /\ Len(Append(Samples, encoder[1])) = Len(packets) + 1
            /\ \A i \in 1 .. Len(packets) : Append(Samples, encoder[1])[i] = Samples[i]
            /\ Append(Samples, encoder[1])[Len(packets) + 1] = encoder[1]
        BY <1>4, <1>6, <4>3, AppendProperties
      <4>6. \A i \in 1 .. Len(packets) + 1 : Samples'[i] = Append(Samples, encoder[1])[i]
        <5>1. ASSUME NEW i \in 1 .. Len(packets)
              PROVE  Samples'[i] = Append(Samples, encoder[1])[i]
          <6>1. i \in 1 .. Len(packets) + 1
            BY <2>5
          <6>2. Samples'[i] = packets'[i].samples
            BY <4>4, <6>1
          <6>3. packets'[i] = packets[i]
            BY <2>5
          <6>4. Append(Samples, encoder[1])[i] = packets[i].samples
            BY <4>3, <4>5
          <6>. QED BY <6>2, <6>3, <6>4
        <5>2. Samples'[Len(packets) + 1] = Append(Samples, encoder[1])[Len(packets) + 1]
          <6>1. Len(packets) + 1 \in 1 .. Len(packets) + 1
            BY <2>5
          <6>. QED BY <2>5, <4>2, <4>4, <4>5, <6>1
        <5>3. \A i \in 1 .. Len(packets) + 1 : i \in 1 .. Len(packets) \/ i = Len(packets) + 1
          BY <2>5
        <5>. QED BY <5>1, <5>2, <5>3
      <4>. QED BY <4>4, <4>5, <4>6, SeqEqual
    <3>2. /\ Samples \in Seq(Seq(Nat)) /\ FlattenSeq(Samples) \in Seq(Nat)
          /\ FlattenSeq(encoder)' \in Seq(Nat) /\ encoder[1] \in Seq(Nat)
      BY <1>4, <1>6, SamplesType, FlattenType
    <3>3. FlattenSeq(Samples)' = FlattenSeq(Samples) \o encoder[1]
      BY <3>1, <3>2, FlattenAppend
    <3>4. FlattenSeq(encoder) = encoder[1] \o FlattenSeq(encoder)'
      BY <1>4, <1>6, FlattenTail DEF AudioTypes
    <3>5. FlattenSeq(Samples) \o FlattenSeq(encoder)
            = FlattenSeq(Samples)' \o FlattenSeq(encoder)'
      <4>1. PICK x, y, z \in Seq(Nat) : /\ x = FlattenSeq(Samples) /\ y = encoder[1]
                                        /\ z = FlattenSeq(encoder)'
        BY <3>2
      <4>2. (x \o y) \o z = x \o (y \o z)
        BY JoinsAssociate, Zenon
      <4>. QED BY <3>3, <3>4, <4>1, <4>2
    <3>6. FlattenSeq(Samples) \o FlattenSeq(encoder) \o frame \o fifo = stored
      BY DEF AudioInOrder, Samples
    <3>7. FlattenSeq(Samples)' \o FlattenSeq(encoder)' \o frame' \o fifo' = stored'
      BY <1>1, <1>6, <3>5, <3>6
    <3>. QED BY <3>7 DEF AudioInOrder, Samples
  <2>. QED BY <2>6, <2>7, <2>9, <2>10, <2>11
<1>7. CASE /\ AudioFails("alloc") \/ AudioFails("encode")
           /\ UNCHANGED <<A, encoder, packets, skewed, failed>>
  <2>1. audioAt' = "idle" /\ chunk' = <<>> /\ frame' = <<>>
    BY <1>7 DEF AudioFails, GoTo
  <2>. QED BY <1>3, <1>7, <2>1
<1>8. \/ /\ Len(encoder) > EncoderDelay
         /\ packets' = Append(packets, [pts_ms |-> A.next_pts_ms, samples |-> encoder[1]])
         /\ A' = [A EXCEPT !.next_pts_ms = pts(@ + frame_ms_step)]
         /\ encoder' = Tail(encoder)
         /\ UNCHANGED <<audioAt, chunk, frame, skewed, failed>>
      \/ /\ Len(encoder) > EncoderDelay /\ FrameLost("push") /\ encoder' = Tail(encoder)
         /\ UNCHANGED <<A, packets>>
      \/ /\ AudioFails("alloc") \/ AudioFails("encode")
         /\ UNCHANGED <<A, encoder, packets, skewed, failed>>
  BY DEF flv_push_aac_packet, PushPacket
<1>. QED BY <1>5, <1>6, <1>7, <1>8

LEMMA AudioStep == ASSUME AudioInv, [AudioNext]_audioVars PROVE AudioInv'
<1>1. CASE UNCHANGED audioVars
  <2>1. UNCHANGED <<A, fifo, encoder, audioAt, chunk, frame, clock, stored, packets, skewed,
                    failed>>
    BY <1>1 DEF audioVars, dataVars, historyVars
  <2>2. AudioTypes' /\ AudioPhase'
    BY <2>1 DEF AudioInv, AudioTypes, AudioPhase
  <2>3. AudioTime'
    BY <2>1 DEF AudioInv, AudioTime, AudioFlow, Held, need_in_8k, pts
  <2>4. PacketTimes' /\ AudioInOrder'
    BY <2>1 DEF AudioInv, PacketTimes, AudioInOrder, pts
  <2>. QED BY <2>2, <2>3, <2>4 DEF AudioInv
<1>. QED BY <1>1, CaptureStep, DeleteStep, CloseStep, AudioOpenStep, HeaderStep, StoreStep,
            FifoReadStep, SendFrameStep, ReceiveStep, PushStep DEF AudioNext, transcode_g711_and_push

\* Each packet has the time of its first sample, at both rates, as long as nothing is missing.
THEOREM PacketTimesCorrect == AudioSpec => []PacketTimes
<1>1. AudioInit => AudioInv
  BY AudioBegins
<1>2. AudioInv /\ [AudioNext]_audioVars => AudioInv'
  BY AudioStep
<1>3. AudioInv => PacketTimes
  BY DEF AudioInv
<1>. QED BY <1>1, <1>2, <1>3, PTL DEF AudioSpec

\* No sample is lost, doubled or moved on its way, unless a step failed.
THEOREM AudioInOrderCorrect == AudioSpec => []AudioInOrder
<1>1. AudioInit => AudioInv
  BY AudioBegins
<1>2. AudioInv /\ [AudioNext]_audioVars => AudioInv'
  BY AudioStep
<1>3. AudioInv => AudioInOrder
  BY DEF AudioInv
<1>. QED BY <1>1, <1>2, <1>3, PTL DEF AudioSpec

(***************************************************************************)
(* The base64 functions.  What they do with a text is one recursive        *)
(* function of the number of characters read, so each is followed from     *)
(* one character, or one group of four, to the next.  First: Only, the     *)
(* characters of a text that are in a set.                                 *)
(***************************************************************************)
OnlyIs(f, text, C, n) ==
  f = [k \in 0 .. n |->
         IF k = 0 THEN <<>>
         ELSE IF text[k] \in C THEN Append(f[k - 1], text[k]) ELSE f[k - 1]]

LEMMA OnlyExists ==
  ASSUME NEW text, NEW C
  PROVE  \A n \in Nat : \E f : OnlyIs(f, text, C, n)
<1> DEFINE T == {n \in Nat : \E f : OnlyIs(f, text, C, n)}
<1>1. 0 \in T
  <2>1. OnlyIs([k \in 0 .. 0 |-> <<>>], text, C, 0)
    BY DEF OnlyIs
  <2>. QED BY <2>1
<1>2. ASSUME NEW n \in Nat, n \in T PROVE n + 1 \in T
  <2>1. PICK f : OnlyIs(f, text, C, n)
    BY <1>2
  <2> DEFINE newest == IF text[n + 1] \in C THEN Append(f[n], text[n + 1]) ELSE f[n]
             g == [k \in 0 .. n + 1 |-> IF k <= n THEN f[k] ELSE newest]
  <2>2. \A k \in 0 .. n + 1 : g[k] = IF k <= n THEN f[k] ELSE newest
    <3> HIDE DEF newest
    <3>. QED OBVIOUS
  <2>3. g = [k \in 0 .. n + 1 |-> g[k]]
    <3> HIDE DEF newest
    <3>. QED OBVIOUS
  <2> HIDE DEF g
  <2>4. \A k \in 0 .. n + 1 :
          g[k] = IF k = 0 THEN <<>>
                 ELSE IF text[k] \in C THEN Append(g[k - 1], text[k]) ELSE g[k - 1]
    <3> TAKE k \in 0 .. n + 1
    <3>1. CASE k <= n
      <4>1. k \in 0 .. n /\ (k # 0 => k - 1 \in 0 .. n + 1 /\ k - 1 <= n)
        BY <3>1
      <4>2. f[k] = IF k = 0 THEN <<>>
                   ELSE IF text[k] \in C THEN Append(f[k - 1], text[k]) ELSE f[k - 1]
        BY <2>1, <4>1 DEF OnlyIs
      <4>3. g[k] = f[k] /\ (k # 0 => g[k - 1] = f[k - 1])
        BY <2>2, <3>1, <4>1
      <4>. QED BY <4>2, <4>3
    <3>2. CASE k = n + 1
      <4>1. k # 0 /\ k - 1 = n /\ ~(k <= n) /\ n \in 0 .. n + 1
        BY <3>2
      <4>2. g[k] = newest /\ g[n] = f[n]
        BY <2>2, <4>1
      <4>. QED BY <3>2, <4>1, <4>2
    <3>. QED BY <3>1, <3>2
  <2>5. OnlyIs(g, text, C, n + 1)
    BY <2>3, <2>4 DEF OnlyIs
  <2>. QED BY <2>5
<1>3. \A n \in Nat : n \in T
  <2> HIDE DEF T
  <2>. QED BY <1>1, <1>2, EveryNumber
<1>. QED BY <1>3

LEMMA OnlyRuns ==
  ASSUME NEW S, NEW text \in Seq(S), NEW C
  PROVE  \E f : /\ f[0] = <<>> /\ Only(text, C) = f[Len(text)]
                /\ \A n \in 0 .. Len(text) - 1 :
                     f[n + 1] = IF text[n + 1] \in C THEN Append(f[n], text[n + 1]) ELSE f[n]
<1> DEFINE f == CHOOSE only : only = [n \in 0 .. Len(text) |->
                  IF n = 0 THEN <<>>
                  ELSE IF text[n] \in C THEN Append(only[n - 1], text[n]) ELSE only[n - 1]]
<1>1. Len(text) \in Nat
  OBVIOUS
<1>2. OnlyIs(f, text, C, Len(text))
  <2>1. PICK g : OnlyIs(g, text, C, Len(text))
    BY <1>1, OnlyExists
  <2>. QED BY <2>1 DEF OnlyIs
<1>3. Only(text, C) = f[Len(text)]
  BY DEF Only
<1> HIDE DEF f
<1>4. f[0] = <<>>
  <2>1. 0 \in 0 .. Len(text)
    BY <1>1
  <2>. QED BY <1>2, <2>1 DEF OnlyIs
<1>5. ASSUME NEW n \in 0 .. Len(text) - 1
      PROVE f[n + 1] = IF text[n + 1] \in C THEN Append(f[n], text[n + 1]) ELSE f[n]
  <2>1. n + 1 \in 0 .. Len(text) /\ n + 1 # 0 /\ (n + 1) - 1 = n
    BY <1>1
  <2>. QED BY <1>2, <2>1 DEF OnlyIs
<1>. QED BY <1>3, <1>4, <1>5

LEMMA OnlyType ==
  ASSUME NEW S, NEW text \in Seq(S), NEW C
  PROVE  Only(text, C) \in Seq(S \cap C)
<1>1. PICK f : /\ f[0] = <<>> /\ Only(text, C) = f[Len(text)]
               /\ \A n \in 0 .. Len(text) - 1 :
                    f[n + 1] = IF text[n + 1] \in C THEN Append(f[n], text[n + 1]) ELSE f[n]
  BY OnlyRuns
<1> DEFINE T == {n \in Nat : n <= Len(text) => f[n] \in Seq(S \cap C)}
<1>2. Len(text) \in Nat /\ \A i \in 1 .. Len(text) : text[i] \in S
  OBVIOUS
<1>3. 0 \in T
  <2>1. <<>> \in Seq(S \cap C)
    OBVIOUS
  <2>. QED BY <1>1, <2>1
<1>4. ASSUME NEW n \in Nat, n \in T PROVE n + 1 \in T
  <2> SUFFICES ASSUME n + 1 <= Len(text) PROVE f[n + 1] \in Seq(S \cap C)
    OBVIOUS
  <2>1. f[n] \in Seq(S \cap C) /\ n \in 0 .. Len(text) - 1 /\ text[n + 1] \in S
    BY <1>2, <1>4
  <2>2. CASE text[n + 1] \in C
    <3>1. text[n + 1] \in S \cap C
      BY <2>1, <2>2
    <3>2. Append(f[n], text[n + 1]) \in Seq(S \cap C)
      BY <2>1, <3>1, AppendProperties
    <3>. QED BY <1>1, <2>1, <2>2, <3>2
  <2>3. CASE text[n + 1] \notin C
    BY <1>1, <2>1, <2>3
  <2>. QED BY <2>2, <2>3
<1>5. \A n \in Nat : n \in T
  <2> HIDE DEF T
  <2>. QED BY <1>3, <1>4, EveryNumber
<1>. QED BY <1>1, <1>2, <1>5

LEMMA OneMore ==
  ASSUME NEW S, NEW s \in Seq(S), NEW n \in 0 .. Len(s) - 1
  PROVE  Append(SubSeq(s, 1, n), s[n + 1]) = SubSeq(s, 1, n + 1)
<1> DEFINE a == SubSeq(s, 1, n)
           b == SubSeq(s, 1, n + 1)
<1>1. Len(s) \in Nat /\ n \in Nat /\ n + 1 \in 1 .. Len(s) /\ s[n + 1] \in S
  OBVIOUS
<1>2. a \in Seq(S) /\ Len(a) = n /\ \A i \in 1 .. n : a[i] = s[i]
  BY <1>1, SubSeqProperties
<1>3. b \in Seq(S) /\ Len(b) = n + 1 /\ \A i \in 1 .. n + 1 : b[i] = s[i]
  BY <1>1, SubSeqProperties
<1> HIDE DEF a, b
<1>4. /\ Append(a, s[n + 1]) \in Seq(S) /\ Len(Append(a, s[n + 1])) = n + 1
      /\ Append(a, s[n + 1])[n + 1] = s[n + 1]
      /\ \A i \in 1 .. n : Append(a, s[n + 1])[i] = a[i]
  BY <1>1, <1>2, AppendProperties
<1>5. \A i \in 1 .. n + 1 : Append(a, s[n + 1])[i] = b[i]
  BY <1>1, <1>2, <1>3, <1>4
<1>6. Append(a, s[n + 1]) = b
  BY <1>1, <1>3, <1>4, <1>5, SeqEqual
<1>. QED BY <1>6 DEF a, b

\* What begins with characters of C and ends with others loses its end.
LEMMA OnlyBegins ==
  ASSUME NEW S, NEW text \in Seq(S), NEW C, NEW m \in 0 .. Len(text),
         \A i \in 1 .. m : text[i] \in C, \A i \in m + 1 .. Len(text) : text[i] \notin C
  PROVE  Only(text, C) = SubSeq(text, 1, m)
<1>1. PICK f : /\ f[0] = <<>> /\ Only(text, C) = f[Len(text)]
               /\ \A n \in 0 .. Len(text) - 1 :
                    f[n + 1] = IF text[n + 1] \in C THEN Append(f[n], text[n + 1]) ELSE f[n]
  BY OnlyRuns
<1> DEFINE least(n) == IF n <= m THEN n ELSE m
           T == {n \in Nat : n <= Len(text) => f[n] = SubSeq(text, 1, least(n))}
<1>2. Len(text) \in Nat /\ \A i \in 1 .. Len(text) : text[i] \in S
  OBVIOUS
<1>3. 0 \in T
  <2>1. SubSeq(text, 1, 0) = <<>>
    BY SubSeqEmpty
  <2>2. least(0) = 0
    OBVIOUS
  <2>. QED BY <1>1, <2>1, <2>2
<1>4. ASSUME NEW n \in Nat, n \in T PROVE n + 1 \in T
  <2> SUFFICES ASSUME n + 1 <= Len(text) PROVE f[n + 1] = SubSeq(text, 1, least(n + 1))
    OBVIOUS
  <2>1. f[n] = SubSeq(text, 1, least(n)) /\ n \in 0 .. Len(text) - 1
    BY <1>2, <1>4
  <2>2. CASE n + 1 <= m
    <3>1. text[n + 1] \in C /\ least(n) = n /\ least(n + 1) = n + 1
      BY <2>2
    <3>2. Append(SubSeq(text, 1, n), text[n + 1]) = SubSeq(text, 1, n + 1)
      BY <1>2, <2>1, OneMore
    <3>. QED BY <1>1, <2>1, <3>1, <3>2
  <2>3. CASE n + 1 > m
    <3>1. text[n + 1] \notin C /\ least(n) = m /\ least(n + 1) = m
      BY <1>2, <2>1, <2>3
    <3>. QED BY <1>1, <2>1, <3>1
  <2>. QED BY <2>2, <2>3
<1>5. \A n \in Nat : n \in T
  <2> HIDE DEF T
  <2>. QED BY <1>3, <1>4, EveryNumber
<1>6. Len(text) \in T /\ least(Len(text)) = m
  BY <1>2, <1>5
<1>. QED BY <1>1, <1>2, <1>6

(***************************************************************************)
(* Characters and values, bytes and sextets.                               *)
(***************************************************************************)
Alphabet == isalnum \cup {43, 47}
Codes == Alphabet \cup {Pad}

\* The values and the characters of the alphabet belong together, one for one.
LEMMA ValueOfCode ==
  ASSUME NEW v \in 0 .. 63
  PROVE  tbl(v) \in Alphabet /\ b64_val(tbl(v)) = v
<1>1. CASE v < 26
  <2>1. tbl(v) = 65 + v
    BY <1>1 DEF tbl
  <2>. QED BY <1>1, <2>1 DEF Alphabet, isalnum, b64_val, Pad, Space
<1>2. CASE 26 <= v /\ v < 52
  <2>1. tbl(v) = 97 + v - 26
    BY <1>2 DEF tbl
  <2>. QED BY <1>2, <2>1 DEF Alphabet, isalnum, b64_val, Pad, Space
<1>3. CASE 52 <= v /\ v < 62
  <2>1. tbl(v) = 48 + v - 52
    BY <1>3 DEF tbl
  <2>. QED BY <1>3, <2>1 DEF Alphabet, isalnum, b64_val, Pad, Space
<1>4. CASE v = 62
  <2>1. tbl(v) = 43
    BY <1>4 DEF tbl
  <2>. QED BY <1>4, <2>1 DEF Alphabet, isalnum, b64_val, Pad, Space
<1>5. CASE v = 63
  <2>1. tbl(v) = 47
    BY <1>5 DEF tbl
  <2>. QED BY <1>5, <2>1 DEF Alphabet, isalnum, b64_val, Pad, Space
<1>. QED BY <1>1, <1>2, <1>3, <1>4, <1>5

LEMMA CodeOfValue ==
  ASSUME NEW c \in Alphabet
  PROVE  b64_val(c) \in 0 .. 63 /\ tbl(b64_val(c)) = c
<1>1. CASE c \in 65 .. 90
  <2>1. b64_val(c) = c - 65
    BY <1>1 DEF b64_val, Pad, Space
  <2>. QED BY <1>1, <2>1 DEF tbl
<1>2. CASE c \in 97 .. 122
  <2>1. b64_val(c) = c - 97 + 26
    BY <1>2 DEF b64_val, Pad, Space
  <2>. QED BY <1>2, <2>1 DEF tbl
<1>3. CASE c \in 48 .. 57
  <2>1. b64_val(c) = c - 48 + 52
    BY <1>3 DEF b64_val, Pad, Space
  <2>. QED BY <1>3, <2>1 DEF tbl
<1>4. CASE c = 43
  <2>1. b64_val(c) = 62
    BY <1>4 DEF b64_val, Pad, Space
  <2>. QED BY <1>4, <2>1 DEF tbl
<1>5. CASE c = 47
  <2>1. b64_val(c) = 63
    BY <1>5 DEF b64_val, Pad, Space
  <2>. QED BY <1>5, <2>1 DEF tbl
<1>. QED BY <1>1, <1>2, <1>3, <1>4, <1>5 DEF Alphabet, isalnum

LEMMA PadApart ==
  /\ b64_val(Pad) = -2 /\ Pad \notin Alphabet
  /\ Codes \subseteq 1 .. 255 /\ Codes \cap Space = {}
  /\ 44 \notin Codes /\ 45 \notin Codes /\ 95 \notin Codes
  BY DEF b64_val, Pad, Alphabet, Codes, isalnum, Space

\* The four characters of a group of k bytes; a byte that is missing is 0.
Four(c, x, y, z, k) ==
  /\ c[1] = tbl(x \div 4) /\ c[2] = tbl((x % 4) * 16 + y \div 16)
  /\ c[3] = IF k >= 2 THEN tbl((y % 16) * 4 + z \div 64) ELSE Pad
  /\ c[4] = IF k >= 3 THEN tbl(z % 64) ELSE Pad

Word(x, y, z) == x * 65536 + y * 256 + z
Sextets(x, y, z) ==
  /\ Word(x, y, z) \div 262144 = x \div 4
  /\ (Word(x, y, z) \div 4096) % 64 = (x % 4) * 16 + y \div 16
  /\ (Word(x, y, z) \div 64) % 64 = (y % 16) * 4 + z \div 64
  /\ Word(x, y, z) % 64 = z % 64

LEMMA SextetsOfWord ==
  ASSUME NEW x \in 0 .. 255, NEW y \in 0 .. 255, NEW z \in 0 .. 255
  PROVE  Sextets(x, y, z)
<1> DEFINE t == Word(x, y, z)
<1>1. PICK a \in 0 .. 63, b \in 0 .. 3 : x = 4 * a + b
  <2>1. x \div 4 \in 0 .. 63 /\ x % 4 \in 0 .. 3 /\ x = 4 * (x \div 4) + (x % 4)
    OBVIOUS
  <2>. QED BY <2>1
<1>2. PICK c \in 0 .. 15, d \in 0 .. 15 : y = 16 * c + d
  <2>1. y \div 16 \in 0 .. 15 /\ y % 16 \in 0 .. 15 /\ y = 16 * (y \div 16) + (y % 16)
    OBVIOUS
  <2>. QED BY <2>1
<1>3. PICK e \in 0 .. 3, f \in 0 .. 63 : z = 64 * e + f
  <2>1. z \div 64 \in 0 .. 3 /\ z % 64 \in 0 .. 63 /\ z = 64 * (z \div 64) + (z % 64)
    OBVIOUS
  <2>. QED BY <2>1
<1>4. x \div 4 = a /\ x % 4 = b
  BY <1>1
<1>5. y \div 16 = c /\ y % 16 = d
  BY <1>2
<1>6. z \div 64 = e /\ z % 64 = f
  BY <1>3
<1>7. t = 262144 * a + 65536 * b + 4096 * c + 256 * d + 64 * e + f
  BY <1>1, <1>2, <1>3 DEF Word
<1> HIDE DEF t
<1>8. t \div 262144 = a
  BY <1>7
<1>9. (t \div 4096) % 64 = b * 16 + c
  <2>1. t \div 4096 = 64 * a + (16 * b + c)
    BY <1>7
  <2>. QED BY <2>1
<1>10. (t \div 64) % 64 = d * 4 + e
  <2>1. t \div 64 = 64 * (64 * a + 16 * b + c) + (4 * d + e)
    BY <1>7
  <2>. QED BY <2>1
<1>11. t % 64 = f
  BY <1>7
<1>. QED BY <1>4, <1>5, <1>6, <1>8, <1>9, <1>10, <1>11 DEF Sextets, t

UpToThree(three, x, y, z) ==
  /\ Len(three) \in 1 .. 3 /\ x = three[1]
  /\ y = (IF 2 <= Len(three) THEN three[2] ELSE 0)
  /\ z = (IF 3 <= Len(three) THEN three[3] ELSE 0)
FourOf(q, x, y, z, k) == Len(q) = 4 /\ Four(q, x, y, z, k) /\ q = <<q[1], q[2], q[3], q[4]>>

LEMMA QuartetIs ==
  ASSUME NEW three \in Seq(0 .. 255),
         NEW x \in 0 .. 255, NEW y \in 0 .. 255, NEW z \in 0 .. 255, UpToThree(three, x, y, z)
  PROVE  FourOf(Quartet(three), x, y, z, Len(three))
<1>1. Quartet(three) =
        <<tbl(Word(x, y, z) \div 262144), tbl((Word(x, y, z) \div 4096) % 64),
          IF Len(three) >= 2 THEN tbl((Word(x, y, z) \div 64) % 64) ELSE Pad,
          IF Len(three) >= 3 THEN tbl(Word(x, y, z) % 64) ELSE Pad>>
  BY DEF Quartet, Word, UpToThree
<1>2. Sextets(x, y, z)
  BY SextetsOfWord
<1>. QED BY <1>1, <1>2 DEF Four, FourOf, Sextets

LEMMA SextetRanges ==
  ASSUME NEW x \in 0 .. 255, NEW y \in 0 .. 255
  PROVE  /\ x \div 4 \in 0 .. 63 /\ (x % 4) * 16 + y \div 16 \in 0 .. 63
         /\ (x % 16) * 4 + y \div 64 \in 0 .. 63 /\ x % 64 \in 0 .. 63
  OBVIOUS

\* Three bytes, taken to four values and back.
GivesBack(x, y, z) ==
  /\ Low((x \div 4) * 4 + ((x % 4) * 16 + y \div 16) \div 16) = x
  /\ Low(((x % 4) * 16 + y \div 16) * 16 + ((y % 16) * 4 + z \div 64) \div 4) = y
  /\ Low(((y % 16) * 4 + z \div 64) * 64 + (z % 64)) = z

LEMMA TripleOfBytes ==
  ASSUME NEW x \in 0 .. 255, NEW y \in 0 .. 255, NEW z \in 0 .. 255
  PROVE  GivesBack(x, y, z)
<1>1. PICK a \in 0 .. 63, b \in 0 .. 3 : x = 4 * a + b
  <2>1. x \div 4 \in 0 .. 63 /\ x % 4 \in 0 .. 3 /\ x = 4 * (x \div 4) + (x % 4)
    OBVIOUS
  <2>. QED BY <2>1
<1>2. PICK c \in 0 .. 15, d \in 0 .. 15 : y = 16 * c + d
  <2>1. y \div 16 \in 0 .. 15 /\ y % 16 \in 0 .. 15 /\ y = 16 * (y \div 16) + (y % 16)
    OBVIOUS
  <2>. QED BY <2>1
<1>3. PICK e \in 0 .. 3, f \in 0 .. 63 : z = 64 * e + f
  <2>1. z \div 64 \in 0 .. 3 /\ z % 64 \in 0 .. 63 /\ z = 64 * (z \div 64) + (z % 64)
    OBVIOUS
  <2>. QED BY <2>1
<1>4. x \div 4 = a /\ x % 4 = b
  BY <1>1
<1>5. y \div 16 = c /\ y % 16 = d
  BY <1>2
<1>6. z \div 64 = e /\ z % 64 = f
  BY <1>3
<1>7. (b * 16 + c) \div 16 = b /\ (d * 4 + e) \div 4 = d
  OBVIOUS
<1>8. (b * 16 + c) * 16 + d = 256 * b + y /\ (d * 4 + e) * 64 + f = 256 * d + z
  BY <1>2, <1>3
<1>9. Low(a * 4 + b) = x /\ Low(256 * b + y) = y /\ Low(256 * d + z) = z
  BY <1>1 DEF Low
<1>. QED BY <1>4, <1>5, <1>6, <1>7, <1>8, <1>9 DEF GivesBack

\* Four values, taken to three bytes and back.
BytesOf(v, w, x, y, a, b, c) ==
  a = Low(v * 4 + w \div 16) /\ b = Low(w * 16 + x \div 4) /\ c = Low(x * 64 + y)
ValuesOf(a, b, c, v, w, x, y) ==
  /\ a \div 4 = v /\ (a % 4) * 16 + b \div 16 = w
  /\ (b % 16) * 4 + c \div 64 = x /\ c % 64 = y

LEMMA BytesOfTriple ==
  ASSUME NEW v \in 0 .. 63, NEW w \in 0 .. 63, NEW x \in 0 .. 63, NEW y \in 0 .. 63,
         NEW a, NEW b, NEW c, BytesOf(v, w, x, y, a, b, c)
  PROVE  ValuesOf(a, b, c, v, w, x, y)
<1>1. PICK p \in 0 .. 3, q \in 0 .. 15 : w = 16 * p + q /\ w \div 16 = p
  <2>1. w \div 16 \in 0 .. 3 /\ w % 16 \in 0 .. 15 /\ w = 16 * (w \div 16) + (w % 16)
    OBVIOUS
  <2>. QED BY <2>1
<1>2. PICK r \in 0 .. 15, t \in 0 .. 3 : x = 4 * r + t /\ x \div 4 = r
  <2>1. x \div 4 \in 0 .. 15 /\ x % 4 \in 0 .. 3 /\ x = 4 * (x \div 4) + (x % 4)
    OBVIOUS
  <2>. QED BY <2>1
<1>3. a = 4 * v + p
  BY <1>1 DEF Low, BytesOf
<1>4. b = 16 * q + r
  BY <1>1, <1>2 DEF Low, BytesOf
<1>5. c = 64 * t + y
  BY <1>2 DEF Low, BytesOf
<1>6. a \div 4 = v /\ a % 4 = p
  BY <1>3
<1>7. b \div 16 = q /\ b % 16 = r
  BY <1>4
<1>8. c \div 64 = t /\ c % 64 = y
  BY <1>5
<1>9. (a % 4) * 16 + b \div 16 = w
  BY <1>1, <1>6, <1>7
<1>10. (b % 16) * 4 + c \div 64 = x
  BY <1>2, <1>7, <1>8
<1>. QED BY <1>6, <1>8, <1>9, <1>10 DEF ValuesOf

(***************************************************************************)
(* Encoding: group g of the text is the code of the bytes 3g - 2 .. 3g.    *)
(***************************************************************************)
\* The concatenation of groups of four.
LEMMA FlattenFours ==
  ASSUME NEW S, NEW s \in Seq(Seq(S)), \A i \in 1 .. Len(s) : Len(s[i]) = 4
  PROVE  /\ FlattenSeq(s) \in Seq(S) /\ Len(FlattenSeq(s)) = 4 * Len(s)
         /\ \A g \in 1 .. Len(s) : \A j \in 1 .. 4 : FlattenSeq(s)[4 * (g - 1) + j] = s[g][j]
<1> DEFINE n == Len(s)
<1>1. n \in Nat /\ \A i \in 1 .. n : s[i] \in Seq(S)
  BY LenProperties
<1>2. FlattenSeq(s) \in Seq(S)
  BY FlattenType
<1>3. CASE s = <<>>
  <2>1. n = 0 /\ Len(FlattenSeq(s)) = 0
    BY <1>3, FlattenEmpty
  <2>. QED BY <1>2, <2>1
<1>4. CASE s # <<>>
  <2>1. n # 0
    BY <1>4, EmptySeq
  <2>2. PICK f : /\ Joins(f, s, n) /\ FlattenSeq(s) = f[n]
                 /\ \A i \in 1 .. n : f[i] \in Seq(S)
    BY <1>4, FlattenJoins
  <2>0. \A i \in 1 .. n : Len(s[i]) = 4
    OBVIOUS
  <2> HIDE DEF n
  <2> DEFINE P(i) == /\ Len(f[i]) = 4 * i
                     /\ \A g \in 1 .. i : \A j \in 1 .. 4 : f[i][4 * (g - 1) + j] = s[g][j]
             T == {i \in Nat : i + 1 <= n => P(i + 1)}
  <2>3. 0 \in T
    <3>1. 1 \in 1 .. n
      BY <1>1, <2>1
    <3>2. f[1] = s[1]
      BY <2>2, <3>1 DEF Joins
    <3>3. P(1)
      BY <2>0, <3>1, <3>2
    <3> HIDE DEF P
    <3>. QED BY <3>3
  <2>4. ASSUME NEW i \in Nat, i \in T PROVE i + 1 \in T
    <3> SUFFICES ASSUME i + 2 <= n PROVE P(i + 2)
      <4> HIDE DEF P
      <4>1. (i + 1) + 1 = i + 2
        OBVIOUS
      <4>. QED BY <4>1
    <3>1. /\ i + 1 \in 1 .. n /\ i + 2 \in 1 .. n /\ (i + 2) - 1 = i + 1 /\ i + 2 # 1
      BY <1>1
    <3>2. P(i + 1)
      <4>1. i + 1 <= n
        BY <1>1
      <4> HIDE DEF P
      <4>. QED BY <2>4, <4>1
    <3>3. f[i + 2] = f[i + 1] \o s[i + 2]
      BY <2>2, <3>1 DEF Joins
    <3>4. f[i + 1] \in Seq(S) /\ s[i + 2] \in Seq(S) /\ Len(s[i + 2]) = 4
      BY <1>1, <2>0, <2>2, <3>1
    <3>5. /\ Len(f[i + 2]) = 4 * (i + 1) + 4
          /\ \A k \in 1 .. 4 * (i + 1) + 4 : f[i + 2][k] =
               IF k <= 4 * (i + 1) THEN f[i + 1][k] ELSE s[i + 2][k - 4 * (i + 1)]
      <4>1. Len(f[i + 1]) = 4 * (i + 1)
        BY <3>2
      <4>2. \A a, b \in Seq(S) :
              /\ Len(a \o b) = Len(a) + Len(b)
              /\ \A k \in 1 .. Len(a) + Len(b) : (a \o b)[k] =
                   IF k <= Len(a) THEN a[k] ELSE b[k - Len(a)]
        BY ConcatProperties
      <4>3. PICK a \in Seq(S), b \in Seq(S) : a = f[i + 1] /\ b = s[i + 2]
        BY <3>4
      <4>4. Len(a) = 4 * (i + 1) /\ Len(b) = 4 /\ f[i + 2] = a \o b
        BY <3>3, <3>4, <4>1, <4>3
      <4>5. PICK p \in Nat : p = 4 * (i + 1)
        OBVIOUS
      <4>6. Len(a) = p /\ Len(b) = 4 /\ p + 4 = 4 * (i + 1) + 4
        BY <4>4, <4>5
      <4>7. /\ Len(a \o b) = p + 4
            /\ \A k \in 1 .. p + 4 : (a \o b)[k] = IF k <= p THEN a[k] ELSE b[k - p]
        BY <4>2, <4>6
      <4>8. /\ Len(f[i + 2]) = p + 4
            /\ \A k \in 1 .. p + 4 :
                 f[i + 2][k] = IF k <= p THEN f[i + 1][k] ELSE s[i + 2][k - p]
        BY <4>3, <4>4, <4>7
      <4>. QED BY <4>5, <4>8
    <3>6. ASSUME NEW g \in 1 .. i + 2, NEW j \in 1 .. 4
          PROVE  f[i + 2][4 * (g - 1) + j] = s[g][j]
      <4>1. CASE g <= i + 1
        <5>1. /\ g \in 1 .. i + 1 /\ 4 * (g - 1) + j \in 1 .. 4 * (i + 1) + 4
              /\ 4 * (g - 1) + j <= 4 * (i + 1)
          BY <4>1
        <5>. QED BY <3>2, <3>5, <5>1
      <4>2. CASE g = i + 2
        <5>1. /\ 4 * (g - 1) + j \in 1 .. 4 * (i + 1) + 4
              /\ ~(4 * (g - 1) + j <= 4 * (i + 1))
              /\ 4 * (g - 1) + j - 4 * (i + 1) = j
          BY <4>2
        <5>. QED BY <3>5, <4>2, <5>1
      <4>. QED BY <4>1, <4>2
    <3>. QED BY <3>5, <3>6
  <2>5. \A i \in Nat : i \in T
    <3> HIDE DEF T
    <3>. QED BY <2>3, <2>4, EveryNumber
  <2>6. n - 1 \in T /\ (n - 1) + 1 = n
    <3>1. n - 1 \in Nat /\ (n - 1) + 1 = n
      BY <1>1, <2>1
    <3> HIDE DEF T
    <3>. QED BY <2>5, <3>1
  <2>7. P(n)
    <3> HIDE DEF P
    <3>. QED BY <1>1, <2>6
  <2>. QED BY <1>2, <2>2, <2>7 DEF n
<1>. QED BY <1>3, <1>4

Groups(data) == (Len(data) + 2) \div 3
Byte(data, i) == IF i <= Len(data) THEN data[i] ELSE 0
At4(text, g) == <<text[4 * g - 3], text[4 * g - 2], text[4 * g - 1], text[4 * g]>>
Size3(data, g) == IF 3 * g <= Len(data) THEN 3 ELSE Len(data) - 3 * (g - 1)

\* A group has its four characters, and there are as many groups as it takes.
LEMMA GroupCounts ==
  ASSUME NEW data \in Seq(0 .. 255), NEW g \in 1 .. Groups(data)
  PROVE  /\ Size3(data, g) \in 1 .. 3
         /\ 3 * (g - 1) + Size3(data, g) <= Len(data)
         /\ \A i \in Nat : Byte(data, i + 1) \in 0 .. 255
         /\ g < Groups(data) => 3 * g < Len(data)
         /\ Size3(data, g) < 3 => g = Groups(data) /\ Len(data) = 3 * (g - 1) + Size3(data, g)
<1>1. Len(data) \in Nat /\ \A i \in 1 .. Len(data) : data[i] \in 0 .. 255
  BY LenProperties
<1>2. PICK n \in Nat : n = Len(data) /\ Groups(data) = (n + 2) \div 3
  BY <1>1 DEF Groups
<1>3. g \in Nat /\ 1 <= g /\ g <= (n + 2) \div 3
  BY <1>2
<1>4. 3 * g <= n + 2
  BY <1>3
<1>5. g < (n + 2) \div 3 => 3 * g < n
  BY <1>3
<1>6. 3 * g > n => g = (n + 2) \div 3
  BY <1>3
<1>7. ASSUME NEW i \in Nat PROVE Byte(data, i + 1) \in 0 .. 255
  <2>1. CASE i + 1 <= Len(data)
    BY <1>1, <2>1 DEF Byte
  <2>2. CASE ~(i + 1 <= Len(data))
    BY <2>2 DEF Byte
  <2>. QED BY <2>1, <2>2
<1>8. PICK k \in Int : k = Size3(data, g) /\ k = IF 3 * g <= n THEN 3 ELSE n - 3 * (g - 1)
  <2>1. Size3(data, g) = IF 3 * g <= n THEN 3 ELSE n - 3 * (g - 1)
    BY <1>2 DEF Size3
  <2>2. (IF 3 * g <= n THEN 3 ELSE n - 3 * (g - 1)) \in Int
    BY <1>3
  <2>. QED BY <2>1, <2>2
<1>9. k \in 1 .. 3 /\ 3 * (g - 1) + k <= n /\ (k < 3 => n = 3 * (g - 1) + k /\ 3 * g > n)
  <2>1. CASE 3 * g <= n
    BY <1>3, <1>8, <2>1
  <2>2. CASE ~(3 * g <= n)
    BY <1>3, <1>4, <1>8, <2>2
  <2>. QED BY <2>1, <2>2
<1>. QED BY <1>2, <1>3, <1>5, <1>6, <1>7, <1>8, <1>9

Text(data) == base64_encode(data)
LEMMA TextIs ==
  ASSUME NEW data \in Seq(0 .. 255)
  PROVE  /\ Text(data) \in Seq(Codes) /\ Len(Text(data)) = 4 * Groups(data)
         /\ \A g \in 1 .. Groups(data) :
              Four(At4(Text(data), g), Byte(data, 3 * g - 2), Byte(data, 3 * g - 1),
                   Byte(data, 3 * g), Size3(data, g))
<1> DEFINE G == Groups(data)
           group(g) == SubSeq(data, 3 * g - 2, IF 3 * g <= Len(data) THEN 3 * g ELSE Len(data))
           s == [g \in 1 .. G |-> Quartet(group(g))]
<1>1. Len(data) \in Nat /\ \A i \in 1 .. Len(data) : data[i] \in 0 .. 255
  BY LenProperties
<1>2. G \in Nat
  BY <1>1 DEF Groups
<1>3. ASSUME NEW g \in 1 .. G
      PROVE  /\ Quartet(group(g)) \in Seq(Codes) /\ Len(Quartet(group(g))) = 4
             /\ Four(Quartet(group(g)), Byte(data, 3 * g - 2), Byte(data, 3 * g - 1),
                     Byte(data, 3 * g), Size3(data, g))
  <2> DEFINE end == IF 3 * g <= Len(data) THEN 3 * g ELSE Len(data)
             three == group(g)
             k == Size3(data, g)
  <2>0. g \in Nat
    BY <1>2
  <2>1. /\ k \in 1 .. 3 /\ 3 * (g - 1) + k <= Len(data)
        /\ \A i \in Nat : Byte(data, i + 1) \in 0 .. 255
        /\ k < 3 => Len(data) = 3 * (g - 1) + k
    BY GroupCounts
  <2>2. end = 3 * (g - 1) + k /\ end \in Int
    <3>1. CASE 3 * g <= Len(data)
      BY <1>1, <2>0, <3>1 DEF Size3
    <3>2. CASE ~(3 * g <= Len(data))
      BY <1>1, <2>0, <3>2 DEF Size3
    <3>. QED BY <3>1, <3>2
  <2>3. /\ three \in Seq(0 .. 255) /\ Len(three) = k
        /\ \A i \in 1 .. k : three[i] = data[3 * g - 3 + i]
    <3> HIDE DEF k, end
    <3>1. three = SubSeq(data, 3 * g - 2, end)
      BY DEF end
    <3> HIDE DEF three
    <3>2. \A i \in 3 * g - 2 .. end : data[i] \in 0 .. 255
      BY <1>1, <2>0, <2>1, <2>2
    <3>3. /\ SubSeq(data, 3 * g - 2, end) \in Seq(0 .. 255)
          /\ Len(SubSeq(data, 3 * g - 2, end)) =
               IF 3 * g - 2 <= end THEN end - (3 * g - 2) + 1 ELSE 0
          /\ \A i \in 1 .. end - (3 * g - 2) + 1 :
                SubSeq(data, 3 * g - 2, end)[i] = data[3 * g - 2 + i - 1]
      <4>1. 3 * g - 2 \in Int
        BY <2>0
      <4>2. PICK m \in Int, l \in Int : m = 3 * g - 2 /\ l = end
        BY <2>2, <4>1
      <4>3. \A i \in m .. l : data[i] \in 0 .. 255
        BY <3>2, <4>2
      <4>4. /\ SubSeq(data, m, l) \in Seq(0 .. 255)
            /\ Len(SubSeq(data, m, l)) = IF m <= l THEN l - m + 1 ELSE 0
            /\ \A i \in 1 .. l - m + 1 : SubSeq(data, m, l)[i] = data[m + i - 1]
        BY <4>3, SubSeqProperties
      <4>. QED BY <4>2, <4>4
    <3>4. end - (3 * g - 2) + 1 = k /\ 3 * g - 2 <= end
      BY <2>0, <2>1, <2>2
    <3>5. \A i \in 1 .. k : 3 * g - 2 + i - 1 = 3 * g - 3 + i
      BY <2>0, <2>1
    <3>. QED BY <3>1, <3>3, <3>4, <3>5
  <2> HIDE DEF three, k
  <2>4. PICK x \in 0 .. 255, y \in 0 .. 255, z \in 0 .. 255 :
          x = Byte(data, 3 * g - 2) /\ y = Byte(data, 3 * g - 1) /\ z = Byte(data, 3 * g)
    <3>1. /\ 3 * g - 3 \in Nat /\ (3 * g - 3) + 1 = 3 * g - 2
          /\ 3 * g - 2 \in Nat /\ (3 * g - 2) + 1 = 3 * g - 1
          /\ 3 * g - 1 \in Nat /\ (3 * g - 1) + 1 = 3 * g
      BY <2>0
    <3>. QED BY <2>1, <3>1
  <2>5. x = three[1]
    <3>1. 3 * g - 3 + 1 = 3 * g - 2 /\ 3 * g - 2 <= Len(data) /\ 1 \in 1 .. k
      BY <1>1, <2>0, <2>1
    <3>. QED BY <2>3, <2>4, <3>1 DEF Byte
  <2>6. y = IF 2 <= k THEN three[2] ELSE 0
    <3>1. 3 * g - 3 + 2 = 3 * g - 1 /\ (3 * g - 1 <= Len(data) <=> 2 <= k)
          /\ (2 <= k => 2 \in 1 .. k)
      BY <1>1, <2>0, <2>1
    <3>. QED BY <2>3, <2>4, <3>1 DEF Byte
  <2>7. z = IF 3 <= k THEN three[3] ELSE 0
    <3>1. 3 * g - 3 + 3 = 3 * g /\ (3 * g <= Len(data) <=> 3 <= k)
          /\ (3 <= k => 3 \in 1 .. k)
      BY <1>1, <2>0, <2>1
    <3>. QED BY <2>3, <2>4, <3>1 DEF Byte
  <2>8. /\ Len(Quartet(three)) = 4 /\ Four(Quartet(three), x, y, z, k)
        /\ Quartet(three) = <<Quartet(three)[1], Quartet(three)[2],
                              Quartet(three)[3], Quartet(three)[4]>>
    <3>1. three \in Seq(0 .. 255) /\ Len(three) = k /\ k \in 1 .. 3
      BY <2>1, <2>3
    <3>2. UpToThree(three, x, y, z)
      BY ZenonT(30), <2>5, <2>6, <2>7, <3>1 DEF UpToThree
    <3>3. FourOf(Quartet(three), x, y, z, Len(three))
      BY <3>1, <3>2, QuartetIs
    <3>. QED BY ZenonT(30), <3>1, <3>3 DEF FourOf
  <2>9. \A i \in 1 .. 4 : Quartet(three)[i] \in Codes
    <3>1. /\ x \div 4 \in 0 .. 63 /\ (x % 4) * 16 + y \div 16 \in 0 .. 63
          /\ (y % 16) * 4 + z \div 64 \in 0 .. 63 /\ z % 64 \in 0 .. 63
      <4>1. x \div 4 \in 0 .. 63 /\ (x % 4) * 16 + y \div 16 \in 0 .. 63
        BY ZenonT(30), SextetRanges
      <4>2. (y % 16) * 4 + z \div 64 \in 0 .. 63
        BY ZenonT(30), SextetRanges
      <4>3. z % 64 \in 0 .. 63
        BY ZenonT(30), SextetRanges
      <4>. QED BY <4>1, <4>2, <4>3
    <3>2. \A v \in 0 .. 63 : tbl(v) \in Codes
      BY ValueOfCode DEF Codes
    <3>3. Pad \in Codes
      BY DEF Codes
    <3>4. /\ Quartet(three)[1] \in Codes /\ Quartet(three)[2] \in Codes
          /\ Quartet(three)[3] \in Codes /\ Quartet(three)[4] \in Codes
      <4>1. PICK a \in 0 .. 63, b \in 0 .. 63, c \in 0 .. 63, d \in 0 .. 63 :
              /\ a = x \div 4 /\ b = (x % 4) * 16 + y \div 16
              /\ c = (y % 16) * 4 + z \div 64 /\ d = z % 64
        BY <3>1
      <4>2. /\ Quartet(three)[1] = tbl(a) /\ Quartet(three)[2] = tbl(b)
            /\ Quartet(three)[3] \in {tbl(c), Pad} /\ Quartet(three)[4] \in {tbl(d), Pad}
        BY <2>8, <4>1 DEF Four
      <4>. QED BY <3>2, <3>3, <4>1, <4>2
    <3>. QED BY <3>4
  <2>10. Quartet(three) \in Seq(Codes)
    <3>1. \A a, b, c, d \in Codes : <<a, b, c, d>> \in Seq(Codes)
      OBVIOUS
    <3>2. PICK a \in Codes, b \in Codes, c \in Codes, d \in Codes :
            /\ a = Quartet(three)[1] /\ b = Quartet(three)[2]
            /\ c = Quartet(three)[3] /\ d = Quartet(three)[4]
      BY <2>9
    <3>3. Quartet(three) = <<a, b, c, d>>
      BY <2>8, <3>2
    <3>. QED BY <3>1, <3>3
  <2>. QED BY <2>4, <2>8, <2>10 DEF three, k
<1>4. s \in Seq(Seq(Codes)) /\ Len(s) = G /\ \A g \in 1 .. G : s[g] = Quartet(group(g))
  <2> HIDE DEF group, G
  <2>1. \A g \in 1 .. G : Quartet(group(g)) \in Seq(Codes)
    BY <1>3
  <2>. QED BY <1>2, <2>1
<1>5. Text(data) = FlattenSeq(s)
  BY DEF Text, base64_encode, Groups
<1> HIDE DEF s, G, group
<1>6. /\ FlattenSeq(s) \in Seq(Codes) /\ Len(FlattenSeq(s)) = 4 * G
      /\ \A g \in 1 .. G : \A j \in 1 .. 4 : FlattenSeq(s)[4 * (g - 1) + j] = s[g][j]
  <2>1. \A i \in 1 .. Len(s) : Len(s[i]) = 4
    BY <1>3, <1>4
  <2>. QED BY SMTT(30), <1>4, <2>1, FlattenFours
<1>7. ASSUME NEW g \in 1 .. G
      PROVE  Four(At4(Text(data), g), Byte(data, 3 * g - 2), Byte(data, 3 * g - 1),
                  Byte(data, 3 * g), Size3(data, g))
  <2>1. /\ 4 * (g - 1) + 1 = 4 * g - 3 /\ 4 * (g - 1) + 2 = 4 * g - 2
        /\ 4 * (g - 1) + 3 = 4 * g - 1 /\ 4 * (g - 1) + 4 = 4 * g
    BY <1>2
  <2>2. /\ Text(data)[4 * g - 3] = Quartet(group(g))[1]
        /\ Text(data)[4 * g - 2] = Quartet(group(g))[2]
        /\ Text(data)[4 * g - 1] = Quartet(group(g))[3]
        /\ Text(data)[4 * g] = Quartet(group(g))[4]
    <3>1. \A j \in 1 .. 4 : Text(data)[4 * (g - 1) + j] = Quartet(group(g))[j]
      BY <1>4, <1>5, <1>6
    <3>2. 1 \in 1 .. 4 /\ 2 \in 1 .. 4 /\ 3 \in 1 .. 4 /\ 4 \in 1 .. 4
      OBVIOUS
    <3>. QED BY <2>1, <3>1, <3>2
  <2>. QED BY <1>3, <2>2 DEF Four, At4
<1>. QED BY <1>5, <1>6, <1>7 DEF G

(***************************************************************************)
(* Decoding, one character and one group at a time.                        *)
(***************************************************************************)
DecodeIs(f, text, n) ==
  f = [k \in 0 .. n |-> IF k = 0 THEN Fresh ELSE DecodeOne(f[k - 1], text[k])]

LEMMA DecodeExists ==
  ASSUME NEW text
  PROVE  \A n \in Nat : \E f : DecodeIs(f, text, n)
<1> DEFINE T == {n \in Nat : \E f : DecodeIs(f, text, n)}
<1>1. 0 \in T
  <2>1. DecodeIs([k \in 0 .. 0 |-> Fresh], text, 0)
    BY DEF DecodeIs
  <2>. QED BY <2>1
<1>2. ASSUME NEW n \in Nat, n \in T PROVE n + 1 \in T
  <2>1. PICK f : DecodeIs(f, text, n)
    BY <1>2
  <2> DEFINE newest == DecodeOne(f[n], text[n + 1])
             g == [k \in 0 .. n + 1 |-> IF k <= n THEN f[k] ELSE newest]
  <2>2. \A k \in 0 .. n + 1 : g[k] = IF k <= n THEN f[k] ELSE newest
    <3> HIDE DEF newest
    <3>. QED OBVIOUS
  <2>3. g = [k \in 0 .. n + 1 |-> g[k]]
    <3> HIDE DEF newest
    <3>. QED OBVIOUS
  <2> HIDE DEF g
  <2>4. \A k \in 0 .. n + 1 :
          g[k] = IF k = 0 THEN Fresh ELSE DecodeOne(g[k - 1], text[k])
    <3> TAKE k \in 0 .. n + 1
    <3>1. CASE k <= n
      <4>1. k \in 0 .. n /\ (k # 0 => k - 1 \in 0 .. n + 1 /\ k - 1 <= n)
        BY <3>1
      <4>2. f[k] = IF k = 0 THEN Fresh ELSE DecodeOne(f[k - 1], text[k])
        BY <2>1, <4>1 DEF DecodeIs
      <4>3. g[k] = f[k] /\ (k # 0 => g[k - 1] = f[k - 1])
        BY <2>2, <3>1, <4>1
      <4>. QED BY <4>2, <4>3
    <3>2. CASE k = n + 1
      <4>1. k # 0 /\ k - 1 = n /\ ~(k <= n) /\ n \in 0 .. n + 1
        BY <3>2
      <4>2. g[k] = newest /\ g[n] = f[n]
        BY <2>2, <4>1
      <4>. QED BY <3>2, <4>1, <4>2
    <3>. QED BY <3>1, <3>2
  <2>5. DecodeIs(g, text, n + 1)
    BY <2>3, <2>4 DEF DecodeIs
  <2>. QED BY <2>5
<1>3. \A n \in Nat : n \in T
  <2> HIDE DEF T
  <2>. QED BY <1>1, <1>2, EveryNumber
<1>. QED BY <1>3

\* The states of the decoder, one for each number of characters read.
Runs(d, text) ==
  /\ d[0] = Fresh
  /\ \A n \in 0 .. Len(text) - 1 : d[n + 1] = DecodeOne(d[n], text[n + 1])
Result(s, cap) ==
  [ok |-> ~s.failed /\ (s.finished \/ s.quartet = <<>>),
   out |-> SubSeq(s.out, 1, IF Len(s.out) <= cap THEN Len(s.out) ELSE cap)]

LEMMA DecodeRuns ==
  ASSUME NEW S, NEW text \in Seq(S)
  PROVE  \E d : Runs(d, text) /\ base64_decode(text) = Result(d[Len(text)], DecodeCap(text))
<1> DEFINE f == CHOOSE decoded : decoded = [n \in 0 .. Len(text) |->
                  IF n = 0 THEN Fresh ELSE DecodeOne(decoded[n - 1], text[n])]
<1>1. Len(text) \in Nat
  OBVIOUS
<1>2. DecodeIs(f, text, Len(text))
  <2>1. PICK g : DecodeIs(g, text, Len(text))
    BY <1>1, DecodeExists
  <2>. QED BY <2>1 DEF DecodeIs
<1>3. base64_decode(text) = Result(f[Len(text)], DecodeCap(text))
  BY DEF base64_decode, Result
<1> HIDE DEF f
<1>4. f[0] = Fresh
  <2>1. 0 \in 0 .. Len(text)
    BY <1>1
  <2>. QED BY <1>2, <2>1 DEF DecodeIs
<1>5. ASSUME NEW n \in 0 .. Len(text) - 1
      PROVE f[n + 1] = DecodeOne(f[n], text[n + 1])
  <2>1. n + 1 \in 0 .. Len(text) /\ n + 1 # 0 /\ (n + 1) - 1 = n
    BY <1>1
  <2>. QED BY <1>2, <2>1 DEF DecodeIs
<1>. QED BY <1>3, <1>4, <1>5 DEF Runs

State(q, o, fin, fail) == [quartet |-> q, out |-> o, finished |-> fin, failed |-> fail]
Values == (0 .. 63) \cup {-2}

LEMMA ValueIs ==
  ASSUME NEW c \in Codes
  PROVE  b64_val(c) \in Values /\ (b64_val(c) = -2 <=> c = Pad)
         /\ (b64_val(c) # -2 => c \in Alphabet /\ tbl(b64_val(c)) = c)
  BY CodeOfValue, PadApart DEF Codes, Values

LEMMA ValuesAre ==
  ASSUME NEW v \in Values PROVE v \in Int /\ v # -1 /\ v # -3
  BY DEF Values

LEMMA AppendOne ==
  ASSUME NEW S, NEW v \in S PROVE Append(<<>>, v) = <<v>> /\ <<v>> \in Seq(S) /\ Len(<<v>>) = 1
  OBVIOUS

LEMMA AppendTwo ==
  ASSUME NEW S, NEW v \in S, NEW w \in S
  PROVE  Append(<<v>>, w) = <<v, w>> /\ <<v, w>> \in Seq(S) /\ Len(<<v, w>>) = 2
<1>1. <<v>> \in Seq(S) /\ Len(<<v>>) = 1
  OBVIOUS
<1>2. <<v, w>> \in Seq(S) /\ Len(<<v, w>>) = 2
  OBVIOUS
<1> DEFINE a == Append(<<v>>, w)
<1>3. a \in Seq(S) /\ Len(a) = 2
  BY <1>1, AppendProperties
<1>4. a[1] = v /\ a[2] = w
  BY <1>1, AppendProperties
<1> HIDE DEF a
<1>5. a = <<v, w>>
  BY <1>2, <1>3, <1>4, SeqEqual
<1>. QED BY <1>2, <1>5 DEF a

LEMMA AppendThree ==
  ASSUME NEW S, NEW v \in S, NEW w \in S, NEW x \in S
  PROVE  Append(<<v, w>>, x) = <<v, w, x>> /\ <<v, w, x>> \in Seq(S) /\ Len(<<v, w, x>>) = 3
<1>1. <<v, w>> \in Seq(S) /\ Len(<<v, w>>) = 2
  OBVIOUS
<1>2. <<v, w, x>> \in Seq(S) /\ Len(<<v, w, x>>) = 3
  OBVIOUS
<1> DEFINE a == Append(<<v, w>>, x)
<1>3. a \in Seq(S) /\ Len(a) = 3
  BY <1>1, AppendProperties
<1>4. a[1] = v /\ a[2] = w /\ a[3] = x
  BY <1>1, AppendProperties
<1> HIDE DEF a
<1>5. a = <<v, w, x>>
  BY <1>2, <1>3, <1>4, SeqEqual
<1>. QED BY <1>2, <1>5 DEF a

LEMMA AppendFour ==
  ASSUME NEW S, NEW v \in S, NEW w \in S, NEW x \in S, NEW y \in S
  PROVE  Append(<<v, w, x>>, y) = <<v, w, x, y>> /\ Len(<<v, w, x, y>>) = 4
<1>1. <<v, w, x>> \in Seq(S) /\ Len(<<v, w, x>>) = 3
  OBVIOUS
<1>2. <<v, w, x, y>> \in Seq(S) /\ Len(<<v, w, x, y>>) = 4
  OBVIOUS
<1> DEFINE a == Append(<<v, w, x>>, y)
<1>3. a \in Seq(S) /\ Len(a) = 4
  BY <1>1, AppendProperties
<1>4. a[1] = v /\ a[2] = w /\ a[3] = x /\ a[4] = y
  BY <1>1, AppendProperties
<1> HIDE DEF a
<1>5. a = <<v, w, x, y>>
  BY <1>2, <1>3, <1>4, SeqEqual
<1>. QED BY <1>2, <1>5 DEF a

LEMMA Stuck ==
  ASSUME NEW s, NEW c, s.finished \/ s.failed PROVE DecodeOne(s, c) = s
  BY DEF DecodeOne

LEMMA Collects ==
  ASSUME NEW q \in Seq(Int), Len(q) < 3, NEW o, NEW c, NEW v \in Values, v = b64_val(c)
  PROVE  DecodeOne(State(q, o, FALSE, FALSE), c) = State(Append(q, v), o, FALSE, FALSE)
<1> DEFINE s == State(q, o, FALSE, FALSE)
<1>1. v \in Int /\ v # -1 /\ v # -3
  BY ValuesAre
<1>2. Len(Append(q, v)) = Len(q) + 1 /\ Len(q) \in Nat
  BY <1>1, AppendProperties
<1>3. s.quartet = q /\ ~s.finished /\ ~s.failed
  BY DEF State
<1>4. Len(Append(q, v)) < 4
  BY <1>2
<1> HIDE DEF s
<1>5. DecodeOne(s, c) = [s EXCEPT !.quartet = Append(q, v)]
  BY <1>1, <1>3, <1>4 DEF DecodeOne
<1>. QED BY <1>5 DEF s, State

OrZero(v) == IF v < 0 THEN 0 ELSE v
First(v, w) == Low(OrZero(v) * 4 + OrZero(w) \div 16)
Second(w, x) == Low(OrZero(w) * 16 + OrZero(x) \div 4)
Third(x, y) == Low(OrZero(x) * 64 + OrZero(y))

\* What a whole group adds to the output.
Adds(out, v, w, x, y) ==
  /\ out \in Seq(0 .. 255) /\ Len(out) = Kept(<<v, w, x, y>>)
  /\ out[1] = First(v, w)
  /\ Len(out) >= 2 => out[2] = Second(w, x)
  /\ Len(out) >= 3 => out[3] = Third(x, y)

Completed(s, o, v, w, x, y) ==
  IF Refused(<<v, w, x, y>>) THEN s.failed
  ELSE \E out : Adds(out, v, w, x, y)
                /\ s = State(<<>>, o \o out, Kept(<<v, w, x, y>>) < 3, FALSE)

LEMMA PrefixIs ==
  ASSUME NEW S, NEW s \in Seq(S), NEW n \in 0 .. Len(s)
  PROVE  /\ SubSeq(s, 1, n) \in Seq(S) /\ Len(SubSeq(s, 1, n)) = n
         /\ \A i \in 1 .. n : SubSeq(s, 1, n)[i] = s[i]
<1>1. Len(s) \in Nat /\ \A i \in 1 .. Len(s) : s[i] \in S
  BY LenProperties
<1>2. \A i \in 1 .. n : s[i] \in S
  BY <1>1
<1>3. /\ SubSeq(s, 1, n) \in Seq(S)
      /\ Len(SubSeq(s, 1, n)) = IF 1 <= n THEN n - 1 + 1 ELSE 0
      /\ \A i \in 1 .. n - 1 + 1 : SubSeq(s, 1, n)[i] = s[1 + i - 1]
  BY <1>1, <1>2, SubSeqProperties
<1>4. n - 1 + 1 = n /\ (IF 1 <= n THEN n - 1 + 1 ELSE 0) = n /\ \A i \in 1 .. n : 1 + i - 1 = i
  BY <1>1
<1>. QED BY <1>3, <1>4

LEMMA Completes ==
  ASSUME NEW v \in Values, NEW w \in Values, NEW x \in Values, NEW o,
         NEW c, NEW y \in Values, y = b64_val(c)
  PROVE  Completed(DecodeOne(State(<<v, w, x>>, o, FALSE, FALSE), c), o, v, w, x, y)
<1> DEFINE s0 == State(<<v, w, x>>, o, FALSE, FALSE)
           s == DecodeOne(s0, c)
           q == Append(s0.quartet, b64_val(c))
           whole == [i \in 1 .. 4 |-> IF q[i] < 0 THEN 0 ELSE q[i]]
           out == SubSeq(Triple(whole), 1, Kept(q))
           fin == Kept(q) < 3
<1>1. y \in Int /\ y # -1 /\ y # -3
  BY ValuesAre
<1>2. s0.quartet = <<v, w, x>> /\ ~s0.finished /\ ~s0.failed /\ s0.out = o
  BY DEF State
<1> HIDE DEF s0
<1>3. q = <<v, w, x, y>> /\ Len(q) = 4
  BY <1>2, AppendFour
<1>4. s = IF Refused(q) THEN [s0 EXCEPT !.failed = TRUE]
          ELSE State(<<>>, s0.out \o out, fin, FALSE)
  <2>1. b64_val(c) # -1 /\ b64_val(c) # -3 /\ ~(Len(q) < 4)
    BY <1>1, <1>3
  <2>. QED BY <1>2, <2>1 DEF DecodeOne, State
<1> HIDE DEF fin
<1>8. s0 = State(<<v, w, x>>, o, FALSE, FALSE)
  BY DEF s0
<1>5. Refused(q) => s.failed
  <2> HIDE DEF q, s
  <2>. QED BY <1>4, <1>8 DEF State
<1>6. Adds(out, v, w, x, y)
  <2>1. Kept(q) \in 1 .. 3
    BY DEF Kept
  <2>2. whole[1] = OrZero(v) /\ whole[2] = OrZero(w) /\ whole[3] = OrZero(x) /\ whole[4] = OrZero(y)
    <3>1. q[1] = v /\ q[2] = w /\ q[3] = x /\ q[4] = y
      BY <1>3
    <3> HIDE DEF q
    <3>. QED BY <3>1 DEF OrZero
  <2>3. Triple(whole) = <<First(v, w), Second(w, x), Third(x, y)>>
    BY <2>2 DEF Triple, First, Second, Third
  <2>4. First(v, w) \in 0 .. 255 /\ Second(w, x) \in 0 .. 255 /\ Third(x, y) \in 0 .. 255
    <3>1. \A n \in Int : Low(n) \in 0 .. 255
      BY DEF Low
    <3>2. OrZero(v) \in Int /\ OrZero(w) \in Int /\ OrZero(x) \in Int /\ OrZero(y) \in Int
      BY DEF OrZero, Values
    <3>3. /\ OrZero(v) * 4 + OrZero(w) \div 16 \in Int
          /\ OrZero(w) * 16 + OrZero(x) \div 4 \in Int
          /\ OrZero(x) * 64 + OrZero(y) \in Int
      BY <3>2
    <3>. QED BY <3>1, <3>3 DEF First, Second, Third
  <2> HIDE DEF whole, q
  <2>5. PICK t \in Seq(0 .. 255) : /\ t = Triple(whole) /\ Len(t) = 3
                                   /\ t[1] = First(v, w) /\ t[2] = Second(w, x)
                                   /\ t[3] = Third(x, y)
    <3>1. \A a, b, d \in 0 .. 255 : /\ <<a, b, d>> \in Seq(0 .. 255) /\ Len(<<a, b, d>>) = 3
                                    /\ <<a, b, d>>[1] = a /\ <<a, b, d>>[2] = b
                                    /\ <<a, b, d>>[3] = d
      OBVIOUS
    <3>2. PICK a \in 0 .. 255, b \in 0 .. 255, e \in 0 .. 255 :
            a = First(v, w) /\ b = Second(w, x) /\ e = Third(x, y)
      BY <2>4
    <3>3. Triple(whole) = <<a, b, e>>
      BY <2>3, <3>2
    <3>4. /\ <<a, b, e>> \in Seq(0 .. 255) /\ Len(<<a, b, e>>) = 3
          /\ <<a, b, e>>[1] = a /\ <<a, b, e>>[2] = b /\ <<a, b, e>>[3] = e
      BY <3>1
    <3>. QED BY <3>2, <3>3, <3>4
  <2>6. PICK k \in 1 .. 3 : k = Kept(q)
    BY <2>1
  <2>7. /\ SubSeq(t, 1, k) \in Seq(0 .. 255) /\ Len(SubSeq(t, 1, k)) = k
        /\ \A i \in 1 .. k : SubSeq(t, 1, k)[i] = t[i]
    <3>1. k \in 0 .. Len(t)
      BY <2>5
    <3>. QED BY ZenonT(30), <3>1, PrefixIs
  <2>8. out = SubSeq(t, 1, k)
    BY <2>5, <2>6
  <2> HIDE DEF out
  <2>9. Kept(<<v, w, x, y>>) = k
    BY <1>3, <2>6
  <2>10. /\ out \in Seq(0 .. 255) /\ Len(out) = k
         /\ \A i \in 1 .. k : out[i] = t[i]
    BY <2>7, <2>8
  <2>. QED BY <2>5, <2>9, <2>10 DEF Adds
<1>7. ~Refused(q) => s = State(<<>>, o \o out, fin, FALSE)
  <2> HIDE DEF q, out, s
  <2>. QED BY <1>2, <1>4
<1> HIDE DEF out, q, s
<1>9. s = DecodeOne(State(<<v, w, x>>, o, FALSE, FALSE), c)
  BY <1>8 DEF s
<1>. QED BY <1>3, <1>5, <1>6, <1>7, <1>9 DEF Completed, fin

\* The state after n characters, then after n + 4.
LEMMA FeedFour ==
  ASSUME NEW text \in Seq(Codes), NEW d, Runs(d, text),
         NEW n \in Nat, n + 4 <= Len(text), NEW o, d[n] = State(<<>>, o, FALSE, FALSE),
         NEW v, v = b64_val(text[n + 1]), NEW w, w = b64_val(text[n + 2]),
         NEW x, x = b64_val(text[n + 3]), NEW y, y = b64_val(text[n + 4])
  PROVE  Completed(d[n + 4], o, v, w, x, y)
<1>1. /\ text[n + 1] \in Codes /\ text[n + 2] \in Codes
      /\ text[n + 3] \in Codes /\ text[n + 4] \in Codes
  <2>1. \A i \in 1 .. Len(text) : text[i] \in Codes
    OBVIOUS
  <2>2. /\ n + 1 \in 1 .. Len(text) /\ n + 2 \in 1 .. Len(text)
        /\ n + 3 \in 1 .. Len(text) /\ n + 4 \in 1 .. Len(text)
    OBVIOUS
  <2>. QED BY <2>1, <2>2
<1>2. v \in Values /\ w \in Values /\ x \in Values /\ y \in Values
  BY <1>1, ValueIs
<1>3. /\ d[n + 1] = DecodeOne(d[n], text[n + 1]) /\ d[n + 2] = DecodeOne(d[n + 1], text[n + 2])
      /\ d[n + 3] = DecodeOne(d[n + 2], text[n + 3]) /\ d[n + 4] = DecodeOne(d[n + 3], text[n + 4])
  <2>1. /\ n \in 0 .. Len(text) - 1 /\ n + 1 \in 0 .. Len(text) - 1
        /\ n + 2 \in 0 .. Len(text) - 1 /\ n + 3 \in 0 .. Len(text) - 1
        /\ (n + 1) + 1 = n + 2 /\ (n + 2) + 1 = n + 3 /\ (n + 3) + 1 = n + 4
    OBVIOUS
  <2>. QED BY <2>1 DEF Runs
<1>4. v \in Int /\ w \in Int /\ x \in Int
  BY <1>2, ValuesAre
<1>5. d[n + 1] = State(<<v>>, o, FALSE, FALSE)
  <2>1. <<>> \in Seq(Int) /\ Len(<<>>) < 3 /\ Append(<<>>, v) = <<v>>
    BY <1>4, AppendOne
  <2>2. DecodeOne(State(<<>>, o, FALSE, FALSE), text[n + 1])
          = State(Append(<<>>, v), o, FALSE, FALSE)
    BY ZenonT(30), <1>2, <2>1, Collects
  <2>. QED BY <1>3, <2>1, <2>2
<1>6. d[n + 2] = State(<<v, w>>, o, FALSE, FALSE)
  <2>1. <<v>> \in Seq(Int) /\ Len(<<v>>) < 3 /\ Append(<<v>>, w) = <<v, w>>
    <3>1. <<v>> \in Seq(Int) /\ Len(<<v>>) = 1
      BY <1>4, AppendOne
    <3>2. Append(<<v>>, w) = <<v, w>>
      BY <1>4, AppendTwo
    <3>. QED BY <3>1, <3>2
  <2>2. DecodeOne(State(<<v>>, o, FALSE, FALSE), text[n + 2])
          = State(Append(<<v>>, w), o, FALSE, FALSE)
    BY ZenonT(30), <1>2, <2>1, Collects
  <2>. QED BY <1>3, <1>5, <2>1, <2>2
<1>7. d[n + 3] = State(<<v, w, x>>, o, FALSE, FALSE)
  <2>1. <<v, w>> \in Seq(Int) /\ Len(<<v, w>>) < 3 /\ Append(<<v, w>>, x) = <<v, w, x>>
    <3>1. <<v, w>> \in Seq(Int) /\ Len(<<v, w>>) = 2
      BY <1>4, AppendTwo
    <3>2. Append(<<v, w>>, x) = <<v, w, x>>
      BY <1>4, AppendThree
    <3>. QED BY <3>1, <3>2
  <2>2. DecodeOne(State(<<v, w>>, o, FALSE, FALSE), text[n + 3])
          = State(Append(<<v, w>>, x), o, FALSE, FALSE)
    BY ZenonT(30), <1>2, <2>1, Collects
  <2>. QED BY <1>3, <1>6, <2>1, <2>2
<1>8. Completed(DecodeOne(State(<<v, w, x>>, o, FALSE, FALSE), text[n + 4]), o, v, w, x, y)
  BY <1>2, Completes
<1>. QED BY <1>3, <1>7, <1>8

\* One, two or three characters are not the end.
LEMMA FeedLess ==
  ASSUME NEW text \in Seq(Codes), NEW d, Runs(d, text),
         NEW n \in Nat, NEW r \in 1 .. 3, n + r = Len(text),
         NEW o, d[n] = State(<<>>, o, FALSE, FALSE)
  PROVE  ~d[n + r].finished /\ d[n + r].quartet # <<>>
<1> DEFINE at(k) == \E q \in Seq(Int) : Len(q) = k /\ d[n + k] = State(q, o, FALSE, FALSE)
<1>1. ASSUME NEW k \in 0 .. 2, at(k), n + k + 1 <= Len(text) PROVE at(k + 1)
  <2>1. PICK q \in Seq(Int) : Len(q) = k /\ d[n + k] = State(q, o, FALSE, FALSE)
    BY <1>1
  <2>2. n + k \in 0 .. Len(text) - 1 /\ (n + k) + 1 = n + (k + 1) /\ n + (k + 1) \in 1 .. Len(text)
    BY <1>1
  <2>3. d[n + (k + 1)] = DecodeOne(d[n + k], text[n + (k + 1)]) /\ text[n + (k + 1)] \in Codes
    BY <2>2 DEF Runs
  <2>4. PICK v \in Values : v = b64_val(text[n + (k + 1)])
    BY <2>3, ValueIs
  <2>5. d[n + (k + 1)] = State(Append(q, v), o, FALSE, FALSE)
    <3>1. Len(q) < 3
      BY <2>1
    <3>2. DecodeOne(State(q, o, FALSE, FALSE), text[n + (k + 1)])
            = State(Append(q, v), o, FALSE, FALSE)
      BY ZenonT(30), <2>4, <3>1, Collects
    <3>. QED BY <2>1, <2>3, <3>2
  <2>6. Append(q, v) \in Seq(Int) /\ Len(Append(q, v)) = k + 1
    <3>1. v \in Int
      BY ValuesAre
    <3>. QED BY <2>1, <3>1, AppendProperties
  <2>. QED BY <2>5, <2>6
<1>2. at(0)
  <2>1. <<>> \in Seq(Int) /\ Len(<<>>) = 0 /\ n + 0 = n
    OBVIOUS
  <2>. QED BY <2>1
<1> HIDE DEF at
<1>3. at(1)
  BY <1>1, <1>2
<1>4. r >= 2 => at(2)
  BY <1>1, <1>3
<1>5. r >= 3 => at(3)
  BY <1>1, <1>4
<1>6. at(r)
  BY <1>3, <1>4, <1>5
<1>7. PICK q \in Seq(Int) : Len(q) = r /\ d[n + r] = State(q, o, FALSE, FALSE)
  BY <1>6 DEF at
<1>8. q # <<>>
  BY <1>7
<1>. QED BY <1>7, <1>8 DEF State

(***************************************************************************)
(* The normal form of a text                                               *)
(***************************************************************************)
LEMMA ElementsOf ==
  ASSUME NEW S, NEW text \in Seq(S)
  PROVE  /\ Len(text) \in Nat /\ DOMAIN text = 1 .. Len(text)
         /\ \A i \in 1 .. Len(text) : text[i] \in S
  OBVIOUS

LEMMA SmallestOf ==
  ASSUME NEW T, T \subseteq Nat, T # {}
  PROVE  Min(T) \in T /\ \A y \in T : Min(T) <= y
<1>1. PICK x \in T : \A y \in T : ~(<<y, x>> \in OpToRel(<, Nat))
  BY NatLessThanWellFounded, WFMin
<1>2. \A y \in T : x <= y
  <2>1. x \in Nat /\ \A y \in T : y \in Nat
    OBVIOUS
  <2>2. \A y \in T : ~(y < x)
    BY <1>1, <2>1 DEF OpToRel
  <2>. QED BY <2>1, <2>2
<1>. QED BY <1>2 DEF Min

Places(text) == {i \in 0 .. Len(text) - Len(Marker) :
                   \A k \in DOMAIN Marker : text[i + k] = Marker[k]}

LEMMA MarkerIs ==
  DOMAIN Marker = 1 .. 7 /\ Len(Marker) = 7 /\ Marker[7] = 44 /\ Marker \in Seq(1 .. 255)
  BY DEF Marker

LEMMA PayloadIs ==
  ASSUME NEW text
  PROVE  Payload(text) = IF Places(text) = {} THEN text
                         ELSE SubSeq(text, Min(Places(text)) + Len(Marker) + 1, Len(text))
  BY DEF Payload, Places

LEMMA NoMarker ==
  ASSUME NEW S, NEW text \in Seq(S), \A i \in 1 .. Len(text) : text[i] # 44
  PROVE  Payload(text) = text
<1>1. ASSUME NEW i \in Places(text) PROVE FALSE
  <2>1. Len(text) \in Nat
    OBVIOUS
  <2>2. i \in 0 .. Len(text) - 7 /\ text[i + 7] = 44
    BY <1>1, MarkerIs DEF Places
  <2>3. i + 7 \in 1 .. Len(text)
    BY <2>1, <2>2
  <2>. QED BY <2>2, <2>3
<1>2. Places(text) = {}
  BY <1>1
<1>. QED BY <1>2, PayloadIs

LEMMA BehindMarker ==
  ASSUME NEW text \in Seq(1 .. 255)
  PROVE  Payload(Marker \o text) = text
<1> DEFINE all == Marker \o text
<1>1. Len(text) \in Nat /\ \A i \in 1 .. Len(text) : text[i] \in 1 .. 255
  BY ElementsOf
<1>2. /\ all \in Seq(1 .. 255) /\ Len(all) = 7 + Len(text)
      /\ \A i \in 1 .. 7 + Len(text) : all[i] = IF i <= 7 THEN Marker[i] ELSE text[i - 7]
  <2>1. \A a, b \in Seq(1 .. 255) :
          /\ a \o b \in Seq(1 .. 255) /\ Len(a \o b) = Len(a) + Len(b)
          /\ \A i \in 1 .. Len(a) + Len(b) : (a \o b)[i] =
               IF i <= Len(a) THEN a[i] ELSE b[i - Len(a)]
    BY ConcatProperties
  <2>2. PICK a \in Seq(1 .. 255) : a = Marker /\ Len(a) = 7
    BY MarkerIs
  <2>3. /\ a \o text \in Seq(1 .. 255) /\ Len(a \o text) = Len(a) + Len(text)
        /\ \A i \in 1 .. Len(a) + Len(text) : (a \o text)[i] =
             IF i <= Len(a) THEN a[i] ELSE text[i - Len(a)]
    BY <2>1
  <2>4. all = a \o text
    BY <2>2
  <2>. QED BY <2>2, <2>3, <2>4
<1> HIDE DEF all
<1>3. 0 \in Places(all)
  <2>1. 0 \in 0 .. Len(all) - 7
    BY <1>1, <1>2
  <2>2. \A k \in 1 .. 7 : all[0 + k] = Marker[k]
    BY <1>1, <1>2
  <2>. QED BY <2>1, <2>2, MarkerIs DEF Places
<1>4. Places(all) \subseteq Nat
  BY <1>1, <1>2, MarkerIs DEF Places
<1>5. Min(Places(all)) = 0
  <2>1. Min(Places(all)) \in Places(all) /\ Min(Places(all)) <= 0
    BY <1>3, <1>4, SmallestOf
  <2>. QED BY <1>4, <2>1
<1>6. Payload(all) = SubSeq(all, 8, Len(all))
  <2>1. 0 + Len(Marker) + 1 = 8
    BY MarkerIs
  <2>. QED BY <1>3, <1>5, <2>1, PayloadIs
<1>7. /\ SubSeq(all, 8, 7 + Len(text)) \in Seq(1 .. 255)
      /\ Len(SubSeq(all, 8, 7 + Len(text))) = Len(text)
      /\ \A i \in 1 .. Len(text) : SubSeq(all, 8, 7 + Len(text))[i] = text[i]
  <2>1. PICK m \in Int, n \in Int : m = 8 /\ n = 7 + Len(text)
    BY <1>1
  <2>2. \A i \in m .. n : all[i] \in 1 .. 255
    <3>1. \A i \in 1 .. Len(all) : all[i] \in 1 .. 255
      BY <1>2, ElementsOf
    <3>2. \A i \in m .. n : i \in 1 .. Len(all)
      BY <1>1, <1>2, <2>1
    <3>. QED BY <3>1, <3>2
  <2>3. /\ SubSeq(all, m, n) \in Seq(1 .. 255)
        /\ Len(SubSeq(all, m, n)) = IF m <= n THEN n - m + 1 ELSE 0
        /\ \A i \in 1 .. n - m + 1 : SubSeq(all, m, n)[i] = all[m + i - 1]
    BY <2>2, SubSeqProperties
  <2>4. n - m + 1 = Len(text) /\ (IF m <= n THEN n - m + 1 ELSE 0) = Len(text)
    BY <1>1, <2>1
  <2>5. ASSUME NEW i \in 1 .. Len(text) PROVE all[m + i - 1] = text[i]
    <3>1. m + i - 1 \in 1 .. 7 + Len(text) /\ ~(m + i - 1 <= 7) /\ (m + i - 1) - 7 = i
      BY <1>1, <2>1
    <3>. QED BY <1>2, <3>1
  <2>. QED BY <2>1, <2>3, <2>4, <2>5
<1>8. SubSeq(all, 8, 7 + Len(text)) = text
  BY <1>7, SeqEqual
<1>. QED BY <1>2, <1>6, <1>8 DEF all

LEMMA PayloadType ==
  ASSUME NEW text \in Seq(1 .. 255) PROVE Payload(text) \in Seq(1 .. 255)
<1>1. CASE Places(text) = {}
  BY <1>1, PayloadIs
<1>2. CASE Places(text) # {}
  <2>1. Len(text) \in Nat /\ \A i \in 1 .. Len(text) : text[i] \in 1 .. 255
    BY ElementsOf
  <2>2. Places(text) \subseteq Nat
    BY <2>1, MarkerIs DEF Places
  <2>3. PICK m \in Nat : m = Min(Places(text))
    BY <1>2, <2>2, SmallestOf
  <2>4. PICK a \in Int, n \in Int : a = m + 8 /\ n = Len(text)
    BY <2>1
  <2>5. \A i \in a .. n : text[i] \in 1 .. 255
    BY <2>1, <2>4
  <2>6. SubSeq(text, a, n) \in Seq(1 .. 255)
    BY <2>5, SubSeqProperties
  <2>7. m + Len(Marker) + 1 = a
    BY <2>4, MarkerIs
  <2>. QED BY <1>2, <2>3, <2>4, <2>6, <2>7, PayloadIs
<1>. QED BY <1>1, <1>2

Plain(load) == [i \in DOMAIN load |->
                  IF load[i] = 45 THEN 43 ELSE IF load[i] = 95 THEN 47 ELSE load[i]]
Padded(kept) ==
  kept \o CASE Len(kept) % 4 = 2 -> <<Pad, Pad>> [] Len(kept) % 4 = 3 -> <<Pad>>
            [] OTHER -> <<>>

LEMMA NormalIs ==
  ASSUME NEW text
  PROVE  normalize_b64(text) = Padded(Only(Plain(Payload(text)), Codes))
<1>1. isalnum \cup {43, 47, Pad} = Codes
  BY DEF Codes, Alphabet
<1>. QED BY <1>1 DEF normalize_b64, Padded, Plain

LEMMA PlainType ==
  ASSUME NEW load \in Seq(1 .. 255)
  PROVE  /\ Plain(load) \in Seq(1 .. 255) /\ Len(Plain(load)) = Len(load)
         /\ \A i \in 1 .. Len(load) : Plain(load)[i] =
              IF load[i] = 45 THEN 43 ELSE IF load[i] = 95 THEN 47 ELSE load[i]
<1>1. Len(load) \in Nat /\ DOMAIN load = 1 .. Len(load)
  OBVIOUS
<1>2. \A i \in 1 .. Len(load) : load[i] \in 1 .. 255
  BY ElementsOf
<1>3. \A i \in 1 .. Len(load) :
        (IF load[i] = 45 THEN 43 ELSE IF load[i] = 95 THEN 47 ELSE load[i]) \in 1 .. 255
  BY <1>2
<1>4. Plain(load) = [i \in 1 .. Len(load) |->
                       IF load[i] = 45 THEN 43 ELSE IF load[i] = 95 THEN 47 ELSE load[i]]
  BY <1>1 DEF Plain
<1>. QED BY <1>1, <1>3, <1>4

LEMMA NormalType ==
  ASSUME NEW text \in Seq(1 .. 255) PROVE normalize_b64(text) \in Seq(Codes)
<1> DEFINE kept == Only(Plain(Payload(text)), Codes)
<1>1. Plain(Payload(text)) \in Seq(1 .. 255)
  BY PayloadType, PlainType
<1>2. kept \in Seq((1 .. 255) \cap Codes)
  BY <1>1, OnlyType
<1>3. (1 .. 255) \cap Codes = Codes
  BY PadApart
<1> HIDE DEF kept
<1>4. kept \in Seq(Codes)
  BY <1>2, <1>3
<1>5. <<>> \in Seq(Codes) /\ <<Pad>> \in Seq(Codes) /\ <<Pad, Pad>> \in Seq(Codes)
  <2>1. Pad \in Codes
    BY DEF Codes
  <2>. QED BY <2>1
<1>6. (CASE Len(kept) % 4 = 2 -> <<Pad, Pad>> [] Len(kept) % 4 = 3 -> <<Pad>>
         [] OTHER -> <<>>) \in Seq(Codes)
  BY <1>5
<1>7. Padded(kept) \in Seq(Codes)
  BY <1>4, <1>6, ConcatProperties DEF Padded
<1>. QED BY <1>7, NormalIs DEF kept

\* What reads like a text, with or without its padding, has that text as its normal form.
ReadsLike(load, text, G, p) ==
  /\ load \in Seq(1 .. 255) /\ text \in Seq(Codes) /\ G \in Nat /\ p \in 0 .. 2
  /\ Len(text) = 4 * G /\ Len(load) = 4 * G - p
  /\ \A i \in 1 .. Len(load) : text[i] =
       IF load[i] = 45 THEN 43 ELSE IF load[i] = 95 THEN 47 ELSE load[i]
  /\ \A i \in 4 * G - p + 1 .. 4 * G : text[i] = Pad

LEMMA NormalText ==
  ASSUME NEW load, NEW text, NEW G, NEW p, ReadsLike(load, text, G, p),
         NEW t, Payload(t) = load
  PROVE  normalize_b64(t) = text
<1> USE DEF ReadsLike
<1> DEFINE plain == Plain(load)
<1>1. PICK m \in Nat : m = Len(load) /\ m = 4 * G - p
  BY ElementsOf
<1>2. /\ plain \in Seq(1 .. 255) /\ Len(plain) = m /\ \A i \in 1 .. m : plain[i] = text[i]
  BY <1>1, PlainType
<1> HIDE DEF plain
<1>3. \A i \in 1 .. m : i \in 1 .. 4 * G /\ plain[i] \in Codes
  <2>1. \A i \in 1 .. 4 * G : text[i] \in Codes
    OBVIOUS
  <2>2. \A i \in 1 .. m : i \in 1 .. 4 * G
    BY <1>1
  <2>. QED BY <1>2, <2>1, <2>2
<1>4. plain \in Seq(Codes)
  <2>1. plain = [i \in 1 .. m |-> plain[i]]
    BY <1>2
  <2>. QED BY SMTT(30), <1>3, <2>1
<1>5. Only(plain, Codes) = plain
  <2>1. m \in 0 .. Len(plain) /\ \A i \in m + 1 .. Len(plain) : plain[i] \notin Codes
    BY <1>2
  <2>2. Only(plain, Codes) = SubSeq(plain, 1, m)
    BY SMTT(30), <1>2, <1>3, <2>1, OnlyBegins
  <2>. QED BY <1>2, <2>2, SubSeqFull
<1> DEFINE pads == CASE m % 4 = 2 -> <<Pad, Pad>> [] m % 4 = 3 -> <<Pad>> [] OTHER -> <<>>
<1>6. pads \in Seq(Codes) /\ Len(pads) = p /\ \A i \in 1 .. p : pads[i] = Pad
  <2>1. Pad \in Codes
    BY DEF Codes
  <2>2. CASE p = 0
    <3>1. m % 4 = 0
      BY <1>1, <2>2
    <3>. QED BY <2>2, <3>1
  <2>3. CASE p = 1
    <3>1. m % 4 = 3
      BY <1>1, <2>3
    <3>. QED BY <2>1, <2>3, <3>1
  <2>4. CASE p = 2
    <3>1. m % 4 = 2
      BY <1>1, <2>4
    <3>. QED BY <2>1, <2>4, <3>1
  <2>. QED BY <2>2, <2>3, <2>4
<1>7. Padded(plain) = plain \o pads
  BY <1>2 DEF Padded
<1> HIDE DEF pads
<1>8. /\ plain \o pads \in Seq(Codes) /\ Len(plain \o pads) = m + p
      /\ \A i \in 1 .. m + p : (plain \o pads)[i] = IF i <= m THEN plain[i] ELSE pads[i - m]
  <2>1. \A a, b \in Seq(Codes) :
          /\ a \o b \in Seq(Codes) /\ Len(a \o b) = Len(a) + Len(b)
          /\ \A i \in 1 .. Len(a) + Len(b) : (a \o b)[i] =
               IF i <= Len(a) THEN a[i] ELSE b[i - Len(a)]
    BY ConcatProperties
  <2>. QED BY <1>2, <1>4, <1>6, <2>1
<1>9. ASSUME NEW i \in 1 .. 4 * G PROVE (plain \o pads)[i] = text[i]
  <2>1. CASE i <= m
    BY <1>1, <1>2, <1>8, <2>1
  <2>2. CASE ~(i <= m)
    <3>1. i - m \in 1 .. p /\ i \in 4 * G - p + 1 .. 4 * G /\ i \in 1 .. m + p
      BY <1>1, <2>2
    <3>. QED BY <1>6, <1>8, <2>2, <3>1
  <2>. QED BY <2>1, <2>2
<1>10. m + p = 4 * G
  BY <1>1
<1>11. plain \o pads = text
  <2>1. PICK a \in Seq(Codes) : a = plain \o pads
    BY <1>8
  <2>2. Len(a) = Len(text) /\ \A i \in 1 .. Len(a) : a[i] = text[i]
    BY <1>8, <1>9, <1>10, <2>1
  <2>3. a = text
    BY <2>2, SeqEqual
  <2>. QED BY <2>1, <2>3
<1>. QED BY <1>5, <1>7, <1>11, NormalIs DEF plain

-----------------------------------------------------------------------------
LEMMA InAGroup ==
  ASSUME NEW G \in Nat, NEW i \in 1 .. 4 * G
  PROVE  \E g \in 1 .. G : i = 4 * g - 3 \/ i = 4 * g - 2 \/ i = 4 * g - 1 \/ i = 4 * g
<1> DEFINE g == (i + 3) \div 4
<1>1. g \in Int /\ 4 * g <= i + 3 /\ i + 3 < 4 * g + 4
  OBVIOUS
<1> HIDE DEF g
<1>2. g \in 1 .. G
  BY <1>1
<1>3. i = 4 * g - 3 \/ i = 4 * g - 2 \/ i = 4 * g - 1 \/ i = 4 * g
  BY <1>1
<1>. QED BY <1>2, <1>3

Pads(data) == 3 - Size3(data, Groups(data))

\* The padding of a text is its end.
LEMMA PadsAtEnd ==
  ASSUME NEW data \in Seq(0 .. 255), data # <<>>
  PROVE  /\ Groups(data) \in Nat \ {0} /\ Pads(data) \in 0 .. 2
         /\ \A i \in 1 .. 4 * Groups(data) - Pads(data) : Text(data)[i] \in Alphabet
         /\ \A i \in 4 * Groups(data) - Pads(data) + 1 .. 4 * Groups(data) : Text(data)[i] = Pad
<1> DEFINE G == Groups(data)
<1>1. Len(data) \in Nat /\ Len(data) # 0
  BY EmptySeq
<1>2. G \in Nat \ {0}
  BY <1>1 DEF Groups
<1> HIDE DEF G
<1>3. Pads(data) \in 0 .. 2
  <2>1. Size3(data, G) \in 1 .. 3
    BY <1>2, GroupCounts DEF G
  <2>. QED BY <2>1 DEF Pads, G
<1>4. ASSUME NEW g \in 1 .. G
      PROVE  /\ Text(data)[4 * g - 3] \in Alphabet /\ Text(data)[4 * g - 2] \in Alphabet
             /\ IF g = G /\ Pads(data) = 2 THEN Text(data)[4 * g - 1] = Pad
                ELSE Text(data)[4 * g - 1] \in Alphabet
             /\ IF g = G /\ Pads(data) >= 1 THEN Text(data)[4 * g] = Pad
                ELSE Text(data)[4 * g] \in Alphabet
  <2>1. /\ Size3(data, g) \in 1 .. 3 /\ \A i \in Nat : Byte(data, i + 1) \in 0 .. 255
        /\ Size3(data, g) < 3 => g = G
    BY GroupCounts DEF G
  <2>2. PICK k \in 1 .. 3 : k = Size3(data, g) /\ (k < 3 => g = G)
    BY <2>1
  <2>3. PICK x \in 0 .. 255, y \in 0 .. 255, z \in 0 .. 255 :
          x = Byte(data, 3 * g - 2) /\ y = Byte(data, 3 * g - 1) /\ z = Byte(data, 3 * g)
    <3>1. /\ 3 * g - 3 \in Nat /\ (3 * g - 3) + 1 = 3 * g - 2
          /\ 3 * g - 2 \in Nat /\ (3 * g - 2) + 1 = 3 * g - 1
          /\ 3 * g - 1 \in Nat /\ (3 * g - 1) + 1 = 3 * g
      BY <1>2
    <3>. QED BY <2>1, <3>1
  <2>4. Four(At4(Text(data), g), x, y, z, k)
    BY <2>2, <2>3, TextIs DEF G
  <2>5. PICK a \in 0 .. 63, b \in 0 .. 63, c \in 0 .. 63, d \in 0 .. 63 :
          /\ a = x \div 4 /\ b = (x % 4) * 16 + y \div 16
          /\ c = (y % 16) * 4 + z \div 64 /\ d = z % 64
    <3>1. x \div 4 \in 0 .. 63 /\ (x % 4) * 16 + y \div 16 \in 0 .. 63
      BY ZenonT(30), SextetRanges
    <3>2. (y % 16) * 4 + z \div 64 \in 0 .. 63
      BY ZenonT(30), SextetRanges
    <3>3. z % 64 \in 0 .. 63
      BY ZenonT(30), SextetRanges
    <3>. QED BY <3>1, <3>2, <3>3
  <2>6. /\ Text(data)[4 * g - 3] = tbl(a) /\ Text(data)[4 * g - 2] = tbl(b)
        /\ Text(data)[4 * g - 1] = IF k >= 2 THEN tbl(c) ELSE Pad
        /\ Text(data)[4 * g] = IF k >= 3 THEN tbl(d) ELSE Pad
    BY <2>4, <2>5 DEF Four, At4
  <2>7. tbl(a) \in Alphabet /\ tbl(b) \in Alphabet /\ tbl(c) \in Alphabet /\ tbl(d) \in Alphabet
    BY ValueOfCode
  <2>8. g = G => k = 3 - Pads(data)
    BY <2>2 DEF Pads, G
  <2>. QED BY <1>3, <2>2, <2>6, <2>7, <2>8
<1>5. ASSUME NEW i \in 1 .. 4 * G - Pads(data) PROVE Text(data)[i] \in Alphabet
  <2>1. i \in 1 .. 4 * G
    BY <1>2, <1>3
  <2>2. PICK g \in 1 .. G : i = 4 * g - 3 \/ i = 4 * g - 2 \/ i = 4 * g - 1 \/ i = 4 * g
    BY <1>2, <2>1, InAGroup
  <2>3. i <= 4 * G - Pads(data)
    BY <1>2, <1>3
  <2>4. i = 4 * g => ~(g = G /\ Pads(data) >= 1)
    BY <1>2, <1>3, <2>3
  <2>5. i = 4 * g - 1 => ~(g = G /\ Pads(data) = 2)
    BY <1>2, <1>3, <2>3
  <2>. QED BY <1>4, <2>2, <2>4, <2>5
<1>6. ASSUME NEW i \in 4 * G - Pads(data) + 1 .. 4 * G PROVE Text(data)[i] = Pad
  <2>1. (i = 4 * G /\ Pads(data) >= 1) \/ (i = 4 * G - 1 /\ Pads(data) = 2)
    <3>1. PICK P \in 0 .. 2 : P = Pads(data)
      BY <1>3
    <3>2. i \in 4 * G - P + 1 .. 4 * G
      BY <3>1
    <3>3. (i = 4 * G /\ P >= 1) \/ (i = 4 * G - 1 /\ P = 2)
      BY <1>2, <3>2
    <3>. QED BY <3>1, <3>3
  <2>2. G \in 1 .. G
    BY <1>2
  <2>. QED BY <1>4, <2>1, <2>2
<1>. QED BY <1>2, <1>3, <1>5, <1>6 DEF G

(***************************************************************************)
(* What was encoded is saved as it was.                                    *)
(***************************************************************************)
LEMMA SeqWider ==
  ASSUME NEW S, NEW R, S \subseteq R, NEW s \in Seq(S) PROVE s \in Seq(R)
  OBVIOUS

LEMMA StateFields ==
  ASSUME NEW q, NEW o, NEW f, NEW g
  PROVE  /\ State(q, o, f, g).quartet = q /\ State(q, o, f, g).out = o
         /\ State(q, o, f, g).finished = f /\ State(q, o, f, g).failed = g
  BY DEF State

LEMMA SomeValues == -2 \in Values /\ \A v \in 0 .. 63 : v \in Values /\ OrZero(v) = v
  BY DEF Values, OrZero

\* What comes next in a sequence makes a prefix of it longer.
Follows(out, s, n, k) ==
  n + k <= Len(s) /\ Len(out) = k /\ \A i \in 1 .. k : out[i] = s[n + i]

LEMMA PrefixGrows ==
  ASSUME NEW S, NEW s \in Seq(S), NEW n \in Nat, NEW k \in Nat,
         NEW out \in Seq(S), Follows(out, s, n, k)
  PROVE  SubSeq(s, 1, n) \o out = SubSeq(s, 1, n + k)
<1>0. Len(s) \in Nat /\ n + k <= Len(s) /\ Len(out) = k /\ \A i \in 1 .. k : out[i] = s[n + i]
  BY ElementsOf DEF Follows
<1>1. PICK a \in Seq(S) : a = SubSeq(s, 1, n) /\ Len(a) = n /\ \A i \in 1 .. n : a[i] = s[i]
  <2>1. PICK m \in 0 .. Len(s) : m = n
    BY <1>0
  <2>2. /\ SubSeq(s, 1, m) \in Seq(S) /\ Len(SubSeq(s, 1, m)) = m
        /\ \A i \in 1 .. m : SubSeq(s, 1, m)[i] = s[i]
    BY PrefixIs
  <2>. QED BY <2>1, <2>2
<1>2. PICK b \in Seq(S) : /\ b = SubSeq(s, 1, n + k) /\ Len(b) = n + k
                          /\ \A i \in 1 .. n + k : b[i] = s[i]
  <2>1. PICK m \in 0 .. Len(s) : m = n + k
    BY <1>0
  <2>2. /\ SubSeq(s, 1, m) \in Seq(S) /\ Len(SubSeq(s, 1, m)) = m
        /\ \A i \in 1 .. m : SubSeq(s, 1, m)[i] = s[i]
    BY PrefixIs
  <2>. QED BY <2>1, <2>2
<1>3. /\ a \o out \in Seq(S) /\ Len(a \o out) = n + k
      /\ \A i \in 1 .. n + k : (a \o out)[i] = IF i <= n THEN a[i] ELSE out[i - n]
  <2>1. \A x, y \in Seq(S) :
          /\ x \o y \in Seq(S) /\ Len(x \o y) = Len(x) + Len(y)
          /\ \A i \in 1 .. Len(x) + Len(y) : (x \o y)[i] =
               IF i <= Len(x) THEN x[i] ELSE y[i - Len(x)]
    BY ConcatProperties
  <2>2. /\ a \o out \in Seq(S) /\ Len(a \o out) = Len(a) + Len(out)
        /\ \A i \in 1 .. Len(a) + Len(out) : (a \o out)[i] =
             IF i <= Len(a) THEN a[i] ELSE out[i - Len(a)]
    BY <2>1
  <2>. QED BY <1>0, <1>1, <2>2
<1>4. PICK c \in Seq(S) : c = a \o out
  BY <1>3
<1>5. ASSUME NEW i \in 1 .. n + k PROVE c[i] = b[i]
  <2>1. CASE i <= n
    BY <1>1, <1>2, <1>3, <1>4, <2>1
  <2>2. CASE ~(i <= n)
    <3>1. i - n \in 1 .. k /\ n + (i - n) = i
      BY <2>2
    <3>. QED BY <1>0, <1>2, <1>3, <1>4, <2>2, <3>1
  <2>. QED BY <2>1, <2>2
<1>6. c = b
  BY <1>2, <1>3, <1>4, <1>5, SeqEqual
<1>. QED BY <1>1, <1>2, <1>4, <1>6

LEMMA CapIs ==
  ASSUME NEW text \in Seq(Codes) PROVE DecodeCap(text) = (Len(text) \div 4) * 3 + 3
<1>1. Len(text) \in Nat /\ \A i \in 1 .. Len(text) : text[i] \in Codes
  BY ElementsOf
<1>2. \A c \in Codes : c \in (1 .. 255) \ Space
  BY PadApart
<1>3. PICK m \in 0 .. Len(text) : m = Len(text)
  BY <1>1
<1>4. \A i \in 1 .. m : text[i] \in (1 .. 255) \ Space
  BY <1>1, <1>2, <1>3
<1>5. \A i \in m + 1 .. Len(text) : text[i] \notin (1 .. 255) \ Space
  BY <1>1, <1>3
<1>6. Only(text, (1 .. 255) \ Space) = SubSeq(text, 1, m)
  BY ZenonT(30), <1>4, <1>5, OnlyBegins
<1>7. Only(text, (1 .. 255) \ Space) = text
  BY <1>3, <1>6, SubSeqFull
<1>. QED BY <1>7 DEF DecodeCap

\* A group of the text gives the bytes that it stands for.
ReadSoFar(s, data, n) == s = State(<<>>, SubSeq(data, 1, n), FALSE, FALSE)
ReadTo(s, data, n) == s.quartet = <<>> /\ s.out = SubSeq(data, 1, n) /\ ~s.failed

LEMMA GroupReadBack ==
  ASSUME NEW data \in Seq(0 .. 255), NEW g \in 1 .. Groups(data), NEW d, Runs(d, Text(data)),
         ReadSoFar(d[4 * (g - 1)], data, 3 * (g - 1))
  PROVE  /\ ReadTo(d[4 * g], data, 3 * (g - 1) + Size3(data, g))
         /\ Size3(data, g) = 3 => ReadSoFar(d[4 * g], data, 3 * (g - 1) + Size3(data, g))
<1>00. PICK n : n = 3 * (g - 1)
  OBVIOUS
<1>01. PICK k \in 1 .. 3 : k = Size3(data, g)
  BY GroupCounts
<1>02. d[4 * (g - 1)] = State(<<>>, SubSeq(data, 1, n), FALSE, FALSE)
  BY <1>00 DEF ReadSoFar
<1> DEFINE text == Text(data)
           m == 4 * (g - 1)
<1>0. Len(data) \in Nat /\ Groups(data) \in Nat /\ g \in Nat /\ g >= 1 /\ n \in Nat /\ m \in Nat
  <2>1. Len(data) \in Nat
    BY ElementsOf
  <2>2. Groups(data) \in Nat
    BY <2>1 DEF Groups
  <2>. QED BY <1>00, <2>1, <2>2
<1>1. text \in Seq(Codes) /\ Len(text) = 4 * Groups(data)
  BY TextIs
<1>2. n + k <= Len(data) /\ \A i \in Nat : Byte(data, i + 1) \in 0 .. 255
  BY <1>00, <1>01, GroupCounts
<1>3. PICK x \in 0 .. 255, y \in 0 .. 255, z \in 0 .. 255 :
        x = Byte(data, 3 * g - 2) /\ y = Byte(data, 3 * g - 1) /\ z = Byte(data, 3 * g)
  <2>1. /\ 3 * g - 3 \in Nat /\ (3 * g - 3) + 1 = 3 * g - 2
        /\ 3 * g - 2 \in Nat /\ (3 * g - 2) + 1 = 3 * g - 1
        /\ 3 * g - 1 \in Nat /\ (3 * g - 1) + 1 = 3 * g
    BY <1>0
  <2>. QED BY <1>2, <2>1
<1>4. /\ x = data[n + 1] /\ (k >= 2 => y = data[n + 2]) /\ (k >= 3 => z = data[n + 3])
  <2>1. /\ n + 1 = 3 * g - 2 /\ n + 1 <= Len(data)
        /\ n + 2 = 3 * g - 1 /\ (k >= 2 => n + 2 <= Len(data))
        /\ n + 3 = 3 * g /\ (k >= 3 => n + 3 <= Len(data))
    BY <1>0, <1>00, <1>2
  <2>. QED BY <1>3, <2>1 DEF Byte
<1>5. Four(At4(text, g), x, y, z, k)
  BY <1>01, <1>3, TextIs
<1>6. PICK a \in 0 .. 63, b \in 0 .. 63, c \in 0 .. 63, e \in 0 .. 63 :
        /\ a = x \div 4 /\ b = (x % 4) * 16 + y \div 16
        /\ c = (y % 16) * 4 + z \div 64 /\ e = z % 64
  <2>1. x \div 4 \in 0 .. 63 /\ (x % 4) * 16 + y \div 16 \in 0 .. 63
    BY ZenonT(30), SextetRanges
  <2>2. (y % 16) * 4 + z \div 64 \in 0 .. 63
    BY ZenonT(30), SextetRanges
  <2>3. z % 64 \in 0 .. 63
    BY ZenonT(30), SextetRanges
  <2>. QED BY <2>1, <2>2, <2>3
<1>7. x = Low(a * 4 + b \div 16) /\ y = Low(b * 16 + c \div 4) /\ z = Low(c * 64 + e)
  <2>1. GivesBack(x, y, z)
    BY TripleOfBytes
  <2>. QED BY <1>6, <2>1 DEF GivesBack
<1>8. /\ text[4 * g - 3] = tbl(a) /\ text[4 * g - 2] = tbl(b)
      /\ text[4 * g - 1] = IF k >= 2 THEN tbl(c) ELSE Pad
      /\ text[4 * g] = IF k >= 3 THEN tbl(e) ELSE Pad
  BY <1>5, <1>6 DEF Four, At4
<1>9. /\ m + 1 = 4 * g - 3 /\ m + 2 = 4 * g - 2 /\ m + 3 = 4 * g - 1 /\ m + 4 = 4 * g
      /\ m + 4 <= Len(text)
  BY <1>0, <1>1
<1>10. PICK v \in Values, w \in Values, p \in Values, q \in Values :
         /\ v = a /\ w = b /\ p = IF k >= 2 THEN c ELSE -2
         /\ q = IF k >= 3 THEN e ELSE -2
  <2>1. a \in Values /\ b \in Values
    BY SomeValues
  <2>2. (IF k >= 2 THEN c ELSE -2) \in Values /\ (IF k >= 3 THEN e ELSE -2) \in Values
    BY ZenonT(30), SomeValues
  <2>. QED BY <2>1, <2>2
<1>11. /\ v = b64_val(text[m + 1]) /\ w = b64_val(text[m + 2])
       /\ p = b64_val(text[m + 3]) /\ q = b64_val(text[m + 4])
  <2>1. b64_val(tbl(a)) = a /\ b64_val(tbl(b)) = b /\ b64_val(tbl(c)) = c /\ b64_val(tbl(e)) = e
    BY ValueOfCode
  <2>. QED BY <1>8, <1>9, <1>10, <2>1, PadApart
<1> HIDE DEF text, m
<1>12. Completed(d[m + 4], SubSeq(data, 1, n), v, w, p, q)
  <2>1. d[m] = State(<<>>, SubSeq(data, 1, n), FALSE, FALSE)
    BY <1>02 DEF m
  <2>2. Runs(d, text)
    BY DEF text
  <2>. QED BY <1>0, <1>1, <1>9, <1>11, <2>1, <2>2, FeedFour
<1>13. ~Refused(<<v, w, p, q>>) /\ Kept(<<v, w, p, q>>) = k
  BY <1>10 DEF Refused, Kept
<1>14. PICK out : /\ Adds(out, v, w, p, q)
                  /\ d[m + 4] = State(<<>>, SubSeq(data, 1, n) \o out,
                                      Kept(<<v, w, p, q>>) < 3, FALSE)
  BY <1>12, <1>13 DEF Completed
<1>15. /\ out \in Seq(0 .. 255) /\ Len(out) = k
       /\ out[1] = x /\ (k >= 2 => out[2] = y) /\ (k >= 3 => out[3] = z)
  <2>0. /\ OrZero(v) = a /\ OrZero(w) = b /\ (k >= 2 => OrZero(p) = c)
        /\ (k >= 3 => OrZero(q) = e)
    BY <1>10, SomeValues
  <2>1. First(v, w) = x
    BY <1>7, <2>0 DEF First
  <2>2. k >= 2 => Second(w, p) = y
    BY <1>7, <2>0 DEF Second
  <2>3. k >= 3 => Third(p, q) = z
    <3>1. k >= 3 => k >= 2
      OBVIOUS
    <3>. QED BY <1>7, <2>0, <3>1 DEF Third
  <2>. QED BY <1>13, <1>14, <2>1, <2>2, <2>3 DEF Adds
<1>16. \A i \in 1 .. k : out[i] = data[n + i]
  <2>1. \A i \in 1 .. k : i = 1 \/ (i = 2 /\ k >= 2) \/ (i = 3 /\ k >= 3)
    OBVIOUS
  <2>. QED BY <1>4, <1>15, <2>1
<1>17. SubSeq(data, 1, n) \o out = SubSeq(data, 1, n + k)
  <2>1. n \in Nat /\ k \in Nat /\ n + k <= Len(data)
    BY <1>0, <1>2
  <2>2. Follows(out, data, n, k)
    BY ZenonT(30), <1>15, <1>16, <2>1 DEF Follows
  <2>. QED BY <1>15, <2>1, <2>2, PrefixGrows
<1>18. d[4 * g] = State(<<>>, SubSeq(data, 1, n + k), Kept(<<v, w, p, q>>) < 3, FALSE)
  BY <1>9, <1>14, <1>17
<1>19. ReadTo(d[4 * g], data, n + k)
  <2> DEFINE fin == Kept(<<v, w, p, q>>) < 3
             o == SubSeq(data, 1, n + k)
  <2>1. d[4 * g] = State(<<>>, o, fin, FALSE)
    BY <1>18
  <2> HIDE DEF fin, o
  <2>2. d[4 * g].quartet = <<>> /\ d[4 * g].out = o /\ ~d[4 * g].failed
    BY <2>1 DEF State
  <2>. QED BY <2>2 DEF ReadTo, o
<1>20. k = 3 => ReadSoFar(d[4 * g], data, n + k)
  <2>1. k = 3 => (Kept(<<v, w, p, q>>) < 3) = FALSE
    BY <1>13
  <2>. QED BY <1>18, <2>1 DEF ReadSoFar
<1>. QED BY <1>00, <1>01, <1>19, <1>20

LEMMA DecodesBack ==
  ASSUME NEW data \in Seq(0 .. 255), data # <<>>
  PROVE  base64_decode(Text(data)).ok /\ base64_decode(Text(data)).out = data
<1> DEFINE text == Text(data)
           G == Groups(data)
<1>1. text \in Seq(Codes) /\ Len(text) = 4 * G
  BY TextIs
<1>2. G \in Nat \ {0} /\ Len(data) \in Nat /\ Len(data) <= 3 * G
  <2>1. G \in Nat \ {0}
    BY PadsAtEnd
  <2>2. Len(data) \in Nat
    BY ElementsOf
  <2>. QED BY <2>1, <2>2 DEF Groups
<1>3. PICK d : Runs(d, text) /\ base64_decode(text) = Result(d[Len(text)], DecodeCap(text))
  BY <1>1, DecodeRuns
<1> DEFINE At(g) == ReadSoFar(d[4 * g], data, 3 * g)
           T == {g \in Nat : g < G => At(g)}
<1> HIDE DEF text, G
<1>4. 0 \in T
  <2>1. d[0] = State(<<>>, <<>>, FALSE, FALSE)
    BY <1>3 DEF Runs, Fresh, State
  <2>2. SubSeq(data, 1, 0) = <<>> /\ 4 * 0 = 0 /\ 3 * 0 = 0
    BY SubSeqEmpty
  <2>3. At(0)
    BY <2>1, <2>2 DEF ReadSoFar
  <2> HIDE DEF At
  <2>. QED BY <2>3
<1>5. ASSUME NEW g \in 1 .. G, At(g - 1)
      PROVE  /\ ReadTo(d[4 * g], data, 3 * (g - 1) + Size3(data, g))
             /\ Size3(data, g) = 3 => ReadSoFar(d[4 * g], data, 3 * (g - 1) + Size3(data, g))
  <2>1. /\ ReadSoFar(d[4 * (g - 1)], data, 3 * (g - 1))
        /\ Runs(d, Text(data)) /\ g \in 1 .. Groups(data)
    BY <1>3, <1>5 DEF text, G
  <2>. QED BY <2>1, GroupReadBack
<1>6. ASSUME NEW h \in Nat, h \in T PROVE h + 1 \in T
  <2> SUFFICES ASSUME h + 1 < G PROVE At(h + 1)
    <3> HIDE DEF At
    <3>. QED OBVIOUS
  <2>1. PICK g \in 1 .. G : g = h + 1 /\ g < G /\ g - 1 = h
    BY <1>2
  <2>2. Size3(data, g) = 3
    <3>1. 3 * g < Len(data)
      BY <2>1, GroupCounts DEF G
    <3>. QED BY <1>2, <2>1, <3>1 DEF Size3
  <2>3. At(g - 1)
    <3>1. h < G
      BY <1>2
    <3> HIDE DEF At
    <3>. QED BY <1>6, <2>1, <3>1
  <2>4. ReadSoFar(d[4 * g], data, 3 * (g - 1) + 3)
    BY <1>5, <2>2, <2>3
  <2>5. 3 * (g - 1) + 3 = 3 * g
    BY <1>2
  <2>. QED BY <2>1, <2>4, <2>5
<1>7. \A h \in Nat : h \in T
  <2> HIDE DEF T
  <2>. QED BY <1>4, <1>6, EveryNumber
<1> DEFINE k == Size3(data, G)
<1>8. ReadTo(d[4 * G], data, 3 * (G - 1) + k)
  <2>1. G - 1 \in Nat /\ G - 1 < G /\ G \in 1 .. G
    BY <1>2
  <2>2. At(G - 1)
    <3> HIDE DEF At
    <3>. QED BY <1>7, <2>1
  <2> HIDE DEF At
  <2>. QED BY <1>5, <2>1, <2>2
<1>9. 3 * (G - 1) + k = Len(data)
  <2>1. G \in 1 .. G
    BY <1>2
  <2>2. k \in 1 .. 3 /\ 3 * (G - 1) + k <= Len(data) /\ (k < 3 => Len(data) = 3 * (G - 1) + k)
    BY <2>1, GroupCounts DEF G
  <2>. QED BY <1>2, <2>2
<1> HIDE DEF k
<1>10. SubSeq(data, 1, Len(data)) = data
  BY SubSeqFull
<1>11. DecodeCap(text) = 3 * G + 3
  BY SMTT(30), <1>1, <1>2, CapIs
<1>12. PICK s : s = d[Len(text)] /\ s.quartet = <<>> /\ s.out = data /\ ~s.failed
  <2>1. ReadTo(d[Len(text)], data, Len(data))
    BY <1>1, <1>8, <1>9
  <2>. QED BY <1>10, <2>1 DEF ReadTo
<1>13. (IF Len(data) <= 3 * G + 3 THEN Len(data) ELSE 3 * G + 3) = Len(data)
  BY <1>2
<1>14. Result(s, 3 * G + 3).ok /\ Result(s, 3 * G + 3).out = data
  BY <1>10, <1>12, <1>13 DEF Result
<1>. QED BY <1>3, <1>11, <1>12, <1>14 DEF text

\* Whatever has the text as its normal form is saved as the bytes.
LEMMA SavesBack ==
  ASSUME NEW data \in Seq(0 .. 255), data # <<>>, NEW t, normalize_b64(t) = Text(data)
  PROVE  save_base64_to_file(t) = [rc |-> 0, bin |-> data]
<1>1. base64_decode(Text(data)).ok /\ base64_decode(Text(data)).out = data
  BY DecodesBack
<1>2. Text(data) # <<>>
  <2>1. Len(Text(data)) = 4 * Groups(data) /\ Groups(data) \in Nat \ {0}
    BY TextIs, PadsAtEnd
  <2>. QED BY <2>1
<1>. QED BY <1>1, <1>2 DEF save_base64_to_file

\* With or without padding, in the URL form, and behind a marker.
Coded(text, G, p) ==
  /\ text \in Seq(Codes) /\ G \in Nat /\ p \in 0 .. 2 /\ Len(text) = 4 * G /\ Len(text) >= p
  /\ \A i \in 1 .. 4 * G - p : text[i] \in Alphabet
  /\ \A i \in 4 * G - p + 1 .. 4 * G : text[i] = Pad

LEMMA CodedChars ==
  ASSUME NEW text, NEW G, NEW p, Coded(text, G, p)
  PROVE  /\ \A i \in 1 .. Len(text) :
              text[i] \in 1 .. 255 /\ text[i] # 44 /\ text[i] # 45 /\ text[i] # 95
         /\ text \in Seq(1 .. 255)
<1>1. text \in Seq(Codes)
  BY DEF Coded
<1>2. \A i \in 1 .. Len(text) : text[i] \in Codes
  BY <1>1, ElementsOf
<1>3. Codes \subseteq 1 .. 255
  BY PadApart
<1>4. text \in Seq(1 .. 255)
  BY ZenonT(30), <1>1, <1>3, SeqWider
<1>. QED BY <1>2, <1>4, PadApart

LEMMA NormalSelf ==
  ASSUME NEW text, NEW G, NEW p, Coded(text, G, p), NEW t, Payload(t) = text
  PROVE  normalize_b64(t) = text
<1>1. PICK z \in 0 .. 2 : z = 0
  OBVIOUS
<1>2. \A i \in 1 .. Len(text) : text[i] \in 1 .. 255 /\ text[i] # 45 /\ text[i] # 95
  BY CodedChars
<1>3. text \in Seq(1 .. 255)
  BY CodedChars
<1>4. ReadsLike(text, text, G, z)
  BY <1>1, <1>2, <1>3 DEF Coded, ReadsLike
<1>. QED BY <1>4, NormalText

LEMMA NormalUrl ==
  ASSUME NEW text, NEW G, NEW p, Coded(text, G, p), NEW t,
         t = [i \in DOMAIN text |-> IF text[i] = 43 THEN 45
                                   ELSE IF text[i] = 47 THEN 95 ELSE text[i]]
  PROVE  normalize_b64(t) = text
<1>1. PICK z \in 0 .. 2 : z = 0
  OBVIOUS
<1>2. PICK N \in Nat : N = Len(text) /\ N = 4 * G /\ DOMAIN text = 1 .. N
  BY ElementsOf DEF Coded
<1>3. \A i \in 1 .. N : text[i] \in 1 .. 255 /\ text[i] # 44 /\ text[i] # 45 /\ text[i] # 95
  BY <1>2, CodedChars
<1>4. PICK url : url = [i \in 1 .. N |-> IF text[i] = 43 THEN 45
                                        ELSE IF text[i] = 47 THEN 95 ELSE text[i]]
                 /\ url = t
  BY <1>2
<1>5. /\ url \in Seq(1 .. 255) /\ Len(url) = N
      /\ \A i \in 1 .. N : url[i] =
           IF text[i] = 43 THEN 45 ELSE IF text[i] = 47 THEN 95 ELSE text[i]
  <2>1. \A i \in 1 .. N : (IF text[i] = 43 THEN 45
                           ELSE IF text[i] = 47 THEN 95 ELSE text[i]) \in 1 .. 255
    BY <1>3
  <2>. QED BY <1>4, <2>1
<1>6. \A i \in 1 .. N : url[i] # 44
  BY <1>3, <1>5
<1>7. Payload(url) = url
  BY <1>5, <1>6, NoMarker
<1>8. \A i \in 1 .. N : text[i] =
        IF url[i] = 45 THEN 43 ELSE IF url[i] = 95 THEN 47 ELSE url[i]
  BY <1>3, <1>5
<1>9. ReadsLike(url, text, G, z)
  BY <1>1, <1>2, <1>5, <1>8 DEF Coded, ReadsLike
<1>10. normalize_b64(url) = text
  BY <1>7, <1>9, NormalText
<1>. QED BY <1>4, <1>10

LEMMA Within ==
  ASSUME NEW m \in Nat, NEW n \in Nat, m <= n
  PROVE  m \in 0 .. n /\ \A i \in 1 .. m : i \in 1 .. n
  OBVIOUS

\* bare is the first m characters of text, all but the padding.
Shortened(bare, text, G, p, m) ==
  /\ m \in Nat /\ m = 4 * G - p /\ m <= Len(text)
  /\ bare \in Seq(1 .. 255) /\ Len(bare) = m
  /\ \A i \in 1 .. m : bare[i] = text[i]

LEMMA NormalShort ==
  ASSUME NEW text, NEW G, NEW p, Coded(text, G, p),
         NEW bare, NEW n, Shortened(bare, text, G, p, n)
  PROVE  normalize_b64(bare) = text
<1>0. PICK m : Shortened(bare, text, G, p, m)
  OBVIOUS
<1>00. /\ m \in Nat /\ m = 4 * G - p /\ m <= Len(text)
       /\ bare \in Seq(1 .. 255) /\ Len(bare) = m
       /\ \A i \in 1 .. m : bare[i] = text[i]
  BY <1>0 DEF Shortened
<1>1. \A i \in 1 .. m : bare[i] # 44 /\ bare[i] # 45 /\ bare[i] # 95
  <2>1. Len(text) \in Nat
    BY ElementsOf DEF Coded
  <2>2. ASSUME NEW i \in 1 .. m
        PROVE  bare[i] # 44 /\ bare[i] # 45 /\ bare[i] # 95
    <3>1. i \in 1 .. Len(text)
      BY Zenon, <1>00, <2>1, Within
    <3>2. text[i] # 44 /\ text[i] # 45 /\ text[i] # 95
      BY <3>1, CodedChars
    <3>. QED BY Zenon, <1>00, <3>2
  <2>. QED BY Zenon, <2>2
<1>2. Payload(bare) = bare
  BY <1>00, <1>1, NoMarker
<1>3. \A i \in 1 .. m : text[i] =
        IF bare[i] = 45 THEN 43 ELSE IF bare[i] = 95 THEN 47 ELSE bare[i]
  BY Zenon, <1>00, <1>1
<1>4. ReadsLike(bare, text, G, p)
  BY <1>00, <1>3 DEF Coded, ReadsLike
<1>. QED BY <1>2, <1>4, NormalText

LEMMA NormalBare ==
  ASSUME NEW text, NEW G, NEW p, Coded(text, G, p), NEW t,
         t = Only(text, (1 .. 255) \ {Pad})
  PROVE  normalize_b64(t) = text
<1>1. text \in Seq(Codes) /\ Len(text) \in Nat
  BY ElementsOf DEF Coded
<1>2. PICK m \in Nat : m = 4 * G - p /\ m <= Len(text)
  <2>1. G \in Nat /\ p \in 0 .. 2 /\ Len(text) = 4 * G /\ Len(text) >= p
    BY DEF Coded
  <2>2. 4 * G - p \in Nat /\ 4 * G - p <= 4 * G
    <3>1. \A a \in Nat, b \in 0 .. 2 : 4 * a >= b => 4 * a - b \in Nat /\ 4 * a - b <= 4 * a
      OBVIOUS
    <3>. QED BY <2>1, <3>1
  <2>. QED BY <2>1, <2>2
<1>3. \A i \in 1 .. m : text[i] \in (1 .. 255) \ {Pad}
  <2>1. \A c \in Alphabet : c \in (1 .. 255) \ {Pad}
    BY PadApart DEF Codes
  <2>. QED BY <1>2, <2>1 DEF Coded
<1>4. \A i \in m + 1 .. Len(text) : text[i] \notin (1 .. 255) \ {Pad}
  BY <1>1, <1>2 DEF Coded
<1>5. t = SubSeq(text, 1, m)
  <2>1. m \in 0 .. Len(text)
    BY Zenon, <1>1, <1>2, Within
  <2>2. Only(text, (1 .. 255) \ {Pad}) = SubSeq(text, 1, m)
    BY ZenonT(30), <1>1, <1>3, <1>4, <2>1, OnlyBegins
  <2>. QED BY Zenon, <2>2
<1>6. text \in Seq(1 .. 255)
  BY CodedChars
<1>7. PICK bare \in Seq(1 .. 255) :
        bare = t /\ Len(bare) = m /\ \A i \in 1 .. m : bare[i] = text[i]
  <2>1. /\ SubSeq(text, 1, m) \in Seq(1 .. 255) /\ Len(SubSeq(text, 1, m)) = m
        /\ \A i \in 1 .. m : SubSeq(text, 1, m)[i] = text[i]
    <3>1. m \in 0 .. Len(text)
      BY Zenon, <1>1, <1>2, Within
    <3>. QED BY Zenon, <1>6, <3>1, PrefixIs
  <2>. QED BY <1>5, <2>1
<1>8. normalize_b64(bare) = text
  <2>1. Shortened(bare, text, G, p, m)
    BY Zenon, <1>2, <1>7 DEF Shortened
  <2>. QED BY <2>1, NormalShort
<1>. QED BY <1>7, <1>8

LEMMA SavedAsGiven ==
  ASSUME NEW data \in Seq(0 .. 255), data # <<>>,
         NEW t \in {Text(data), Only(Text(data), (1 .. 255) \ {Pad}),
                    [i \in DOMAIN Text(data) |->
                       IF Text(data)[i] = 43 THEN 45
                       ELSE IF Text(data)[i] = 47 THEN 95 ELSE Text(data)[i]],
                    Marker \o Text(data)}
  PROVE  save_base64_to_file(t) = [rc |-> 0, bin |-> data]
<1>1. Coded(Text(data), Groups(data), Pads(data))
  <2>1. Text(data) \in Seq(Codes) /\ Len(Text(data)) = 4 * Groups(data)
    BY TextIs
  <2>2. /\ Groups(data) \in Nat \ {0} /\ Pads(data) \in 0 .. 2
        /\ \A i \in 1 .. 4 * Groups(data) - Pads(data) : Text(data)[i] \in Alphabet
        /\ \A i \in 4 * Groups(data) - Pads(data) + 1 .. 4 * Groups(data) : Text(data)[i] = Pad
    BY PadsAtEnd
  <2>. QED BY <2>1, <2>2 DEF Coded
<1>2. PICK text : text = Text(data)
  OBVIOUS
<1>3. PICK G, p : Coded(text, G, p)
  BY <1>1, <1>2
<1>4. text \in Seq(1 .. 255) /\ \A i \in 1 .. Len(text) : text[i] # 44
  BY <1>3, CodedChars
<1>5. normalize_b64(t) = text
  <2>1. CASE t = text
    <3>1. Payload(text) = text
      BY <1>4, NoMarker
    <3>. QED BY <1>3, <2>1, <3>1, NormalSelf
  <2>2. CASE t = Marker \o text
    <3>1. Payload(t) = text
      BY <1>4, <2>2, BehindMarker
    <3>. QED BY <1>3, <3>1, NormalSelf
  <2>3. CASE t = [i \in DOMAIN text |-> IF text[i] = 43 THEN 45
                                       ELSE IF text[i] = 47 THEN 95 ELSE text[i]]
    BY SMTT(30), <1>3, <2>3, NormalUrl
  <2>4. CASE t = Only(text, (1 .. 255) \ {Pad})
    BY ZenonT(30), <1>3, <2>4, NormalBare
  <2>. QED BY <1>2, <2>1, <2>2, <2>3, <2>4
<1>. QED BY <1>2, <1>5, SavesBack

(***************************************************************************)
(* What was decoded is, up to spare bits, what would be encoded again.     *)
(***************************************************************************)
\* What four characters give, if they are not refused.
ReadGroup(c, out) ==
  /\ out \in Seq(0 .. 255) /\ Len(out) \in 1 .. 3
  /\ c[1] = tbl(out[1] \div 4)
  /\ Len(out) >= 2 => c[2] = tbl((out[1] % 4) * 16 + out[2] \div 16)
  /\ Len(out) = 3 => Four(c, out[1], out[2], out[3], 3)
  /\ Len(out) < 3 => c[4] = Pad
  /\ Len(out) = 1 => c[3] = Pad

LEMMA GroupRead ==
  ASSUME NEW c1 \in Codes, NEW c2 \in Codes, NEW c3 \in Codes, NEW c4 \in Codes,
         NEW v, v = b64_val(c1), NEW w, w = b64_val(c2),
         NEW x, x = b64_val(c3), NEW y, y = b64_val(c4),
         ~Refused(<<v, w, x, y>>), NEW out, Adds(out, v, w, x, y)
  PROVE  ReadGroup(<<c1, c2, c3, c4>>, out)
<1>1. /\ v \in Values /\ (v = -2 <=> c1 = Pad) /\ (v # -2 => tbl(v) = c1)
      /\ w \in Values /\ (w = -2 <=> c2 = Pad) /\ (w # -2 => tbl(w) = c2)
      /\ x \in Values /\ (x = -2 <=> c3 = Pad) /\ (x # -2 => tbl(x) = c3)
      /\ y \in Values /\ (y = -2 <=> c4 = Pad) /\ (y # -2 => tbl(y) = c4)
  BY ValueIs
<1>2. PICK k \in 1 .. 3 : k = Kept(<<v, w, x, y>>) /\ k = Len(out)
  BY DEF Adds, Kept
<1>3. /\ v # -2 /\ w # -2 /\ (x = -2 => y = -2)
      /\ (k = 1 <=> x = -2) /\ (k = 2 => y = -2) /\ (k = 3 => y # -2)
  BY <1>1, <1>2 DEF Values, Refused, Kept
<1>4. PICK a \in 0 .. 63, b \in 0 .. 63, e \in 0 .. 63, f \in 0 .. 63 :
        a = v /\ b = w /\ e = OrZero(x) /\ f = OrZero(y)
  <2>1. v \in 0 .. 63 /\ w \in 0 .. 63
    BY <1>1, <1>3 DEF Values
  <2>2. OrZero(x) \in 0 .. 63 /\ OrZero(y) \in 0 .. 63
    BY <1>1 DEF Values, OrZero
  <2>. QED BY <2>1, <2>2
<1>5. PICK l, m, n :
        l = Low(a * 4 + b \div 16) /\ m = Low(b * 16 + e \div 4) /\ n = Low(e * 64 + f)
  OBVIOUS
<1>6. /\ l \div 4 = a /\ (l % 4) * 16 + m \div 16 = b
      /\ (m % 16) * 4 + n \div 64 = e /\ n % 64 = f
  <2>1. BytesOf(a, b, e, f, l, m, n)
    BY Zenon, <1>5 DEF BytesOf
  <2>2. ValuesOf(l, m, n, a, b, e, f)
    BY <2>1, BytesOfTriple
  <2>. QED BY Zenon, <2>2 DEF ValuesOf
<1>7. /\ out \in Seq(0 .. 255) /\ out[1] = l /\ (k >= 2 => out[2] = m) /\ (k = 3 => out[3] = n)
  <2>1. OrZero(v) = a /\ OrZero(w) = b
    BY <1>4, SomeValues
  <2>. QED BY <1>2, <1>4, <1>5, <2>1 DEF Adds, First, Second, Third
<1>8. k = 3 => e = x /\ f = y
  BY <1>1, <1>3, <1>4 DEF Values, OrZero
<1>9. c1 = tbl(out[1] \div 4)
  BY <1>1, <1>3, <1>4, <1>6, <1>7
<1>10. k >= 2 => c2 = tbl((out[1] % 4) * 16 + out[2] \div 16)
  BY <1>1, <1>3, <1>4, <1>6, <1>7
<1>11. k = 3 => c3 = tbl((out[2] % 16) * 4 + out[3] \div 64) /\ c4 = tbl(out[3] % 64)
  BY <1>1, <1>3, <1>6, <1>7, <1>8
<1>12. k = 3 => Four(<<c1, c2, c3, c4>>, out[1], out[2], out[3], 3)
  BY <1>9, <1>10, <1>11 DEF Four
<1>13. (k < 3 => c4 = Pad) /\ (k = 1 => c3 = Pad)
  BY <1>1, <1>3
<1>. QED BY <1>2, <1>7, <1>9, <1>10, <1>12, <1>13 DEF ReadGroup

\* The first g groups of a text are whole, and are the bytes of out.
WholeGroups(out, text, g) ==
  \A h \in 1 .. g : Four(At4(text, h), out[3 * h - 2], out[3 * h - 1], out[3 * h], 3)

LEMMA BytesGrow ==
  ASSUME NEW o \in Seq(0 .. 255), NEW g \in Nat, Len(o) = 3 * g, NEW out \in Seq(0 .. 255),
         NEW text, WholeGroups(o, text, g)
  PROVE  /\ o \o out \in Seq(0 .. 255) /\ Len(o \o out) = 3 * g + Len(out)
         /\ WholeGroups(o \o out, text, g)
         /\ \A j \in 1 .. Len(out) : (o \o out)[3 * g + j] = out[j]
<1>1. Len(out) \in Nat
  BY ElementsOf
<1>2. PICK n \in Nat : n = 3 * g
  OBVIOUS
<1>3. PICK p : p = o \o out
  OBVIOUS
<1>4. /\ p \in Seq(0 .. 255) /\ Len(p) = n + Len(out)
      /\ \A i \in 1 .. n + Len(out) : p[i] = IF i <= n THEN o[i] ELSE out[i - n]
  <2>1. \A a, b \in Seq(0 .. 255) :
          /\ a \o b \in Seq(0 .. 255) /\ Len(a \o b) = Len(a) + Len(b)
          /\ \A i \in 1 .. Len(a) + Len(b) : (a \o b)[i] =
               IF i <= Len(a) THEN a[i] ELSE b[i - Len(a)]
    BY ConcatProperties
  <2>2. /\ p \in Seq(0 .. 255) /\ Len(p) = Len(o) + Len(out)
        /\ \A i \in 1 .. Len(o) + Len(out) : p[i] =
             IF i <= Len(o) THEN o[i] ELSE out[i - Len(o)]
    BY Zenon, <1>3, <2>1
  <2>3. Len(o) = n
    BY Zenon, <1>2
  <2>. QED BY Zenon, <2>2, <2>3
<1>5. ASSUME NEW h \in 1 .. g
      PROVE  p[3 * h - 2] = o[3 * h - 2] /\ p[3 * h - 1] = o[3 * h - 1] /\ p[3 * h] = o[3 * h]
  <2>1. /\ 3 * h - 2 \in 1 .. n /\ 3 * h - 1 \in 1 .. n /\ 3 * h \in 1 .. n
    BY <1>2
  <2>2. \A i \in 1 .. n : p[i] = o[i]
    BY <1>1, <1>4
  <2>. QED BY Zenon, <2>1, <2>2
<1>6. WholeGroups(p, text, g)
  BY <1>5 DEF WholeGroups
<1>7. ASSUME NEW j \in 1 .. Len(out) PROVE p[n + j] = out[j]
  <2>1. n + j \in 1 .. n + Len(out) /\ ~(n + j <= n) /\ (n + j) - n = j
    BY <1>1
  <2>. QED BY <1>4, <2>1
<1>. QED BY <1>2, <1>3, <1>4, <1>6, <1>7

\* The bytes of a text that ended with its group l, of which k bytes count.
EndedAt(out, text, l, k) ==
  /\ l \in Nat \ {0} /\ k \in 1 .. 2 /\ out \in Seq(0 .. 255) /\ Len(out) = 3 * (l - 1) + k
  /\ WholeGroups(out, text, l - 1)
  /\ text[4 * l - 3] = tbl(out[3 * l - 2] \div 4)
  /\ k = 2 => text[4 * l - 2] = tbl((out[3 * l - 2] % 4) * 16 + out[3 * l - 1] \div 16)
  /\ k = 1 => text[4 * l - 1] = Pad
  /\ text[4 * l] = Pad
\* The decoder after g groups: it has failed, reads on, or has met the end.
ReadsAt(s, text, g) ==
  \E out \in Seq(0 .. 255) :
    Len(out) = 3 * g /\ WholeGroups(out, text, g) /\ s = State(<<>>, out, FALSE, FALSE)
MetEnd(s, text, g) ==
  \E out, l, k :
    EndedAt(out, text, l, k) /\ l <= g /\ s = State(<<>>, out, TRUE, FALSE)
Phase(s, text, g) == s.failed \/ ReadsAt(s, text, g) \/ MetEnd(s, text, g)

LEMMA Threes ==
  \A n \in Nat : /\ 3 * (n + 1) - 2 = 3 * n + 1 /\ 3 * (n + 1) - 1 = 3 * n + 2
                /\ 3 * (n + 1) = 3 * n + 3 /\ (n + 1) - 1 = n /\ n + 1 \in Nat \ {0}
  OBVIOUS

LEMMA GroupAdded ==
  ASSUME NEW text, NEW all \in Seq(0 .. 255), NEW g \in Nat, NEW k \in 1 .. 3,
         Len(all) = 3 * g + k, WholeGroups(all, text, g),
         NEW out, ReadGroup(At4(text, g + 1), out), Len(out) = k,
         \A j \in 1 .. k : all[3 * g + j] = out[j]
  PROVE  /\ k = 3 => Len(all) = 3 * (g + 1) /\ WholeGroups(all, text, g + 1)
         /\ k < 3 => EndedAt(all, text, g + 1, k)
<1> DEFINE c == At4(text, g + 1)
<1>1. /\ 3 * (g + 1) - 2 = 3 * g + 1 /\ 3 * (g + 1) - 1 = 3 * g + 2 /\ 3 * (g + 1) = 3 * g + 3
      /\ (g + 1) - 1 = g /\ g + 1 \in Nat \ {0}
  BY Zenon, Threes
<1>2. /\ c[1] = text[4 * (g + 1) - 3] /\ c[2] = text[4 * (g + 1) - 2]
      /\ c[3] = text[4 * (g + 1) - 1] /\ c[4] = text[4 * (g + 1)]
  BY DEF At4
<1> HIDE DEF c
<1>3. /\ all[3 * (g + 1) - 2] = out[1] /\ (k >= 2 => all[3 * (g + 1) - 1] = out[2])
      /\ (k = 3 => all[3 * (g + 1)] = out[3])
  <2>1. 1 \in 1 .. k /\ (k >= 2 => 2 \in 1 .. k) /\ (k = 3 => 3 \in 1 .. k)
    OBVIOUS
  <2>2. /\ all[3 * g + 1] = out[1] /\ (k >= 2 => all[3 * g + 2] = out[2])
        /\ (k = 3 => all[3 * g + 3] = out[3])
    BY <2>1
  <2>. QED BY <1>1, <2>2
<1>4. ReadGroup(c, out)
  BY DEF c
<1>5. ASSUME k = 3 PROVE Len(all) = 3 * (g + 1) /\ WholeGroups(all, text, g + 1)
  <2>1. Four(c, all[3 * (g + 1) - 2], all[3 * (g + 1) - 1], all[3 * (g + 1)], 3)
    <3>1. Four(c, out[1], out[2], out[3], 3)
      BY <1>4, <1>5 DEF ReadGroup
    <3>2. all[3 * (g + 1) - 2] = out[1] /\ all[3 * (g + 1) - 1] = out[2] /\ all[3 * (g + 1)] = out[3]
      BY <1>3, <1>5
    <3>. QED BY Zenon, <3>1, <3>2
  <2>2. \A h \in 1 .. g + 1 : h \in 1 .. g \/ h = g + 1
    OBVIOUS
  <2>3. WholeGroups(all, text, g + 1)
    BY Zenon, <2>1, <2>2 DEF WholeGroups, c
  <2>. QED BY <1>5, <2>3
<1>6. ASSUME k < 3 PROVE EndedAt(all, text, g + 1, k)
  <2>1. k \in 1 .. 2 /\ Len(all) = 3 * ((g + 1) - 1) + k
    BY <1>6
  <2>2. WholeGroups(all, text, (g + 1) - 1)
    BY <1>1
  <2>3. /\ c[1] = tbl(out[1] \div 4) /\ c[4] = Pad /\ (k = 1 => c[3] = Pad)
        /\ (k = 2 => c[2] = tbl((out[1] % 4) * 16 + out[2] \div 16))
    BY <1>4, <1>6 DEF ReadGroup
  <2>4. k = 2 => k >= 2
    OBVIOUS
  <2>5. /\ c[1] = tbl(all[3 * (g + 1) - 2] \div 4)
        /\ (k = 2 => c[2] = tbl((all[3 * (g + 1) - 2] % 4) * 16 + all[3 * (g + 1) - 1] \div 16))
    BY Zenon, <1>3, <2>3, <2>4
  <2>. QED BY Zenon, <1>1, <1>2, <1>6, <2>1, <2>2, <2>3, <2>5 DEF EndedAt
<1>. QED BY Zenon, <1>5, <1>6

LEMMA ReadsOn ==
  ASSUME NEW text \in Seq(Codes), NEW d, Runs(d, text), NEW g \in Nat, 4 * g + 4 <= Len(text),
         ReadsAt(d[4 * g], text, g)
  PROVE  Phase(d[4 * g + 4], text, g + 1)
<1>1. PICK o \in Seq(0 .. 255) :
        Len(o) = 3 * g /\ WholeGroups(o, text, g) /\ d[4 * g] = State(<<>>, o, FALSE, FALSE)
  BY DEF ReadsAt
<1>2. PICK n \in Nat : n = 4 * g
  OBVIOUS
<1>3. PICK c1 \in Codes, c2 \in Codes, c3 \in Codes, c4 \in Codes :
        c1 = text[n + 1] /\ c2 = text[n + 2] /\ c3 = text[n + 3] /\ c4 = text[n + 4]
  <2>1. Len(text) \in Nat /\ \A i \in 1 .. Len(text) : text[i] \in Codes
    BY ElementsOf
  <2>2. n + 1 \in 1 .. Len(text) /\ n + 2 \in 1 .. Len(text) /\ n + 3 \in 1 .. Len(text)
        /\ n + 4 \in 1 .. Len(text)
    BY <1>2, <2>1
  <2>. QED BY <2>1, <2>2
<1>4. PICK v, w, x, y : v = b64_val(c1) /\ w = b64_val(c2) /\ x = b64_val(c3) /\ y = b64_val(c4)
  OBVIOUS
<1>5. PICK s : s = d[n + 4]
  OBVIOUS
<1>6. Completed(s, o, v, w, x, y)
  <2>1. d[n] = State(<<>>, o, FALSE, FALSE) /\ n + 4 <= Len(text)
    BY <1>1, <1>2
  <2>2. /\ v = b64_val(text[n + 1]) /\ w = b64_val(text[n + 2])
        /\ x = b64_val(text[n + 3]) /\ y = b64_val(text[n + 4])
    BY Zenon, <1>3, <1>4
  <2>3. Completed(d[n + 4], o, v, w, x, y)
    BY <2>1, <2>2, FeedFour
  <2>. QED BY Zenon, <1>5, <2>3
<1>7. CASE Refused(<<v, w, x, y>>)
  <2>1. s.failed
    BY <1>6, <1>7 DEF Completed
  <2>. QED BY <1>2, <1>5, <2>1 DEF Phase
<1>8. CASE ~Refused(<<v, w, x, y>>)
  <2>1. PICK out : /\ Adds(out, v, w, x, y)
                   /\ s = State(<<>>, o \o out, Kept(<<v, w, x, y>>) < 3, FALSE)
    BY <1>6, <1>8 DEF Completed
  <2>2. ReadGroup(<<c1, c2, c3, c4>>, out)
    BY <1>4, <1>8, <2>1, GroupRead
  <2>3. PICK c : c = <<c1, c2, c3, c4>>
    OBVIOUS
  <2>4. PICK k \in 1 .. 3 : k = Len(out) /\ k = Kept(<<v, w, x, y>>)
    BY <2>1, <2>2 DEF ReadGroup, Adds
  <2>5. PICK all : all = o \o out
    OBVIOUS
  <2>6. /\ all \in Seq(0 .. 255) /\ Len(all) = 3 * g + k /\ WholeGroups(all, text, g)
        /\ \A j \in 1 .. k : all[3 * g + j] = out[j]
    <3>1. out \in Seq(0 .. 255)
      BY <2>2 DEF ReadGroup
    <3>2. /\ o \o out \in Seq(0 .. 255) /\ Len(o \o out) = 3 * g + Len(out)
          /\ WholeGroups(o \o out, text, g)
          /\ \A j \in 1 .. Len(out) : (o \o out)[3 * g + j] = out[j]
      BY SMTT(30), <1>1, <3>1, BytesGrow
    <3>. QED BY Zenon, <2>4, <2>5, <3>2
  <2>7. At4(text, g + 1) = c
    <3>1. /\ 4 * (g + 1) - 3 = n + 1 /\ 4 * (g + 1) - 2 = n + 2
          /\ 4 * (g + 1) - 1 = n + 3 /\ 4 * (g + 1) = n + 4
      BY <1>2
    <3>. QED BY Zenon, <1>3, <2>3, <3>1 DEF At4
  <2>8. /\ k = 3 => Len(all) = 3 * (g + 1) /\ WholeGroups(all, text, g + 1)
        /\ k < 3 => EndedAt(all, text, g + 1, k)
    <3>1. ReadGroup(At4(text, g + 1), out) /\ Len(out) = k
      BY Zenon, <2>2, <2>3, <2>4, <2>7
    <3>. QED BY <2>6, <3>1, GroupAdded
  <2>9. CASE k = 3
    <3>1. (Kept(<<v, w, x, y>>) < 3) = FALSE
      BY <2>4, <2>9
    <3>2. s = State(<<>>, all, FALSE, FALSE)
      BY Zenon, <2>1, <2>5, <3>1
    <3>3. ReadsAt(s, text, g + 1)
      BY Zenon, <2>6, <2>8, <2>9, <3>2 DEF ReadsAt
    <3>. QED BY <1>2, <1>5, <3>3 DEF Phase
  <2>10. CASE k < 3
    <3>1. (Kept(<<v, w, x, y>>) < 3) = TRUE
      BY <2>4, <2>10
    <3>2. s = State(<<>>, all, TRUE, FALSE)
      BY Zenon, <2>1, <2>5, <3>1
    <3>3. g + 1 <= g + 1
      OBVIOUS
    <3>4. MetEnd(s, text, g + 1)
      BY Zenon, <2>8, <2>10, <3>2, <3>3 DEF MetEnd
    <3>. QED BY <1>2, <1>5, <3>4 DEF Phase
  <2>. QED BY <2>9, <2>10
<1>. QED BY <1>7, <1>8

\* Nothing is read any more.
LEMMA StuckFor ==
  ASSUME NEW S, NEW text \in Seq(S), NEW d, Runs(d, text), NEW n \in Nat, NEW k \in 0 .. 4,
         n + k <= Len(text), d[n].finished \/ d[n].failed
  PROVE  d[n + k] = d[n]
<1> DEFINE Same(j) == d[n + j] = d[n]
<1>1. Len(text) \in Nat
  BY ElementsOf
<1>2. ASSUME NEW j \in 0 .. 3, j < k, Same(j) PROVE Same(j + 1)
  <2>1. n + j \in 0 .. Len(text) - 1 /\ (n + j) + 1 = n + (j + 1)
    BY <1>1, <1>2
  <2>2. d[(n + j) + 1] = DecodeOne(d[n + j], text[(n + j) + 1])
    BY <2>1 DEF Runs
  <2>3. DecodeOne(d[n], text[(n + j) + 1]) = d[n]
    BY Stuck
  <2>. QED BY Zenon, <1>2, <2>1, <2>2, <2>3
<1>3. Same(0)
  OBVIOUS
<1> HIDE DEF Same
<1>4. k >= 1 => Same(1)
  BY <1>2, <1>3
<1>5. k >= 2 => Same(2)
  BY <1>2, <1>4
<1>6. k >= 3 => Same(3)
  BY <1>2, <1>5
<1>7. k >= 4 => Same(4)
  BY <1>2, <1>6
<1>8. Same(k)
  BY <1>3, <1>4, <1>5, <1>6, <1>7
<1>. QED BY <1>8 DEF Same

LEMMA PhaseStays ==
  ASSUME NEW s, NEW text, NEW g \in Nat, MetEnd(s, text, g)
  PROVE  s.finished /\ MetEnd(s, text, g + 1)
<1>1. PICK out, l, k : EndedAt(out, text, l, k) /\ l <= g /\ s = State(<<>>, out, TRUE, FALSE)
  BY DEF MetEnd
<1>2. l \in Nat
  BY <1>1 DEF EndedAt
<1>3. l <= g + 1
  BY <1>1, <1>2
<1>4. MetEnd(s, text, g + 1)
  BY Zenon, <1>1, <1>3 DEF MetEnd
<1>5. s.finished
  BY <1>1 DEF State
<1>. QED BY <1>4, <1>5

LEMMA GroupsRead ==
  ASSUME NEW text \in Seq(Codes), NEW d, Runs(d, text)
  PROVE  \A g \in Nat : 4 * g <= Len(text) => Phase(d[4 * g], text, g)
<1> DEFINE At(g) == 4 * g <= Len(text) => Phase(d[4 * g], text, g)
           T == {g \in Nat : At(g)}
<1>1. Len(text) \in Nat
  BY ElementsOf
<1>2. At(0)
  <2>1. <<>> \in Seq(0 .. 255) /\ Len(<<>>) = 3 * 0
    OBVIOUS
  <2>2. WholeGroups(<<>>, text, 0)
    BY DEF WholeGroups
  <2>3. d[0] = State(<<>>, <<>>, FALSE, FALSE)
    BY DEF Runs, Fresh, State
  <2>4. ReadsAt(d[0], text, 0)
    BY Zenon, <2>1, <2>2, <2>3 DEF ReadsAt
  <2>5. 4 * 0 = 0
    OBVIOUS
  <2>. QED BY Zenon, <2>4, <2>5 DEF Phase
<1>3. ASSUME NEW g \in Nat, At(g) PROVE At(g + 1)
  <2> SUFFICES ASSUME 4 * (g + 1) <= Len(text) PROVE Phase(d[4 * (g + 1)], text, g + 1)
    OBVIOUS
  <2>1. 4 * (g + 1) = 4 * g + 4 /\ 4 * g + 4 <= Len(text) /\ 4 * g <= Len(text) /\ 4 * g \in Nat
    BY <1>1
  <2>2. CASE ReadsAt(d[4 * g], text, g)
    <3>1. Phase(d[4 * g + 4], text, g + 1)
      BY <2>1, <2>2, ReadsOn
    <3>. QED BY Zenon, <2>1, <3>1
  <2>3. CASE d[4 * g].failed \/ MetEnd(d[4 * g], text, g)
    <3>1. PICK n \in Nat : n = 4 * g
      BY <2>1
    <3>2. d[n].finished \/ d[n].failed
      BY <2>3, <3>1, PhaseStays
    <3>3. 4 \in 0 .. 4 /\ n + 4 <= Len(text)
      BY <2>1, <3>1
    <3>4. d[n + 4] = d[n]
      BY <3>2, <3>3, StuckFor
    <3>5. d[4 * (g + 1)] = d[4 * g]
      BY Zenon, <2>1, <3>1, <3>4
    <3>6. MetEnd(d[4 * g], text, g) => MetEnd(d[4 * g], text, g + 1)
      BY PhaseStays
    <3>. QED BY Zenon, <2>3, <3>5, <3>6 DEF Phase
  <2>. QED BY Zenon, <1>3, <2>1, <2>2, <2>3 DEF Phase
<1> HIDE DEF At
<1>4. \A g \in Nat : g \in T
  <2>1. 0 \in T
    BY <1>2
  <2>2. \A g \in Nat : g \in T => g + 1 \in T
    BY <1>3
  <2> HIDE DEF T
  <2>. QED BY <2>1, <2>2, EveryNumber
<1>. QED BY <1>4 DEF At

\* What an accepted text is the code of.
Decoded(out, text) ==
  /\ out \in Seq(0 .. 255)
  /\ \/ \E g \in Nat : Len(text) = 4 * g /\ Len(out) = 3 * g /\ WholeGroups(out, text, g)
     \/ \E l, k : EndedAt(out, text, l, k) /\ 4 * l <= Len(text)

LEMMA DecodedIs ==
  ASSUME NEW text \in Seq(Codes), base64_decode(text).ok
  PROVE  Decoded(base64_decode(text).out, text)
<1>1. PICK G \in Nat, r \in 0 .. 3 : Len(text) = 4 * G + r /\ G = Len(text) \div 4
  <2>1. Len(text) \in Nat
    BY ElementsOf
  <2>2. /\ Len(text) \div 4 \in Nat /\ Len(text) % 4 \in 0 .. 3
        /\ Len(text) = 4 * (Len(text) \div 4) + (Len(text) % 4)
    BY <2>1
  <2>. QED BY <2>2
<1>2. PICK d : Runs(d, text) /\ base64_decode(text) = Result(d[Len(text)], DecodeCap(text))
  BY DecodeRuns
<1>3. DecodeCap(text) = G * 3 + 3
  BY Zenon, <1>1, CapIs
<1>4. PICK n \in Nat : n = 4 * G /\ n + r = Len(text) /\ n <= Len(text)
  BY <1>1
<1>5. Phase(d[n], text, G)
  BY <1>2, <1>4, GroupsRead
<1>6. PICK s : s = d[Len(text)]
  OBVIOUS
<1>7. \/ s.failed
      \/ ~s.finished /\ s.quartet # <<>>
      \/ ReadsAt(s, text, G) /\ r = 0
      \/ MetEnd(s, text, G)
  <2>1. CASE ReadsAt(d[n], text, G) /\ r # 0
    <3>1. PICK o : d[n] = State(<<>>, o, FALSE, FALSE)
      BY <2>1 DEF ReadsAt
    <3>2. r \in 1 .. 3
      BY <2>1
    <3>3. ~d[n + r].finished /\ d[n + r].quartet # <<>>
      BY <1>2, <1>4, <3>1, <3>2, FeedLess
    <3>. QED BY Zenon, <1>4, <1>6, <3>3
  <2>2. CASE d[n].failed \/ MetEnd(d[n], text, G)
    <3>1. d[n].finished \/ d[n].failed
      BY <2>2, PhaseStays
    <3>2. r \in 0 .. 4 /\ n + r <= Len(text)
      BY <1>1, <1>4
    <3>3. d[n + r] = d[n]
      BY <1>2, <3>1, <3>2, StuckFor
    <3>. QED BY Zenon, <1>4, <1>6, <2>2, <3>3
  <2>3. CASE ReadsAt(d[n], text, G) /\ r = 0
    <3>1. n = Len(text)
      BY <1>1, <1>4, <2>3
    <3>. QED BY Zenon, <1>6, <2>3, <3>1
  <2>. QED BY Zenon, <1>5, <2>1, <2>2, <2>3 DEF Phase
<1>8. PICK cap \in Nat : cap = G * 3 + 3
  OBVIOUS
<1>9. base64_decode(text) = Result(s, cap)
  BY Zenon, <1>2, <1>3, <1>6, <1>8
<1>10. Result(s, cap).ok
  BY <1>9
<1>11. ~s.failed /\ (s.finished \/ s.quartet = <<>>)
  BY <1>10 DEF Result
<1>12. ASSUME NEW out \in Seq(0 .. 255), Len(out) <= cap, s.out = out
       PROVE  base64_decode(text).out = out
  <2>1. Result(s, cap).out = SubSeq(out, 1, Len(out))
    BY <1>12 DEF Result
  <2>2. SubSeq(out, 1, Len(out)) = out
    BY SubSeqFull
  <2>. QED BY Zenon, <1>9, <2>1, <2>2
<1>13. CASE ReadsAt(s, text, G) /\ r = 0
  <2>1. PICK out \in Seq(0 .. 255) :
          Len(out) = 3 * G /\ WholeGroups(out, text, G) /\ s = State(<<>>, out, FALSE, FALSE)
    BY <1>13 DEF ReadsAt
  <2>2. Len(out) <= cap /\ Len(text) = 4 * G
    BY <1>1, <1>8, <1>13, <2>1
  <2>3. base64_decode(text).out = out
    <3>1. s.out = out
      BY <2>1 DEF State
    <3>. QED BY Zenon, <1>12, <2>1, <2>2, <3>1
  <2>. QED BY Zenon, <2>1, <2>2, <2>3 DEF Decoded
<1>14. CASE MetEnd(s, text, G)
  <2>1. PICK out, l, k : EndedAt(out, text, l, k) /\ l <= G /\ s = State(<<>>, out, TRUE, FALSE)
    BY <1>14 DEF MetEnd
  <2>2. out \in Seq(0 .. 255) /\ l \in Nat \ {0} /\ k \in 1 .. 2 /\ Len(out) = 3 * (l - 1) + k
    BY <2>1 DEF EndedAt
  <2>3. Len(out) <= cap /\ 4 * l <= Len(text)
    BY <1>1, <1>8, <2>1, <2>2
  <2>4. base64_decode(text).out = out
    <3>1. s.out = out
      BY <2>1 DEF State
    <3>. QED BY Zenon, <1>12, <2>1, <2>2, <2>3, <3>1
  <2>. QED BY Zenon, <2>1, <2>2, <2>3, <2>4 DEF Decoded
<1>. QED BY Zenon, <1>7, <1>11, <1>13, <1>14

\* The text that the saved bytes would be encoded to.
ReadsAsCoded(norm, text) ==
  /\ \A i \in DOMAIN text : norm[i] = text[i] \/ (i < Len(text) /\ text[i + 1] = Pad)
  /\ Len(norm) > Len(text) => norm[Len(text)] = Pad

\* Four characters of both, in group g.
SameGroup(norm, text, g) ==
  /\ norm[4 * g - 3] = text[4 * g - 3]
  /\ norm[4 * g - 2] = text[4 * g - 2] \/ text[4 * g - 1] = Pad
  /\ norm[4 * g - 1] = text[4 * g - 1] \/ text[4 * g] = Pad
  /\ norm[4 * g] = text[4 * g]

LEMMA SameGroups ==
  ASSUME NEW norm, NEW text \in Seq(Codes), NEW G \in Nat, Len(text) = 4 * G,
         \A g \in 1 .. G : SameGroup(norm, text, g),
         Len(norm) > Len(text) => norm[Len(text)] = Pad
  PROVE  ReadsAsCoded(norm, text)
<1>1. DOMAIN text = 1 .. 4 * G
  BY ElementsOf
<1>2. ASSUME NEW i \in 1 .. 4 * G
      PROVE  norm[i] = text[i] \/ (i < 4 * G /\ text[i + 1] = Pad)
  <2>1. PICK g \in 1 .. G : i = 4 * g - 3 \/ i = 4 * g - 2 \/ i = 4 * g - 1 \/ i = 4 * g
    BY InAGroup
  <2>2. SameGroup(norm, text, g)
    OBVIOUS
  <2>3. /\ (4 * g - 2) + 1 = 4 * g - 1 /\ (4 * g - 1) + 1 = 4 * g
        /\ 4 * g - 2 < 4 * G /\ 4 * g - 1 < 4 * G
    BY <2>1
  <2>. QED BY Zenon, <2>1, <2>2, <2>3 DEF SameGroup
<1>. QED BY Zenon, <1>1, <1>2 DEF ReadsAsCoded

LEMMA WholeSame ==
  ASSUME NEW out \in Seq(0 .. 255), NEW norm, NEW h \in 1 .. Groups(out), 3 * h <= Len(out),
         Four(At4(norm, h), out[3 * h - 2], out[3 * h - 1], out[3 * h], 3)
  PROVE  SameGroup(norm, Text(out), h)
<1>1. Size3(out, h) = 3
  BY DEF Size3
<1>2. Len(out) \in Nat /\ h \in Nat /\ h >= 1
  <2>1. Len(out) \in Nat
    BY ElementsOf
  <2>2. Groups(out) \in Nat
    BY <2>1 DEF Groups
  <2>. QED BY <2>1, <2>2
<1>3. /\ Byte(out, 3 * h - 2) = out[3 * h - 2] /\ Byte(out, 3 * h - 1) = out[3 * h - 1]
      /\ Byte(out, 3 * h) = out[3 * h]
  BY <1>2 DEF Byte
<1>4. Four(At4(Text(out), h), out[3 * h - 2], out[3 * h - 1], out[3 * h], 3)
  <2>1. Four(At4(Text(out), h), Byte(out, 3 * h - 2), Byte(out, 3 * h - 1), Byte(out, 3 * h),
             Size3(out, h))
    BY TextIs
  <2>. QED BY Zenon, <1>1, <1>3, <2>1
<1>. QED BY Zenon, <1>4 DEF Four, At4, SameGroup

LEMMA EndedSame ==
  ASSUME NEW out \in Seq(0 .. 255), NEW norm, NEW l, NEW k, EndedAt(out, norm, l, k)
  PROVE  Groups(out) = l /\ SameGroup(norm, Text(out), l)
<1>1. /\ l \in Nat \ {0} /\ k \in 1 .. 2 /\ Len(out) = 3 * (l - 1) + k
      /\ norm[4 * l - 3] = tbl(out[3 * l - 2] \div 4)
      /\ (k = 2 => norm[4 * l - 2] = tbl((out[3 * l - 2] % 4) * 16 + out[3 * l - 1] \div 16))
      /\ (k = 1 => norm[4 * l - 1] = Pad) /\ norm[4 * l] = Pad
  BY DEF EndedAt
<1>2. Groups(out) = l
  BY <1>1 DEF Groups
<1>3. Size3(out, l) = k
  BY <1>1 DEF Size3
<1>4. Four(At4(Text(out), l), Byte(out, 3 * l - 2), Byte(out, 3 * l - 1), Byte(out, 3 * l), k)
  <2>1. l \in 1 .. Groups(out)
    BY <1>1, <1>2
  <2>. QED BY <1>3, <2>1, TextIs
<1>5. /\ Byte(out, 3 * l - 2) = out[3 * l - 2]
      /\ (k = 2 => Byte(out, 3 * l - 1) = out[3 * l - 1])
  BY <1>1 DEF Byte
<1>6. PICK text : text = Text(out)
  OBVIOUS
<1>7. /\ text[4 * l - 3] = tbl(out[3 * l - 2] \div 4)
      /\ text[4 * l - 2] = tbl((out[3 * l - 2] % 4) * 16 + Byte(out, 3 * l - 1) \div 16)
      /\ (k = 1 => text[4 * l - 1] = Pad) /\ text[4 * l] = Pad
  <2>1. ~(k >= 3) /\ (k = 1 => ~(k >= 2))
    BY <1>1
  <2>2. /\ At4(text, l)[1] = text[4 * l - 3] /\ At4(text, l)[2] = text[4 * l - 2]
        /\ At4(text, l)[3] = text[4 * l - 1] /\ At4(text, l)[4] = text[4 * l]
    BY DEF At4
  <2>. QED BY Zenon, <1>4, <1>5, <1>6, <2>1, <2>2 DEF Four
<1>8. k = 1 \/ k = 2
  BY <1>1
<1>9. SameGroup(norm, text, l)
  BY Zenon, <1>1, <1>5, <1>7, <1>8 DEF SameGroup
<1>. QED BY <1>2, <1>6, <1>9

\* What was decoded has the text it was decoded from as its code, but for spare bits.
LEMMA CodedAgain ==
  ASSUME NEW norm, NEW out, Decoded(out, norm)
  PROVE  ReadsAsCoded(norm, Text(out))
<1>1. out \in Seq(0 .. 255) /\ Len(out) \in Nat
  BY ElementsOf DEF Decoded
<1>2. PICK text \in Seq(Codes), G \in Nat :
        text = Text(out) /\ G = Groups(out) /\ Len(text) = 4 * G
  <2>1. Groups(out) \in Nat
    BY <1>1 DEF Groups
  <2>. QED BY <1>1, <2>1, TextIs
<1>3. ASSUME NEW g \in Nat, g <= G, 3 * g <= Len(out), WholeGroups(out, norm, g)
      PROVE  \A h \in 1 .. g : SameGroup(norm, text, h)
  <2> TAKE h \in 1 .. g
  <2>1. h \in 1 .. Groups(out) /\ 3 * h <= Len(out)
    BY <1>1, <1>2, <1>3
  <2>2. Four(At4(norm, h), out[3 * h - 2], out[3 * h - 1], out[3 * h], 3)
    BY Zenon, <1>3 DEF WholeGroups
  <2>3. SameGroup(norm, Text(out), h)
    BY Zenon, <1>1, <2>1, <2>2, WholeSame
  <2>. QED BY Zenon, <1>2, <2>3
<1>4. CASE \E g \in Nat : Len(norm) = 4 * g /\ Len(out) = 3 * g /\ WholeGroups(out, norm, g)
  <2>1. PICK g \in Nat : Len(norm) = 4 * g /\ Len(out) = 3 * g /\ WholeGroups(out, norm, g)
    BY <1>4
  <2>2. g = G
    BY <1>2, <2>1 DEF Groups
  <2>3. \A h \in 1 .. G : SameGroup(norm, text, h)
    <3>1. g <= G /\ 3 * g <= Len(out)
      BY <2>1, <2>2
    <3>. QED BY <1>3, <2>1, <2>2, <3>1
  <2>4. ~(Len(norm) > Len(text))
    BY <1>2, <2>1, <2>2
  <2>5. ReadsAsCoded(norm, text)
    BY <1>2, <2>3, <2>4, SameGroups
  <2>. QED BY Zenon, <1>2, <2>5
<1>5. CASE \E l, k : EndedAt(out, norm, l, k) /\ 4 * l <= Len(norm)
  <2>1. PICK l, k : EndedAt(out, norm, l, k)
    BY <1>5
  <2>2. G = l /\ SameGroup(norm, text, l)
    <3>1. Groups(out) = l /\ SameGroup(norm, Text(out), l)
      BY <1>1, <2>1, EndedSame
    <3>. QED BY Zenon, <1>2, <3>1
  <2>3. WholeGroups(out, norm, l - 1) /\ l \in Nat \ {0} /\ 3 * (l - 1) <= Len(out)
        /\ norm[4 * l] = Pad
    BY <1>1, <2>1 DEF EndedAt
  <2>4. \A h \in 1 .. l - 1 : SameGroup(norm, text, h)
    <3>1. l - 1 \in Nat /\ l - 1 <= G
      BY <2>2, <2>3
    <3>. QED BY <1>3, <2>3, <3>1
  <2>5. \A h \in 1 .. G : SameGroup(norm, text, h)
    <3>1. \A h \in 1 .. G : h \in 1 .. l - 1 \/ h = l
      BY <2>2, <2>3
    <3>. QED BY Zenon, <2>2, <2>4, <3>1
  <2>6. norm[Len(text)] = Pad
    BY Zenon, <1>2, <2>2, <2>3
  <2>7. ReadsAsCoded(norm, text)
    BY <1>2, <2>5, <2>6, SameGroups
  <2>. QED BY Zenon, <1>2, <2>7
<1>. QED BY Zenon, <1>4, <1>5 DEF Decoded

LEMMA AcceptedIsCode ==
  ASSUME NEW text \in Seq(1 .. 255), save_base64_to_file(text).rc = 0
  PROVE  ReadsAsCoded(normalize_b64(text), base64_encode(save_base64_to_file(text).bin))
<1>1. PICK norm \in Seq(Codes) : norm = normalize_b64(text)
  BY NormalType
<1>2. PICK bin : bin = base64_decode(norm)
  OBVIOUS
<1>3. bin.ok /\ save_base64_to_file(text).bin = bin.out
  <2>1. save_base64_to_file(text) =
          IF norm = <<>> THEN [rc |-> -2, bin |-> <<>>]
          ELSE IF ~bin.ok \/ bin.out = <<>> THEN [rc |-> -3, bin |-> <<>>]
               ELSE [rc |-> 0, bin |-> bin.out]
    BY Zenon, <1>1, <1>2 DEF save_base64_to_file
  <2>. QED BY <2>1
<1>4. Decoded(bin.out, norm)
  BY Zenon, <1>2, <1>3, DecodedIs
<1>5. ReadsAsCoded(norm, Text(bin.out))
  BY Zenon, <1>4, CodedAgain
<1>. QED BY Zenon, <1>1, <1>3, <1>5 DEF Text

\* What is given is always a text over its alphabet.
GivenInv ==
  /\ givenAs \in {"bytes", "text"}
  /\ given \in Seq(IF givenAs = "bytes" THEN Bytes ELSE Characters)

LEMMA InCharacters ==
  ASSUME NEW C, C \subseteq 1 .. 255, NEW text \in Seq(C) PROVE text \in Seq(1 .. 255)
  BY ZenonT(30), SeqWider

LEMMA GivenText == GivenInv /\ givenAs = "text" => given \in Seq(1 .. 255)
<1> SUFFICES ASSUME GivenInv, givenAs = "text" PROVE given \in Seq(1 .. 255)
  OBVIOUS
<1>1. given \in Seq(Characters)
  BY DEF GivenInv
<1>2. Characters \subseteq 1 .. 255
  BY Base64Assumption
<1>. QED BY Zenon, <1>1, <1>2, InCharacters

LEMMA GivenSaved ==
  ASSUME GivenInv, givenAs = "bytes", given # <<>> PROVE
       LET text == base64_encode(given)
           bare == Only(text, (1 .. 255) \ {Pad})
           url == [i \in DOMAIN text |->
                     IF text[i] = 43 THEN 45 ELSE IF text[i] = 47 THEN 95 ELSE text[i]] IN
       \A t \in {text, bare, url, Marker \o text} :
         save_base64_to_file(t) = [rc |-> 0, bin |-> given]
<1>1. given \in Seq(0 .. 255)
  BY ZenonT(30), Base64Assumption, SeqWider DEF GivenInv
<1>. QED BY Zenon, <1>1, SavedAsGiven DEF Text

LEMMA GivenAccepted ==
  ASSUME GivenInv, givenAs = "text", save_base64_to_file(given).rc = 0
  PROVE  ReadsAsCoded(normalize_b64(given), base64_encode(save_base64_to_file(given).bin))
<1>1. given \in Seq(1 .. 255)
  BY GivenText
<1>. QED BY Zenon, <1>1, AcceptedIsCode

\* What was encoded is saved as it was in each of its four forms, and a text that is
\* accepted is, but for spare bits and what follows its padding, the code of what is saved.
THEOREM Base64Correct == Base64Spec => []Base64RoundTrip
<1>1. Base64Init => GivenInv
  BY DEF Base64Init, GivenInv
<1>2. GivenInv /\ [Base64Next]_base64Vars => GivenInv'
  BY DEF GivenInv, Base64Next, base64Vars
<1>3. GivenInv => Base64RoundTrip
  BY Zenon, GivenSaved, GivenAccepted DEF Base64RoundTrip, ReadsAsCoded
<1>. QED BY <1>1, <1>2, <1>3, PTL DEF Base64Spec
=============================================================================
