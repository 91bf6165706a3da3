------------------------------ MODULE Overspeed ------------------------------
(***************************************************************************)
(* OverspeedMonitorThread (doordvr_getsetconfig_2.cpp): once a second it   *)
(* compares the speed with the limits of four channels, reports warnings   *)
(* and alarms to the platform, speaks, and starts a thread that takes      *)
(* pictures.  The channels share only the clock and the speed: this is one *)
(* of them, with its part of the configuration as the thread copied it     *)
(* when it started.                                                        *)
(***************************************************************************)
EXTENDS Integers

CONSTANTS
  SpeedConfigs,      \* configurations of the channel, see SpeedAssumption
  Speeds,            \* what get_dms_current_speed may return
  FirstSecond,       \* time(NULL) at the start: much later than any interval
  MaxPasses,         \* bound on the passes of the loop
  Pauses             \* by how much the clock may be ahead at the next pass

ASSUME SpeedAssumption ==
  /\ \A c \in SpeedConfigs :
       /\ c \in [enabled : BOOLEAN, preWarningSpeed : Nat, speedThreshold : Nat,
                 preWarningInterval : Nat, warningInterval : Nat,
                 persistenceDuration : Nat]
       /\ c.warningInterval <= FirstSecond /\ c.preWarningInterval <= FirstSecond
  /\ Speeds \subseteq Nat /\ FirstSecond \in Nat \ {0}
  /\ MaxPasses \in Nat /\ Pauses \subseteq Nat \ {0}

VARIABLES
  speed_cfg,                  \* debug_cfg.speedWarning.channels[i]
  current_time, current_speed,
  last_pre_warning_time, last_alarm_warning_time, last_overspeed_time,
  last_alarm_state, last_pre_warning_state,
  platform,                   \* what it was told: is there a warning, an alarm
  speedAt,                    \* where the thread is in the pass
  passes,
  alarms,                     \* when alarms were raised
  since_over                  \* since when each pass saw the speed at the limit, or 0

lastVars == <<last_pre_warning_time, last_alarm_warning_time, last_overspeed_time>>
stateVars == <<last_alarm_state, last_pre_warning_state>>
speedVars == <<speed_cfg, current_time, current_speed, lastVars, stateVars, platform,
               speedAt, passes, alarms, since_over>>

SpeedInit ==
  /\ speed_cfg \in SpeedConfigs
  /\ current_time = FirstSecond /\ current_speed = 0
  /\ last_pre_warning_time = 0 /\ last_alarm_warning_time = 0 /\ last_overspeed_time = 0
  /\ last_alarm_state = 0 /\ last_pre_warning_state = 0
  /\ platform = [warning |-> FALSE, alarm |-> FALSE]
  /\ speedAt = "sleep" /\ passes = 0 /\ alarms = {} /\ since_over = 0

pre_warn == speed_cfg.preWarningSpeed
alarm_warn == speed_cfg.speedThreshold
Over == current_speed >= alarm_warn /\ alarm_warn > 0
Between == current_speed < alarm_warn /\ current_speed >= pre_warn
Since(time) == current_time - time

\* sleep(1), time(NULL) and the speed of this pass; enabled stands for the channel being
\* enabled and numbered as its place in the list.
Pass ==
  /\ speedAt = "sleep" /\ passes < MaxPasses
  /\ \E s \in Speeds, p \in Pauses :
       /\ current_speed' = s /\ current_time' = current_time + p
       /\ since_over' = IF s >= alarm_warn /\ alarm_warn > 0
                        THEN IF since_over = 0 THEN current_time + p ELSE since_over
                        ELSE 0
  /\ speedAt' = IF speed_cfg.enabled THEN "cancel" ELSE "sleep"
  /\ passes' = passes + 1
  /\ UNCHANGED <<speed_cfg, lastVars, stateVars, platform, alarms>>

\* The alarm is over.
CancelAlarm ==
  /\ speedAt = "cancel"
  /\ IF last_alarm_state = 1 /\ current_speed < alarm_warn
     THEN /\ platform' = [platform EXCEPT !.alarm = FALSE]
          /\ last_alarm_state' = 0 /\ last_overspeed_time' = 0
     ELSE UNCHANGED <<platform, last_alarm_state, last_overspeed_time>>
  /\ speedAt' = "cancelWarning"
  /\ UNCHANGED <<speed_cfg, current_time, current_speed, last_pre_warning_time,
                 last_alarm_warning_time, last_pre_warning_state, passes, alarms,
                 since_over>>

CancelWarningIf(over) ==
  /\ speedAt = "cancelWarning"
  /\ IF last_pre_warning_state = 1 /\ over
     THEN /\ platform' = [platform EXCEPT !.warning = FALSE]
          /\ last_pre_warning_state' = 0
     ELSE UNCHANGED <<platform, last_pre_warning_state>>
  /\ speedAt' = "warn"
  /\ UNCHANGED <<speed_cfg, current_time, current_speed, lastVars, last_alarm_state,
                 passes, alarms, since_over>>
\* Mutated form: only when the speed goes down.
CancelWarning_Below == CancelWarningIf(current_speed < pre_warn)
\* The warning is over: slower, or fast enough for an alarm.
CancelWarning ==
  CancelWarningIf(current_speed < pre_warn \/ current_speed >= alarm_warn)

\* The platform is told once, the driver at intervals.
PreWarning ==
  /\ speedAt = "warn"
  /\ IF Between /\ last_pre_warning_state = 0
     THEN /\ platform' = [platform EXCEPT !.warning = TRUE]
          /\ last_pre_warning_state' = 1
     ELSE UNCHANGED <<platform, last_pre_warning_state>>
  /\ last_pre_warning_time' =
       IF Between /\ Since(last_pre_warning_time) >= speed_cfg.preWarningInterval
       THEN current_time ELSE last_pre_warning_time
  /\ speedAt' = "alarm"
  /\ UNCHANGED <<speed_cfg, current_time, current_speed, last_alarm_warning_time,
                 last_overspeed_time, last_alarm_state, passes, alarms, since_over>>

AlarmAfter(begin) ==
  /\ speedAt = "alarm"
  /\ last_overspeed_time' = begin
  /\ IF /\ Over
        /\ Since(begin) >= speed_cfg.persistenceDuration
        /\ Since(last_alarm_warning_time) >= speed_cfg.warningInterval
     THEN /\ platform' = [platform EXCEPT !.alarm = TRUE]
          /\ last_alarm_warning_time' = current_time
          /\ alarms' = alarms \cup {current_time}
     ELSE UNCHANGED <<platform, last_alarm_warning_time, alarms>>
  /\ speedAt' = "sleep"
  /\ UNCHANGED <<speed_cfg, current_time, current_speed, last_pre_warning_time,
                 stateVars, passes, since_over>>
\* Mutated form: the time is taken again at each pass.
Alarm_Again == AlarmAfter(IF Over THEN current_time ELSE last_overspeed_time)
\* last_alarm_state stays as it is.
Alarm ==
  AlarmAfter(IF Over /\ last_overspeed_time = 0 THEN current_time
             ELSE last_overspeed_time)

OverspeedMonitorThread == Pass \/ CancelAlarm \/ CancelWarning \/ PreWarning \/ Alarm
SpeedSpec == SpeedInit /\ [][OverspeedMonitorThread]_speedVars

(***************************************************************************)
(* Properties                                                              *)
(***************************************************************************)
\* After a pass the platform shows a warning exactly when the speed is between the two
\* limits, and never together with speeding: a warning that turns into an alarm is
\* cancelled first.
WarningFollowsSpeed ==
  speedAt = "sleep" /\ passes > 0 /\ speed_cfg.enabled =>
    (platform.warning <=> Between)

\* Speeding that lasts is not missed: who has been at the limit for the configured
\* time at each pass, and the interval of the alarms too, has been reported in it.
LastingSpeedIsReported ==
  LET lasts == IF speed_cfg.persistenceDuration > speed_cfg.warningInterval
               THEN speed_cfg.persistenceDuration ELSE speed_cfg.warningInterval IN
  speedAt = "sleep" /\ speed_cfg.enabled /\ since_over # 0 /\ Since(since_over) >= lasts
    => \E a \in alarms : a >= since_over
==============================================================================
