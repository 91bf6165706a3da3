----------------------------- MODULE ConfigStore -----------------------------
(***************************************************************************)
(* The configuration (doordvr_getsetconfig_2.cpp): one structure in memory *)
(* and its image in the file /mnt/img/.hqtds, the functions of the device  *)
(* that read and change it, and the start that reads it.                   *)
(*                                                                         *)
(* There are two ways to change it.  Some functions use the PERSIST macros *)
(* and then SaveParam, which writes over the old file when something has   *)
(* changed; the others assign and call SaveLocalParam, which empties the   *)
(* file first, or do not save at all.  A few of them hold config_lock.     *)
(*                                                                         *)
(* A function is a set of programs, sequences of steps on fields: one for  *)
(* each way through it.  The threads interpret them.  A field is a part of *)
(* the structure that is changed as a whole, its contents a small number.  *)
(***************************************************************************)
EXTENDS Integers, Sequences, FiniteSets

CONSTANTS
  Thread, NoThread,
  Requests,          \* what a caller may ask a field to be
  Calls,             \* [Thread -> the functions it may call]
  MaxCalls,          \* bound on the calls and on the times the process stops
  ConfigFaults       \* "stop", "io": see the actions

Zero == 0            \* a field that was never set
Default == 1         \* the value LoadDefault... gives

\* Of abdparam: those LoadDefaultABDParam assigns, and those it leaves zero.
DmsFields == {"dms"}
AdasFields == {"adasWarning1", "adasWarning2", "adasCalib"}
BsdFields == {"bsd"}
DeviceFields == {"storage", "stream", "devicecfg", "drivlist", "productinfo", "records",
                 "runstatus"}
DebugFields == {"debug", "capture", "algorithm"}
DefaultedFields ==
  DeviceFields \cup DebugFields \cup DmsFields \cup AdasFields \cup BsdFields
PersistFields == {"brandId", "createkit", "location", "imagerequest", "settings",
                  "incident", "incidentIds"}
AbdFields == DefaultedFields \cup PersistFields \cup {"marks"}
MainFields ==
  {"recordctrol", "alarmctrol", "advanceset", "commonset", "encoderset", "recordset",
   "ptz_set", "networkparm", "alarmset", "videodetectset", "localdisplayset",
   "msserverconfig", "automangeset", "cameraset", "backlinepointdata"}
Field == MainFields \cup AbdFields

\* The parts in which the structure reaches the file, in order.
Blocks == <<MainFields, PersistFields, AbdFields \ PersistFields>>
Whole == Len(Blocks)
Absent == -1

ASSUME ConfigAssumption ==
  /\ NoThread \notin Thread
  /\ Requests \subseteq Nat \ {Zero, Default} /\ MaxCalls \in Nat
  /\ ConfigFaults \subseteq {"stop", "io"}

(***************************************************************************)
(* The functions, as programs                                              *)
(***************************************************************************)
Step(what, fields) == <<[do |-> what, on |-> fields]>>
Read(fields) == Step("get", fields)
Store(fields) == Step("store", fields)
Persist(field) == Step("persist", {field})
Need(fields) == Step("need", fields)       \* goes on only if they are set
Locked(program) == Step("lock", {}) \o program \o Step("unlock", {})
SaveParam == Step("SaveParam", {})
SaveLocalParam == Step("SaveLocalParam", {})

\* The caller's kit ID must be the stored one, which must not be empty.
OfKit(programs) == {<<>>} \cup {Need({"createkit"}) \o p : p \in programs}

rk_create_kit ==             \* no fingerprint, or no kit ID for it: nothing is saved
  {Persist("brandId"), Persist("brandId") \o Persist("createkit") \o SaveParam}
rk_get_incident_images ==                   \* no image: nothing is saved
  OfKit({Persist("imagerequest"), Persist("imagerequest") \o SaveParam})
rk_get_device_info == OfKit({Persist("location") \o SaveParam})
rk_get_current_location == OfKit({Persist("location") \o SaveParam})
rk_get_health_check == OfKit({Read({"createkit", "settings"})})
rk_config_device_settings == OfKit({Persist("settings") \o SaveParam})
\* It must name the stored place and cameras too.  An image list that is missing, or
\* no memory for it, ends it half-way.
rk_create_incident ==
  {<<>>} \cup {Need({"createkit", "location"}) \o Persist("incident") \o rest :
                 rest \in {<<>>, Persist("incidentIds") \o SaveParam}}
rk_check_cameras == OfKit({Read({"createkit"})})

rk_adas_get_preview_config == {Read({"adasCalib"})}
rk_adas_set_preview_config == {Store({"adasCalib"}) \o SaveLocalParam}
rk_dms_get_config == {Read({"dms"})}
rk_dms_set_config == {Store({"dms", "debug"}) \o SaveLocalParam}
\* Mutated form: without the lock.
rk_adas_get_config_NoLock == {Read({"adasWarning1"}) \o Read({"adasWarning2"})}
rk_adas_get_config == {Locked(Read({"adasWarning1"}) \o Read({"adasWarning2"}))}
\* Mutated form: it returns without giving the lock back.
rk_adas_set_config_KeepLock ==
  {Step("lock", {}) \o Store({"adasWarning1"}) \o Store({"adasWarning2"})
     \o SaveLocalParam}
rk_adas_set_config ==
  {Locked(Store({"adasWarning1"}) \o Store({"adasWarning2"}) \o SaveLocalParam)}
rk_get_debug_feature_config == {Read({"debug", "automangeset"})}
rk_set_debug_feature_config ==
  {Store({"debug", "dms", "automangeset"}) \o SaveLocalParam}
rk_get_running_status == {Locked(Read({"runstatus"}))}
rk_capture_get_records == {Read({"records"})}
rk_storage_get_stream_config == {Locked(Read({"stream"}))}
rk_storage_set_stream_config == {Locked(Store({"stream"}))}
rk_storage_get_config == {Locked(Read({"storage"}))}
rk_storage_set_config == {Locked(Store({"storage"}))}
rk_get_product_info == {Read({"productinfo"})}
rk_set_device_config == {Store({"devicecfg"}) \o SaveLocalParam}
rk_get_device_config == {Read({"devicecfg"})}
rk_driver_get_list == {Read({"drivlist"})}
rk_driver_register == {Store({"drivlist"})}
rk_verify_get_records == {Read({"records"})}
rk_capture_set_config == {Store({"capture"})}
rk_capture_get_config == {Read({"capture"}) \o SaveLocalParam}
rk_clear_driver_register_info == {Store({"drivlist"})}
SystemGlobal_SetAllconfigDefAdasCH == {Store({"algorithm"})}

\* It stores the date whoever asks for it.
SystemGlobal_GetAllconfigDefContext == Store({"commonset"})

\* One field for each type; an unknown type, and the page of the advanced settings,
\* nothing.
GetGeneral == {Read({f}) : f \in {"recordctrol", "alarmctrol", "advanceset", "commonset"}}
GetChannels ==
  {Read({f}) : f \in {"encoderset", "recordset", "ptz_set", "networkparm", "alarmset",
                     "videodetectset", "localdisplayset"}}
GetPlatform == {Read({f}) : f \in {"msserverconfig", "automangeset", "cameraset"}}
DVR_GetConfig ==
  {SystemGlobal_GetAllconfigDefContext \o Locked(p) :
     p \in GetGeneral \cup GetChannels \cup GetPlatform \cup {Read(AbdFields), <<>>}}

SetGeneral ==
  {Store({f}) : f \in {"recordctrol", "alarmctrol", "advanceset", "commonset"}}
SetChannels ==
  {Store({f}) : f \in {"encoderset", "recordset", "ptz_set", "networkparm", "alarmset",
                       "videodetectset", "localdisplayset"}}
SetPlatform == {Store({f}) : f \in {"msserverconfig", "automangeset", "cameraset"}}
\* Other algorithms need a licence and replace everything.  Otherwise only the marks
\* and, for the same camera, the ADAS part are stored.
SetAbdParam == {Store(AbdFields), <<>>, Store({"marks"}), Store(AdasFields),
                Store({"marks"}) \o Store(AdasFields)}
DVR_SetConfig ==
  {SystemGlobal_GetAllconfigDefContext \o Locked(p) :
     p \in SetGeneral \cup SetChannels \cup SetPlatform \cup SetAbdParam}

\* The user interface sends everything.  A message that does not come, or has the wrong
\* length, leaves the field as it is; here at most one of them does.
GeneralMessages ==
  <<{"recordctrol"}, {"alarmctrol"}, {"advanceset"}, {"commonset"}>>
ChannelMessages ==
  <<{"encoderset"}, {"recordset"}, {"ptz_set"}, {"networkparm"}, {"alarmset"},
    {"videodetectset"}, {"videodetectset"}, {"localdisplayset"}>>
PlatformMessages == <<{"msserverconfig"}, {"automangeset"}, {"cameraset"}, AbdFields>>
UIMessages == GeneralMessages \o ChannelMessages \o PlatformMessages
SystemGlobal_Get_Config_Param ==
  {[i \in DOMAIN UIMessages |->
      IF i = bad THEN Read(UIMessages[i])[1] ELSE Store(UIMessages[i])[1]] :
     bad \in {0} \cup DOMAIN UIMessages}

\* A record of another kind takes the place of the configuration.
SaveDriverInfoToFile == {Step("SaveDriverInfo", {})}

Function ==
 [rk_create_kit |-> rk_create_kit,
  rk_get_incident_images |-> rk_get_incident_images,
  rk_get_device_info |-> rk_get_device_info,
  rk_get_current_location |-> rk_get_current_location,
  rk_get_health_check |-> rk_get_health_check,
  rk_config_device_settings |-> rk_config_device_settings,
  rk_create_incident |-> rk_create_incident,
  rk_check_cameras |-> rk_check_cameras,
  rk_adas_get_preview_config |-> rk_adas_get_preview_config,
  rk_adas_set_preview_config |-> rk_adas_set_preview_config,
  rk_dms_get_config |-> rk_dms_get_config,
  rk_dms_set_config |-> rk_dms_set_config,
  rk_adas_get_config |-> rk_adas_get_config,
  rk_adas_set_config |-> rk_adas_set_config,
  rk_get_debug_feature_config |-> rk_get_debug_feature_config,
  rk_set_debug_feature_config |-> rk_set_debug_feature_config,
  rk_get_running_status |-> rk_get_running_status,
  rk_capture_get_records |-> rk_capture_get_records,
  rk_storage_get_stream_config |-> rk_storage_get_stream_config,
  rk_storage_set_stream_config |-> rk_storage_set_stream_config,
  rk_storage_get_config |-> rk_storage_get_config,
  rk_storage_set_config |-> rk_storage_set_config,
  rk_get_product_info |-> rk_get_product_info,
  rk_set_device_config |-> rk_set_device_config,
  rk_get_device_config |-> rk_get_device_config,
  rk_driver_get_list |-> rk_driver_get_list,
  rk_driver_register |-> rk_driver_register,
  rk_verify_get_records |-> rk_verify_get_records,
  rk_capture_set_config |-> rk_capture_set_config,
  rk_capture_get_config |-> rk_capture_get_config,
  rk_clear_driver_register_info |-> rk_clear_driver_register_info,
  SystemGlobal_SetAllconfigDefAdasCH |-> SystemGlobal_SetAllconfigDefAdasCH,
  DVR_GetConfig |-> DVR_GetConfig,
  DVR_SetConfig |-> DVR_SetConfig,
  SystemGlobal_Get_Config_Param |-> SystemGlobal_Get_Config_Param,
  SaveDriverInfoToFile |-> SaveDriverInfoToFile]

ASSUME CallsAssumption == Calls \in [Thread -> SUBSET DOMAIN Function]

(***************************************************************************)
(* LoadDefaultLocalParam fills a structure of its own                      *)
(***************************************************************************)
SetDefault(cfg, fields) ==
  [f \in Field |-> IF f \in fields THEN Default ELSE cfg[f]]
LoadDefaultRecordCtrol(cfg) == SetDefault(cfg, {"recordctrol"})
LoadDefaultAlarmCtrol(cfg) == SetDefault(cfg, {"alarmctrol"})
LoadDefaultAdvancedSet(cfg) == SetDefault(cfg, {"advanceset"})
LoadDefaultCommonSet(cfg) == SetDefault(cfg, {"commonset"})
LoadDefaultEncoderSet(cfg) == SetDefault(cfg, {"encoderset"})
LoadDefaultRecordSet(cfg) == SetDefault(cfg, {"recordset"})
LoadDefaultPTZSet(cfg) == SetDefault(cfg, {"ptz_set"})
LoadDefaultNetworkParam(cfg) == SetDefault(cfg, {"networkparm"})
LoadDefaultAlarmSet(cfg) == SetDefault(cfg, {"alarmset"})
LoadDefaultVideoDetectSet(cfg) == SetDefault(cfg, {"videodetectset"})
LoadDefaultLocalDisplay(cfg) == SetDefault(cfg, {"localdisplayset"})
LoadDefaultMSServerConfig(cfg) == SetDefault(cfg, {"msserverconfig"})
LoadDefaultAutoMangeParam(cfg) == SetDefault(cfg, {"automangeset"})
LoadDefaultCameralSetting(cfg) == SetDefault(cfg, {"cameraset"})
LoadDefaultBacklineStruct(cfg) == SetDefault(cfg, {"backlinepointdata"})
LoadDefaultABDParam(cfg) ==
  SetDefault([f \in Field |-> IF f \in AbdFields THEN Zero ELSE cfg[f]], DefaultedFields)

NeverSet == [f \in Field |-> Zero]
Defaults ==
  LoadDefaultABDParam(LoadDefaultBacklineStruct(LoadDefaultCameralSetting(
    LoadDefaultAutoMangeParam(LoadDefaultMSServerConfig(LoadDefaultLocalDisplay(
      LoadDefaultVideoDetectSet(LoadDefaultAlarmSet(LoadDefaultNetworkParam(
        LoadDefaultPTZSet(LoadDefaultRecordSet(LoadDefaultEncoderSet(
          LoadDefaultCommonSet(LoadDefaultAdvancedSet(LoadDefaultAlarmCtrol(
            LoadDefaultRecordCtrol(NeverSet))))))))))))))))

(***************************************************************************)
(* State                                                                   *)
(***************************************************************************)
VARIABLES
  mem,           \* allConfig.AllConfigDef
  g_cfg_dirty,
  config_lock,   \* who holds it
  thr,           \* [Thread -> the call under way]
  fdata, flen,   \* the file: its fields, and how many Blocks of it there are
  boot,          \* where ReadLocalParam is, or "on"
  calls,
  since,         \* the values of a field since it was saved last
  torn,          \* the file was emptied, and memory not written to it since
  pending,       \* fields PERSIST has changed and no whole save has written since
  met,           \* the threads whose save another one runs beside, and
  mixed          \* the save that ended last was such a one

file == <<fdata, flen>>
past == <<since, torn, pending, met, mixed>>
cfgVars == <<mem, g_cfg_dirty, config_lock, thr, file, boot, calls, past>>

Idle == [op |-> "none", todo |-> <<>>, arg |-> Zero, got |-> {}, save |-> "no",
         pos |-> 0]
FromFile(len, data) ==
  [f \in Field |-> IF \E i \in 1 .. Whole : i <= len /\ f \in Blocks[i]
                   THEN data[f] ELSE Zero]

\* The device is new, or was started before and has a file with the default values.
ConfigInit ==
  /\ mem = NeverSet /\ g_cfg_dirty = FALSE /\ config_lock = NoThread
  /\ thr = [t \in Thread |-> Idle]
  /\ \/ flen = Absent /\ fdata = NeverSet
     \/ flen = Whole /\ fdata = Defaults
  /\ boot = [at |-> "read", pos |-> 0]
  /\ calls = 0 /\ pending = {}
  /\ since = [f \in Field |-> {fdata[f]}]
  /\ torn = (flen = Absent)
  /\ met = {} /\ mixed = FALSE

(***************************************************************************)
(* ReadLocalParam and LoadDefaultLocalParam                                *)
(***************************************************************************)
BootTo(at, pos) == boot' = [at |-> at, pos |-> pos]
On == boot.at = "on"

\* A short file fills memory as far as it goes.  Defaults go to the file only.
ReadLocalParam ==
  /\ boot.at = "read"
  /\ mem' = FromFile(flen, fdata)
  /\ IF flen = Whole
     THEN /\ BootTo("on", 0)
          /\ torn' = FALSE /\ mixed' = FALSE
          /\ since' = [f \in Field |-> {fdata[f]}]
     ELSE BootTo("open", 0) /\ UNCHANGED <<torn, mixed, since>>
  /\ UNCHANGED <<g_cfg_dirty, config_lock, thr, file, calls, pending, met>>

LoadDefaultLocalParam ==
  /\ \/ /\ boot.at = "open"
        /\ flen' = 0 /\ fdata' = NeverSet
        /\ BootTo("write", 0)
     \/ /\ boot.at = "write" /\ boot.pos < Whole
        /\ flen' = boot.pos + 1 /\ fdata' = FromFile(boot.pos + 1, Defaults)
        /\ BootTo("write", boot.pos + 1)
     \/ /\ boot.at = "write" /\ boot.pos = Whole
        /\ BootTo("on", 0) /\ UNCHANGED file
     \/ /\ "io" \in ConfigFaults /\ boot.at \in {"open", "write"}
        /\ BootTo("on", 0) /\ UNCHANGED file
  /\ torn' = TRUE
  /\ UNCHANGED <<mem, g_cfg_dirty, config_lock, thr, calls, since, pending, met,
                 mixed>>

\* The process ends, anywhere, and starts again.  What was written stays.
StopProcess ==
  /\ "stop" \in ConfigFaults /\ calls < MaxCalls
  /\ calls' = calls + 1
  /\ mem' = NeverSet /\ g_cfg_dirty' = FALSE /\ config_lock' = NoThread
  /\ thr' = [t \in Thread |-> Idle]
  /\ BootTo("read", 0) /\ pending' = {}
  /\ UNCHANGED <<file, since, torn, met, mixed>>

(***************************************************************************)
(* The steps of a program                                                  *)
(***************************************************************************)
Head1(t) == Head(thr[t].todo)
At(t, what) == On /\ thr[t].todo # <<>> /\ Head1(t).do = what
ThreadIs(t, th) == thr' = [thr EXCEPT ![t] = th]
Advance(t) == ThreadIs(t, [thr[t] EXCEPT !.todo = Tail(@), !.save = "no", !.pos = 0])

ConfigCall(t) ==
  /\ On /\ thr[t].op = "none" /\ calls < MaxCalls
  /\ \E op \in Calls[t], v \in Requests : \E program \in Function[op] :
       ThreadIs(t, [Idle EXCEPT !.op = op, !.todo = program, !.arg = v])
  /\ calls' = calls + 1
  /\ UNCHANGED <<mem, g_cfg_dirty, config_lock, file, boot, past>>
ConfigReturn(t) ==
  /\ On /\ thr[t].op # "none" /\ thr[t].todo = <<>>
  /\ ThreadIs(t, Idle)
  /\ UNCHANGED <<mem, g_cfg_dirty, config_lock, file, boot, calls, past>>

LockStep(t) ==
  /\ At(t, "lock") /\ config_lock = NoThread
  /\ config_lock' = t /\ Advance(t)
  /\ UNCHANGED <<mem, g_cfg_dirty, file, boot, calls, past>>
UnlockStep(t) ==
  /\ At(t, "unlock")
  /\ config_lock' = NoThread /\ Advance(t)
  /\ UNCHANGED <<mem, g_cfg_dirty, file, boot, calls, past>>
NeedStep(t) ==
  /\ At(t, "need")
  /\ IF \A f \in Head1(t).on : mem[f] # Zero THEN Advance(t)
     ELSE ThreadIs(t, [thr[t] EXCEPT !.todo = <<>>])
  /\ UNCHANGED <<mem, g_cfg_dirty, config_lock, file, boot, calls, past>>
GetStep(t) ==
  /\ At(t, "get")
  /\ ThreadIs(t, [thr[t] EXCEPT !.todo = Tail(@),
                              !.got = @ \cup {mem[f] : f \in Head1(t).on}])
  /\ UNCHANGED <<mem, g_cfg_dirty, config_lock, file, boot, calls, past>>

\* It changes memory, or empties the file, beside the saves of others.
Beside(t) == met \cup {u \in Thread \ {t} : thr[u].save = "write"}

Change(fields, v) ==
  /\ mem' = [f \in Field |-> IF f \in fields THEN v ELSE mem[f]]
  /\ since' = [f \in Field |-> IF f \in fields THEN since[f] \cup {v} ELSE since[f]]
StoreStep(t) ==
  /\ At(t, "store")
  /\ Change(Head1(t).on, thr[t].arg) /\ met' = Beside(t)
  /\ Advance(t)
  /\ UNCHANGED <<g_cfg_dirty, config_lock, file, boot, calls, torn, pending, mixed>>

\* The brand is the same for every kit; the place is empty without a GPS fix.
NewValues(t, f) == CASE f = "brandId" -> {CHOOSE v \in Requests : TRUE}
                     [] f = "location" -> {thr[t].arg, Zero}
                     [] OTHER -> {thr[t].arg}
\* PERSIST_I64, _STR, _VAL, _INT, _BOOL.
PersistStep(t) ==
  /\ At(t, "persist")
  /\ \E f \in Head1(t).on : \E v \in NewValues(t, f) :
       IF mem[f] = v THEN UNCHANGED <<mem, since, g_cfg_dirty, pending, met>>
       ELSE /\ Change({f}, v) /\ met' = Beside(t)
            /\ g_cfg_dirty' = TRUE /\ pending' = pending \cup {f}
  /\ Advance(t)
  /\ UNCHANGED <<config_lock, file, boot, calls, torn, mixed>>

(***************************************************************************)
(* SaveParam and SaveLocalParam.  Every caller goes on whatever they       *)
(* return.                                                                 *)
(***************************************************************************)
Saving(t, stage) == On /\ thr[t].save = stage
SaveFails(t) ==
  /\ "io" \in ConfigFaults
  /\ Advance(t)
  /\ UNCHANGED <<mem, g_cfg_dirty, config_lock, file, boot, calls, past>>

SkipUnchanged(t) ==
  /\ At(t, "SaveParam") /\ thr[t].save = "no" /\ ~g_cfg_dirty
  /\ Advance(t)
  /\ UNCHANGED <<mem, g_cfg_dirty, config_lock, file, boot, calls, past>>

\* Mutated form: it empties the file.
OpenParam_Empty(t) ==
  /\ At(t, "SaveParam") /\ thr[t].save = "no" /\ g_cfg_dirty
  /\ flen' = 0 /\ fdata' = NeverSet
  /\ ThreadIs(t, [thr[t] EXCEPT !.save = "write"]) /\ met' = met \ {t}
  /\ UNCHANGED <<mem, g_cfg_dirty, config_lock, boot, calls, since, torn, pending, mixed>>
\* Mutated form: the flag is cleared before the file is written.
OpenParam_Clear(t) ==
  /\ At(t, "SaveParam") /\ thr[t].save = "no" /\ g_cfg_dirty
  /\ flen' = IF flen = Absent THEN 0 ELSE flen
  /\ g_cfg_dirty' = FALSE
  /\ ThreadIs(t, [thr[t] EXCEPT !.save = "write"]) /\ met' = met \ {t}
  /\ UNCHANGED <<mem, config_lock, fdata, boot, calls, since, torn, pending, mixed>>
\* fopen "rb+" leaves what there is; without a file, "wb" makes one.
OpenParam(t) ==
  /\ At(t, "SaveParam") /\ thr[t].save = "no" /\ g_cfg_dirty
  /\ \/ /\ flen' = IF flen = Absent THEN 0 ELSE flen
        /\ ThreadIs(t, [thr[t] EXCEPT !.save = "write"]) /\ met' = met \ {t}
        /\ UNCHANGED <<mem, g_cfg_dirty, config_lock, fdata, boot, calls, since, torn,
                       pending, mixed>>
     \/ SaveFails(t)

OpenLocal(t) ==
  /\ At(t, "SaveLocalParam") /\ thr[t].save = "no"
  /\ \/ /\ flen' = 0 /\ fdata' = NeverSet /\ torn' = TRUE
        /\ ThreadIs(t, [thr[t] EXCEPT !.save = "write"]) /\ met' = Beside(t) \ {t}
        /\ UNCHANGED <<mem, g_cfg_dirty, config_lock, boot, calls, since, pending, mixed>>
     \/ SaveFails(t)

WriteBlock(t) ==
  /\ Saving(t, "write") /\ thr[t].pos < Whole
  /\ LET pos == thr[t].pos + 1 IN
     \/ /\ fdata' = [f \in Field |-> IF f \in Blocks[pos] THEN mem[f] ELSE fdata[f]]
        /\ flen' = IF flen < pos THEN pos ELSE flen
        /\ ThreadIs(t, [thr[t] EXCEPT !.pos = pos])
        /\ UNCHANGED <<mem, g_cfg_dirty, config_lock, boot, calls, past>>
     \/ SaveFails(t)

\* fflush, fsync and fclose.  Only SaveParam clears the flag.
SaveDone(t) ==
  /\ Saving(t, "write") /\ thr[t].pos = Whole
  /\ \/ /\ g_cfg_dirty' = IF Head1(t).do = "SaveParam" THEN FALSE ELSE g_cfg_dirty
        /\ since' = [f \in Field |-> {mem[f]}]
        /\ torn' = FALSE /\ pending' = {f \in pending : fdata[f] # mem[f]}
        /\ mixed' = (t \in met) /\ met' = met
        /\ Advance(t)
        /\ UNCHANGED <<mem, config_lock, file, boot, calls>>
     \/ SaveFails(t)

\* The record is shorter than the configuration.
WriteDriverInfo(t) ==
  /\ At(t, "SaveDriverInfo")
  /\ flen' = 0 /\ fdata' = NeverSet /\ torn' = TRUE /\ met' = Beside(t)
  /\ Advance(t)
  /\ UNCHANGED <<mem, g_cfg_dirty, config_lock, boot, calls, since, pending, mixed>>

ConfigStep(t) ==
  \/ LockStep(t) \/ UnlockStep(t) \/ NeedStep(t) \/ GetStep(t) \/ StoreStep(t)
  \/ PersistStep(t) \/ SkipUnchanged(t) \/ OpenParam(t) \/ OpenLocal(t)
  \/ WriteBlock(t) \/ SaveDone(t) \/ WriteDriverInfo(t) \/ ConfigReturn(t)
ConfigNext ==
  \/ ReadLocalParam \/ LoadDefaultLocalParam \/ StopProcess
  \/ \E t \in Thread : ConfigCall(t) \/ ConfigStep(t)
ConfigSpec == ConfigInit /\ [][ConfigNext]_cfgVars

(***************************************************************************)
(* Properties                                                              *)
(***************************************************************************)
\* A change made with PERSIST is not forgotten: until a save has written it, the flag
\* that makes the next SaveParam write is set, whatever calls returned early and
\* whatever saves failed in between.  A save that another caller changed memory beside
\* may forget it; the next one that runs alone and ends makes it good.
UnsavedIsDirty == ~mixed => (pending # {} => g_cfg_dirty)

\* A stop loses nothing that was saved, and a failed SaveParam neither: unless the
\* file was being made anew, it is complete, and each field of it has the value saved
\* last or one it was given after that.  Saves of several callers may run beside each
\* other: only after one that memory was changed beside, or the file emptied, nothing
\* is promised, until one that runs alone ends or the process starts again.
SavedSurvives ==
  ~torn /\ ~mixed => flen = Whole /\ \A f \in Field : fdata[f] \in since[f]

\* Who asks for the ADAS warnings gets those of one caller, never half of the old and
\* half of the new, although they are copied field by field.
AdasWarningsWhole ==
  \A t \in Thread : thr[t].op = "rk_adas_get_config" => Cardinality(thr[t].got) <= 1

\* No way through a function keeps config_lock, and none asks for it twice: nobody
\* waits for a caller that will not release it.
LockIsReleased ==
  \A t \in Thread : thr[t].op = "none" \/ At(t, "lock") => config_lock # t

\* When SaveParam says that the configuration has not changed and skips the write
\* (doordvr_getsetconfig_2.cpp:133), the file has what memory has.
SkipsOnlyUnchanged ==
  \A t \in Thread :
    At(t, "SaveParam") /\ thr[t].save = "no" /\ ~g_cfg_dirty /\ ~torn =>
      \A f \in PersistFields : fdata[f] = mem[f]
==============================================================================
