------------------------ MODULE IpCamSessionsProofs ------------------------
(***************************************************************************)
(* Theorems about the sessions of the IP cameras, for any number of        *)
(* cameras, any configuration in the store and any changes of it, whatever *)
(* number a configuration carries and whether the server answers or not.   *)
(***************************************************************************)
EXTENDS IpCamSessions, SequenceTheorems, FiniteSetTheorems, TLAPS

SubKey(c) == c + IPCCHANNELBEGIN + MAXIPCNUM
Vacant(k) == session[k] = None \/ k \in foreign
Unmade(c) == Vacant(c + IPCCHANNELBEGIN) /\ Vacant(SubKey(c))

(***************************************************************************)
(* A camera makes a session under the key of its place only if there is    *)
(* none, or another camera has made one there.  That follows from the      *)
(* configuration: a camera that is off has no session, one that is changed *)
(* is destroyed first, and at the start they are made once.                *)
(***************************************************************************)
SessionTypes ==
  /\ config \in [Camera -> Config]
  /\ session \in [Key -> (Key \X Nat) \cup {None}]
  /\ made \in Nat
  /\ DOMAIN mgr = {"at", "op", "cam", "new", "todo"}
  /\ mgr.cam \in Camera /\ mgr.new \in Config

\* What is in the map exists, under its key; what exists and is not in the map
\* has a key of the set foreign.
Sessions ==
  /\ \A k \in Key : session[k] # None =>
       session[k] \in alive /\ \E n \in 0 .. made - 1 : session[k] = <<k, n>>
  /\ \A x \in alive : x \in Key \X Nat /\ (session[x[1]] = x \/ x[1] \in foreign)

MakingInv ==
  /\ \A c \in Camera : ~config[c].on => Unmade(c)
  /\ mgr.op = "boot" => mgr.at = "idle" /\ mgr.cam = 0 /\ \A c \in Camera : Unmade(c)
  /\ mgr.op = "init" => \A c \in Camera : c > mgr.cam => Unmade(c)
  /\ mgr.at \in {"load", "createMain"} => Unmade(mgr.cam)
  /\ mgr.at = "createSub" => Vacant(SubKey(mgr.cam))
  /\ mgr.at = "load" => mgr.op = "init"

OrphanInv == SessionTypes /\ Sessions /\ MakingInv

LEMMA OrphanImplies == OrphanInv => NoOrphan
BY DEF OrphanInv, Sessions, NoOrphan

\* The keys of a camera, which no other camera has.
LEMMA KeysOfCamera ==
  ASSUME NEW c \in Camera
  PROVE  /\ c + IPCCHANNELBEGIN \in Key /\ SubKey(c) \in Key
         /\ KeysOf(c)[1] = c + IPCCHANNELBEGIN /\ KeysOf(c)[2] = SubKey(c)
         /\ ToSet(KeysOf(c)) = {c + IPCCHANNELBEGIN, SubKey(c)}
         /\ c + IPCCHANNELBEGIN # SubKey(c)
         /\ \A d \in Camera \ {c} : /\ d + IPCCHANNELBEGIN # c + IPCCHANNELBEGIN
                                    /\ d + IPCCHANNELBEGIN # SubKey(c)
                                    /\ SubKey(d) # c + IPCCHANNELBEGIN
                                    /\ SubKey(d) # SubKey(c)
<1>1. c \in Nat /\ IPCCHANNELBEGIN \in Nat /\ MAXIPCNUM \in Nat \ {0}
      /\ \A d \in Camera : d \in Nat /\ d < MAXIPCNUM
  BY SessionsAssumption DEF Camera
<1>2. c + IPCCHANNELBEGIN \in MainKey
  BY DEF MainKey
<1>3. ToSet(KeysOf(c)) = {c + IPCCHANNELBEGIN, SubKey(c)}
  BY DEF ToSet, KeysOf, SubKey
<1>. QED BY <1>1, <1>2, <1>3 DEF Key, KeysOf, SubKey

LEMMA NoConfigIsOff == NoConfig \in Config /\ ~NoConfig.on
<1>1. (CHOOSE v \in Version : TRUE) \in Version
  BY SessionsAssumption
<1>. QED BY <1>1 DEF NoConfig, Config

LEMMA IdleFields ==
  /\ DOMAIN Idle = {"at", "op", "cam", "new", "todo"}
  /\ Idle.at = "idle" /\ Idle.op = "none" /\ Idle.cam = 0 /\ Idle.new = NoConfig
  /\ Idle.cam \in Camera /\ Idle.new \in Config
<1>1. 0 \in Camera
  BY SessionsAssumption DEF Camera
<1>. QED BY <1>1, NoConfigIsOff DEF Idle

\* The manager goes on to another step of its operation.
LEMMA Stepped ==
  ASSUME NEW at, OrphanInv, mgr' = [mgr EXCEPT !.at = at]
  PROVE  /\ DOMAIN mgr' = {"at", "op", "cam", "new", "todo"}
         /\ mgr'.at = at /\ mgr'.op = mgr.op /\ mgr'.cam = mgr.cam /\ mgr'.new = mgr.new
BY DEF OrphanInv, SessionTypes

\* Nothing happens to the sessions.
LEMMA SessionsStay ==
  ASSUME OrphanInv, UNCHANGED <<config, session, alive, foreign, made>>,
         DOMAIN mgr' = {"at", "op", "cam", "new", "todo"},
         mgr'.cam \in Camera, mgr'.new \in Config,
         mgr'.at \notin {"load", "createMain", "createSub"},
         mgr'.op # "boot",
         mgr'.op = "init" => mgr.op = "init" /\ mgr'.cam = mgr.cam
  PROVE  OrphanInv'
<1>1. SessionTypes' /\ Sessions'
  BY DEF OrphanInv, SessionTypes, Sessions
<1>2. MakingInv'
  BY DEF OrphanInv, SessionTypes, MakingInv, Unmade, Vacant
<1>. QED BY <1>1, <1>2 DEF OrphanInv

LEMMA InitManageStep == OrphanInv /\ InitManageIpCam => OrphanInv'
<1> SUFFICES ASSUME OrphanInv, InitManageIpCam PROVE OrphanInv'
  OBVIOUS
<1>1. UNCHANGED <<config, session, alive, foreign, made>> /\ mgr.op = "boot"
  BY DEF InitManageIpCam, camVars
<1>2. /\ DOMAIN mgr' = {"at", "op", "cam", "new", "todo"}
      /\ mgr'.at = "load" /\ mgr'.op = "init" /\ mgr'.cam = mgr.cam /\ mgr'.new = mgr.new
  BY DEF InitManageIpCam, OrphanInv, SessionTypes
<1>3. \A c \in Camera : Unmade(c)
  BY <1>1 DEF OrphanInv, MakingInv
<1>4. SessionTypes' /\ Sessions'
  BY <1>1, <1>2 DEF OrphanInv, SessionTypes, Sessions
<1>5. \A c \in Camera : Unmade(c)'
  BY <1>1, <1>3 DEF Unmade, Vacant
<1>6. MakingInv'
  BY <1>2, <1>4, <1>5 DEF MakingInv, SessionTypes
<1>. QED BY <1>4, <1>6 DEF OrphanInv

LEMMA LoadStep == OrphanInv /\ LoadConfig => OrphanInv'
<1> SUFFICES ASSUME OrphanInv, LoadConfig PROVE OrphanInv'
  OBVIOUS
<1>1. UNCHANGED <<session, alive, foreign, made>> /\ mgr.at = "load"
  BY DEF LoadConfig
<1>2. /\ DOMAIN mgr' = {"at", "op", "cam", "new", "todo"}
      /\ mgr'.at = "createMain" /\ mgr'.op = mgr.op /\ mgr'.cam = mgr.cam /\ mgr'.new = mgr.new
  BY Stepped DEF LoadConfig, Step
<1>3. Unmade(mgr.cam) /\ mgr.op = "init" /\ mgr.cam \in Camera
  BY <1>1 DEF OrphanInv, SessionTypes, MakingInv
<1>4. /\ config' \in [Camera -> Config]
      /\ \A c \in Camera : c # mgr.cam => config'[c] = config[c]
  BY <1>3, SessionsAssumption DEF LoadConfig, OrphanInv, SessionTypes
<1>5. SessionTypes' /\ Sessions'
  BY <1>1, <1>2, <1>4 DEF OrphanInv, SessionTypes, Sessions
<1>6. \A c \in Camera : Unmade(c)' <=> Unmade(c)
  BY <1>1 DEF Unmade, Vacant
<1>7. Unmade(mgr.cam)'
  BY <1>2, <1>3, <1>1 DEF Unmade, Vacant, SubKey
<1>8. \A c \in Camera : ~config'[c].on => Unmade(c)
  BY <1>3, <1>4 DEF OrphanInv, MakingInv
<1>9. MakingInv'
  BY <1>2, <1>3, <1>6, <1>7, <1>8 DEF MakingInv, OrphanInv
<1>. QED BY <1>5, <1>9 DEF OrphanInv

LEMMA StartManageStep == OrphanInv /\ StartManageIpCam => OrphanInv'
<1> SUFFICES ASSUME OrphanInv, StartManageIpCam PROVE OrphanInv'
  OBVIOUS
<1>1. UNCHANGED <<config, session, alive, foreign, made>>
  BY DEF StartManageIpCam, camVars
<1>2. /\ DOMAIN mgr' = {"at", "op", "cam", "new", "todo"}
      /\ mgr'.at = "start" /\ mgr'.op = "start" /\ mgr'.cam = mgr.cam /\ mgr'.new = mgr.new
  BY DEF StartManageIpCam, OrphanInv, SessionTypes
<1>3. mgr.cam \in Camera /\ mgr.new \in Config
  BY DEF OrphanInv, SessionTypes
<1>. QED BY <1>1, <1>2, <1>3, SessionsStay

\* Sessions of the keys S are stopped and deleted.
LEMMA Removed ==
  ASSUME NEW S \in SUBSET Key, OrphanInv,
         alive' = alive \ {session[k] : k \in S},
         session' = [k \in Key |-> IF k \in S THEN None ELSE session[k]],
         made' = made, foreign' = foreign
  PROVE  /\ session' \in [Key -> (Key \X Nat) \cup {None}]
         /\ Sessions'
         /\ \A c \in Camera : Unmade(c) => Unmade(c)'
<1>1. /\ session \in [Key -> (Key \X Nat) \cup {None}]
      /\ \A k \in Key : session[k] # None =>
           session[k] \in alive /\ \E n \in 0 .. made - 1 : session[k] = <<k, n>>
      /\ \A x \in alive : x \in Key \X Nat /\ (session[x[1]] = x \/ x[1] \in foreign)
  BY DEF OrphanInv, SessionTypes, Sessions
<1>2. /\ \A k \in Key \ S : session'[k] = session[k]
      /\ \A k \in S : session'[k] = None
  OBVIOUS
<1>3. session' \in [Key -> (Key \X Nat) \cup {None}]
  BY <1>1
<1>4. ASSUME NEW k \in Key, session'[k] # None
      PROVE  session'[k] \in alive' /\ \E n \in 0 .. made' - 1 : session'[k] = <<k, n>>
  <2>1. k \notin S /\ session'[k] = session[k] /\ session[k] # None
    BY <1>2, <1>4
  <2>2. PICK n \in 0 .. made - 1 : session[k] = <<k, n>>
    BY <1>1, <2>1
  <2>3. ASSUME NEW l \in S, session[l] = session[k] PROVE FALSE
    <3>1. PICK m : session[l] = <<l, m>>
      BY <1>1, <2>1, <2>3
    <3>. QED BY <2>1, <2>2, <2>3, <3>1
  <2>. QED BY <1>1, <2>1, <2>2, <2>3
<1>5. ASSUME NEW x \in alive'
      PROVE  x \in Key \X Nat /\ (session'[x[1]] = x \/ x[1] \in foreign')
  <2>1. x \in alive /\ \A k \in S : x # session[k]
    OBVIOUS
  <2>2. CASE session[x[1]] = x
    <3>1. x[1] \in Key \ S
      BY <1>1, <2>1, <2>2
    <3>. QED BY <1>1, <1>2, <2>1, <2>2, <3>1
  <2>. QED BY <1>1, <2>1, <2>2
<1>6. \A c \in Camera : Unmade(c) => Unmade(c)'
  BY <1>2, KeysOfCamera DEF Unmade, Vacant, SubKey
<1>. QED BY <1>3, <1>4, <1>5, <1>6 DEF Sessions

LEMMA StopManageStep == OrphanInv /\ StopManageIpCam => OrphanInv'
<1> SUFFICES ASSUME OrphanInv, StopManageIpCam PROVE OrphanInv'
  OBVIOUS
<1>1. UNCHANGED <<config, foreign, made, mgr>> /\ mgr.at = "idle" /\ mgr.op = "none"
  BY DEF StopManageIpCam
<1>2. /\ alive' = alive \ {session[k] : k \in Key}
      /\ session' = [k \in Key |-> IF k \in Key THEN None ELSE session[k]]
  BY DEF StopManageIpCam
<1>3. /\ session' \in [Key -> (Key \X Nat) \cup {None}] /\ Sessions'
      /\ \A c \in Camera : Unmade(c) => Unmade(c)'
  BY <1>1, <1>2, Removed, Key \in SUBSET Key
<1>4. SessionTypes'
  BY <1>1, <1>3 DEF OrphanInv, SessionTypes
<1>5. MakingInv'
  BY <1>1, <1>3 DEF OrphanInv, MakingInv
<1>. QED BY <1>3, <1>4, <1>5 DEF OrphanInv

LEMMA ChangeStep ==
  ASSUME NEW c \in Camera, NEW new \in Offered, OrphanInv, ChangeChnConfig(c, new)
  PROVE  OrphanInv'
<1> DEFINE set == [Idle EXCEPT !.op = "set", !.cam = c, !.new = new]
<1>1. UNCHANGED <<session, alive, foreign, made>> /\ mgr.at = "idle" /\ mgr.op = "none"
  BY DEF ChangeChnConfig, ChangeWith
<1>2. PICK at \in {"destroy", "createMain", "idle"} :
      /\ at = "idle" => UNCHANGED <<mgr, config>>
      /\ at # "idle" => mgr' = [set EXCEPT !.at = at]
      /\ at = "destroy" => config[c].on /\ (config' = config \/ new.on)
      /\ at = "createMain" => ~config[c].on
      /\ config' = config \/ config' = [config EXCEPT ![c] = new]
  BY DEF ChangeChnConfig, ChangeWith
<1>3. CASE at = "idle"
  <2>1. UNCHANGED <<mgr, config>>
    BY <1>2, <1>3
  <2>2. SessionTypes' /\ Sessions' /\ MakingInv'
    BY <1>1, <2>1 DEF OrphanInv, SessionTypes, Sessions, MakingInv, Unmade, Vacant
  <2>. QED BY <2>2 DEF OrphanInv
<1>4. CASE at # "idle"
  <2>1. /\ DOMAIN mgr' = {"at", "op", "cam", "new", "todo"}
        /\ mgr'.at = at /\ mgr'.op = "set" /\ mgr'.cam = c /\ mgr'.new = new
    BY <1>2, <1>4 DEF Idle
  <2>2. /\ config' \in [Camera -> Config]
        /\ \A d \in Camera : d # c => config'[d] = config[d]
        /\ config'[c] \in {config[c], new} /\ new \in Config
    BY <1>2, SessionsAssumption DEF OrphanInv, SessionTypes
  <2>3. SessionTypes' /\ Sessions'
    BY <1>1, <2>1, <2>2 DEF OrphanInv, SessionTypes, Sessions
  <2>4. \A d \in Camera : ~config'[d].on => Unmade(d)
    BY <1>2, <1>4, <2>2 DEF OrphanInv, MakingInv
  <2>5. \A d \in Camera : Unmade(d)' <=> Unmade(d)
    BY <1>1 DEF Unmade, Vacant
  <2>6. at = "createMain" => Unmade(mgr.cam)'
    BY <1>1, <1>2, <2>1 DEF OrphanInv, MakingInv, Unmade, Vacant, SubKey
  <2>7. MakingInv'
    BY <1>2, <1>4, <2>1, <2>4, <2>5, <2>6 DEF MakingInv
  <2>. QED BY <2>3, <2>7 DEF OrphanInv
<1>. QED BY <1>3, <1>4

LEMMA DestroyStep == OrphanInv /\ DestroyIpCamStream => OrphanInv'
<1> SUFFICES ASSUME OrphanInv, DestroyIpCamStream PROVE OrphanInv'
  OBVIOUS
<1> DEFINE S == {mgr.cam + IPCCHANNELBEGIN, SubKey(mgr.cam)}
<1>1. mgr.cam \in Camera /\ mgr.new \in Config /\ mgr.at = "destroy"
      /\ made' = made /\ foreign' = foreign
  BY DEF OrphanInv, SessionTypes, DestroyIpCamStream
<1>2. ToSet(KeysOf(mgr.cam)) = S /\ S \in SUBSET Key
  BY <1>1, KeysOfCamera
<1>3. /\ alive' = alive \ {session[k] : k \in S}
      /\ session' = [k \in Key |-> IF k \in S THEN None ELSE session[k]]
  BY <1>2 DEF DestroyIpCamStream
<1>4. /\ session' \in [Key -> (Key \X Nat) \cup {None}] /\ Sessions'
      /\ \A c \in Camera : Unmade(c) => Unmade(c)'
  BY <1>1, <1>2, <1>3, Removed
<1>5. session'[mgr.cam + IPCCHANNELBEGIN] = None /\ session'[SubKey(mgr.cam)] = None
  BY <1>2, <1>3
<1>6. /\ DOMAIN mgr' = {"at", "op", "cam", "new", "todo"}
      /\ mgr'.cam \in Camera /\ mgr'.new \in Config
      /\ \/ mgr'.at = "createMain" /\ mgr'.cam = mgr.cam /\ mgr'.op = mgr.op /\ config' = config
         \/ mgr'.at = "idle" /\ mgr'.op = "none" /\ ~mgr.new.on
            /\ config' = [config EXCEPT ![mgr.cam] = mgr.new]
  <2>1. CASE mgr.new.on
    BY <1>1, <2>1, Stepped DEF DestroyIpCamStream, Step
  <2>2. CASE ~mgr.new.on
    BY <1>1, <2>2, IdleFields DEF DestroyIpCamStream
  <2>. QED BY <2>1, <2>2
<1>7. SessionTypes'
  <2>1. config' \in [Camera -> Config]
    BY <1>1, <1>6 DEF OrphanInv, SessionTypes
  <2>2. made' \in Nat
    BY <1>1 DEF OrphanInv, SessionTypes
  <2>. QED BY <1>4, <1>6, <2>1, <2>2 DEF SessionTypes
<1>9. MakingInv'
  <2>1. CASE mgr'.at = "createMain"
    BY <1>1, <1>4, <1>5, <1>6, <2>1 DEF OrphanInv, MakingInv, Unmade, Vacant, SubKey
  <2>2. CASE mgr'.at = "idle"
    BY <1>1, <1>4, <1>5, <1>6, <2>2 DEF OrphanInv, SessionTypes, MakingInv, Unmade, Vacant, SubKey
  <2>. QED BY <1>6, <2>1, <2>2
<1>. QED BY <1>4, <1>7, <1>9 DEF OrphanInv

\* The keys that its number gives an enabled camera.
LEMMA NumberKeysAreKeys ==
  ASSUME NEW c \in Camera, OrphanInv, config[c].on
  PROVE  NumberKeys(c)[1] \in Key /\ NumberKeys(c)[2] \in Key
<1>1. config[c].channel \in MainKey
  BY DEF OrphanInv, SessionTypes, Config
<1>. QED BY <1>1 DEF NumberKeys, Key

\* A stream is created, or not: for the key of its place if that is vacant, or else
\* under a key that is foreign then.
LEMMA Created ==
  ASSUME NEW wanted, NEW next, NEW k, NEW own \in Key, OrphanInv, Vacant(own),
         config[mgr.cam].on => k \in Key, Create(wanted, k, own, next)
  PROVE  /\ session' \in [Key -> (Key \X Nat) \cup {None}] /\ Sessions' /\ made' \in Nat
         /\ config' = config /\ mgr' = next
         /\ \A l \in Key \ {own} : Vacant(l) => Vacant(l)'
         /\ ~config[mgr.cam].on => session' = session /\ foreign' = foreign
<1>1. /\ session \in [Key -> (Key \X Nat) \cup {None}] /\ made \in Nat
      /\ \A l \in Key : session[l] # None =>
           session[l] \in alive /\ \E n \in 0 .. made - 1 : session[l] = <<l, n>>
      /\ \A x \in alive : x \in Key \X Nat /\ (session[x[1]] = x \/ x[1] \in foreign)
  BY DEF OrphanInv, SessionTypes, Sessions
<1>2. config' = config /\ mgr' = next
  BY DEF Create
<1>3. CASE config[mgr.cam].on /\ wanted
  <2>1. /\ made' = made + 1 /\ alive' = alive \cup {<<k, made>>} /\ k \in Key
        /\ session' = [session EXCEPT ![k] =
                        IF session[k] = None THEN <<k, made>> ELSE session[k]]
        /\ foreign' = foreign \cup ({k} \ {own})
    BY <1>3 DEF Create
  <2>2. /\ session'[k] = IF session[k] = None THEN <<k, made>> ELSE session[k]
        /\ \A l \in Key \ {k} : session'[l] = session[l]
    BY <1>1, <2>1
  <2>3. <<k, made>> \in Key \X Nat /\ <<k, made>> # None
    BY <1>1, <2>1, SessionsAssumption
  <2>4. session' \in [Key -> (Key \X Nat) \cup {None}]
    BY <1>1, <2>1, <2>3
  <2>5. k # own => k \in foreign'
    BY <2>1
  <2>6. ASSUME NEW l \in Key, session'[l] # None
        PROVE  session'[l] \in alive' /\ \E n \in 0 .. made' - 1 : session'[l] = <<l, n>>
    <3>1. CASE l = k /\ session[k] = None
      BY <1>1, <2>1, <2>2, <3>1
    <3>2. CASE ~(l = k /\ session[k] = None)
      <4>1. session'[l] = session[l] /\ session[l] # None
        BY <2>2, <2>6, <3>2
      <4>2. PICK n \in 0 .. made - 1 : session[l] = <<l, n>>
        BY <1>1, <4>1
      <4>3. n \in 0 .. made' - 1
        BY <1>1, <2>1
      <4>. QED BY <1>1, <2>1, <4>1, <4>2, <4>3
    <3>. QED BY <3>1, <3>2
  <2>7. ASSUME NEW x \in alive'
        PROVE  x \in Key \X Nat /\ (session'[x[1]] = x \/ x[1] \in foreign')
    <3>1. CASE x = <<k, made>>
      <4>1. x \in Key \X Nat /\ x[1] = k
        BY <2>3, <3>1
      <4>2. CASE session[k] = None
        BY <2>2, <3>1, <4>1, <4>2
      <4>3. CASE session[k] # None
        <5>1. k \in foreign'
          BY <2>1, <2>5, <4>3 DEF Vacant
        <5>. QED BY <4>1, <5>1
      <4>. QED BY <4>2, <4>3
    <3>2. CASE x # <<k, made>>
      <4>1. x \in alive /\ x \in Key \X Nat /\ x # None
        BY <1>1, <2>1, <3>2, SessionsAssumption
      <4>2. session[x[1]] = x => session'[x[1]] = x
        BY <2>2, <4>1
      <4>. QED BY <1>1, <2>1, <4>1, <4>2
    <3>. QED BY <3>1, <3>2
  <2>8. \A l \in Key \ {own} : Vacant(l) => Vacant(l)'
    BY <2>1, <2>2, <2>5 DEF Vacant
  <2>9. Sessions'
    BY <2>6, <2>7 DEF Sessions
  <2>10. made' \in Nat
    BY <1>1, <2>1
  <2>. QED BY <1>2, <1>3, <2>4, <2>8, <2>9, <2>10
<1>4. CASE ~(config[mgr.cam].on /\ wanted)
  <2>1. UNCHANGED <<made, alive, session, foreign>>
    BY <1>4 DEF Create
  <2>. QED BY <1>1, <1>2, <2>1 DEF Sessions, Vacant
<1>. QED BY <1>3, <1>4

LEMMA LaterCameras ==
  ASSUME NEW cam \in Camera
  PROVE  \A c \in Camera : c > cam => c \in Camera \ {cam}
<1> SUFFICES ASSUME NEW c \in Camera, c > cam PROVE c # cam
  OBVIOUS
<1>1. cam \in Int
  BY DEF Camera
<1>. QED BY <1>1

LEMMA CreateStep == OrphanInv /\ CreateIpCamStream => OrphanInv'
<1> SUFFICES ASSUME OrphanInv, CreateIpCamStream PROVE OrphanInv'
  OBVIOUS
<1>1. PICK cam \in Camera : mgr.cam = cam
  BY DEF OrphanInv, SessionTypes
<1>2. /\ cam + IPCCHANNELBEGIN \in Key /\ SubKey(cam) \in Key
      /\ KeysOf(cam)[1] = cam + IPCCHANNELBEGIN /\ KeysOf(cam)[2] = SubKey(cam)
      /\ cam + IPCCHANNELBEGIN # SubKey(cam)
      /\ config[cam].on => NumberKeys(cam)[1] \in Key /\ NumberKeys(cam)[2] \in Key
  BY KeysOfCamera, NumberKeysAreKeys
<1>3. mgr.new \in Config /\ DOMAIN mgr = {"at", "op", "cam", "new", "todo"}
      /\ cam \in Int /\ MAXIPCNUM \in Nat
      /\ (mgr.op = "boot" => mgr.at = "idle")
  BY <1>1, SessionsAssumption DEF OrphanInv, SessionTypes, MakingInv, Camera
<1>4. /\ \A c \in Camera : ~config[c].on => Unmade(c)
      /\ mgr.op = "init" => \A c \in Camera : c > cam => Unmade(c)
  BY <1>1 DEF OrphanInv, MakingInv
<1>5. ASSUME NEW own \in {cam + IPCCHANNELBEGIN, SubKey(cam)},
             \A l \in Key \ {own} : Vacant(l) => Vacant(l)',
             ~config[cam].on => session' = session /\ foreign' = foreign,
             config' = config
      PROVE  /\ \A c \in Camera : ~config'[c].on => Unmade(c)'
             /\ mgr.op = "init" => \A c \in Camera : c > cam => Unmade(c)'
  <2>1. \A c \in Camera \ {cam} : Unmade(c) => Unmade(c)'
    BY <1>2, <1>5, KeysOfCamera DEF Unmade, SubKey
  <2>2. ~config[cam].on => Unmade(cam)'
    BY <1>4, <1>5 DEF Unmade, Vacant, SubKey
  <2>. QED BY <1>4, <1>5, <2>1, <2>2, LaterCameras
<1>6. CASE mgr.at = "createMain"
  <2>1. Unmade(cam)
    BY <1>1, <1>6 DEF OrphanInv, MakingInv
  <2>2. Create(config[cam].main, NumberKeys(cam)[1], cam + IPCCHANNELBEGIN,
               [mgr EXCEPT !.at = "createSub"])
    BY <1>1, <1>2, <1>6 DEF CreateIpCamStream
  <2>3. /\ DOMAIN mgr' = {"at", "op", "cam", "new", "todo"} /\ mgr'.at = "createSub"
        /\ mgr'.op = mgr.op /\ mgr'.cam = cam /\ mgr'.new = mgr.new
    BY <1>1, <1>3, <2>2 DEF Create
  <2>4. /\ session' \in [Key -> (Key \X Nat) \cup {None}] /\ Sessions' /\ made' \in Nat
        /\ config' = config
        /\ \A l \in Key \ {cam + IPCCHANNELBEGIN} : Vacant(l) => Vacant(l)'
        /\ ~config[cam].on => session' = session /\ foreign' = foreign
    BY <1>1, <1>2, <2>1, <2>2, Created DEF Unmade
  <2>5. SessionTypes'
    BY <1>3, <2>3, <2>4 DEF OrphanInv, SessionTypes
  <2>6. Vacant(SubKey(cam))'
    BY <1>2, <2>1, <2>4 DEF Unmade, SubKey
  <2>7. /\ \A c \in Camera : ~config'[c].on => Unmade(c)'
        /\ mgr.op = "init" => \A c \in Camera : c > cam => Unmade(c)'
    BY <1>5, <2>4
  <2>8. MakingInv'
    BY <1>3, <1>6, <2>3, <2>6, <2>7 DEF MakingInv, SubKey
  <2>. QED BY <2>4, <2>5, <2>8 DEF OrphanInv
<1>7. CASE mgr.at = "createSub"
  <2>1. Vacant(SubKey(cam))
    BY <1>1, <1>7 DEF OrphanInv, MakingInv
  <2>2. Create(config[cam].sub, NumberKeys(cam)[2], SubKey(cam), AfterCreate)
    BY <1>1, <1>2, <1>7 DEF CreateIpCamStream
  <2>3. /\ DOMAIN mgr' = {"at", "op", "cam", "new", "todo"}
        /\ mgr'.cam \in Camera /\ mgr'.new \in Config
        /\ \/ mgr'.at = "load" /\ mgr'.op = "init" /\ mgr.op = "init" /\ mgr'.cam = cam + 1
           \/ mgr'.at = "idle" /\ mgr'.op = "none"
           \/ mgr'.at = "lock" /\ mgr'.op = mgr.op /\ mgr.op # "init"
    <3>1. CASE mgr.op = "init" /\ cam < MAXIPCNUM - 1
      <4>1. mgr' = [mgr EXCEPT !.at = "load", !.cam = cam + 1]
        BY <1>1, <2>2, <3>1 DEF Create, AfterCreate
      <4>2. cam + 1 \in Camera
        BY <1>3, <3>1 DEF Camera
      <4>. QED BY <1>3, <3>1, <4>1, <4>2
    <3>2. CASE mgr.op = "init" /\ ~(cam < MAXIPCNUM - 1)
      BY <1>1, <2>2, <3>2, IdleFields DEF Create, AfterCreate
    <3>3. CASE mgr.op # "init"
      <4>1. mgr' = [mgr EXCEPT !.at = "lock", !.todo = KeysOf(mgr.cam)]
        BY <2>2, <3>3 DEF Create, AfterCreate
      <4>. QED BY <1>1, <1>3, <3>3, <4>1
    <3>. QED BY <3>1, <3>2, <3>3
  <2>4. /\ session' \in [Key -> (Key \X Nat) \cup {None}] /\ Sessions' /\ made' \in Nat
        /\ config' = config
        /\ \A l \in Key \ {SubKey(cam)} : Vacant(l) => Vacant(l)'
        /\ ~config[cam].on => session' = session /\ foreign' = foreign
    BY <1>1, <1>2, <2>1, <2>2, Created
  <2>5. SessionTypes'
    BY <2>3, <2>4 DEF OrphanInv, SessionTypes
  <2>7. /\ \A c \in Camera : ~config'[c].on => Unmade(c)'
        /\ mgr.op = "init" => \A c \in Camera : c > cam => Unmade(c)'
    BY <1>5, <2>4
  <2>12. CASE mgr'.at = "load"
    <3>1. cam + 1 \in Camera /\ mgr.op = "init" /\ mgr'.op = "init" /\ mgr'.cam = cam + 1
      BY <2>3, <2>12
    <3>2. \A c \in Camera : c \in Int
      BY DEF Camera
    <3>3. \A c \in Camera : c > cam + 1 => Unmade(c)'
      BY <1>3, <2>7, <3>1, <3>2
    <3>4. (cam + 1) > cam
      BY <1>3
    <3>5. Vacant(cam + 1 + IPCCHANNELBEGIN)' /\ Vacant(SubKey(cam + 1))'
      BY <2>7, <3>1, <3>4 DEF Unmade, SubKey
    <3>6. Unmade(mgr.cam)'
      BY <3>1, <3>5 DEF Unmade, SubKey
    <3>7. MakingInv'
      BY <2>7, <2>12, <3>1, <3>3, <3>6 DEF MakingInv
    <3>. QED BY <2>4, <2>5, <3>7 DEF OrphanInv
  <2>13. CASE mgr'.at # "load"
    <3>1. MakingInv'
      BY <1>3, <1>7, <2>3, <2>7, <2>13 DEF MakingInv
    <3>. QED BY <2>4, <2>5, <3>1 DEF OrphanInv
  <2>. QED BY <2>12, <2>13
<1>. QED BY <1>6, <1>7 DEF CreateIpCamStream

LEMMA LockStartStep == OrphanInv /\ LockStart => OrphanInv'
<1> SUFFICES ASSUME OrphanInv, LockStart PROVE OrphanInv'
  OBVIOUS
<1>1. /\ UNCHANGED <<config, session, alive, foreign, made>> /\ mgr.at = "lock"
      /\ mgr' = [mgr EXCEPT !.at = "start"]
  BY DEF LockStart, Step, camVars
<1>2. mgr.cam \in Camera /\ mgr.new \in Config /\ mgr.op # "boot"
  BY <1>1 DEF OrphanInv, SessionTypes, MakingInv
<1>. QED BY <1>1, <1>2, Stepped, SessionsStay

LEMMA StartSessionStep == OrphanInv /\ StartSession => OrphanInv'
<1> SUFFICES ASSUME OrphanInv, StartSession PROVE OrphanInv'
  OBVIOUS
<1>1. UNCHANGED <<config, session, alive, foreign, made>> /\ mgr.at = "start"
  BY DEF StartSession
<1>2. \/ mgr' = [mgr EXCEPT !.at = "rtmp"]
      \/ mgr' = [mgr EXCEPT !.todo = Tail(@)]
  BY DEF StartSession, Step
<1>3. mgr.cam \in Camera /\ mgr.new \in Config /\ mgr.op # "boot"
      /\ DOMAIN mgr = {"at", "op", "cam", "new", "todo"}
  BY <1>1 DEF OrphanInv, SessionTypes, MakingInv
<1>4. /\ DOMAIN mgr' = {"at", "op", "cam", "new", "todo"}
      /\ mgr'.at \in {"rtmp", "start"}
      /\ mgr'.op = mgr.op /\ mgr'.cam = mgr.cam /\ mgr'.new = mgr.new
  BY <1>1, <1>2, <1>3
<1>. QED BY <1>1, <1>3, <1>4, SessionsStay

LEMMA RtmpOfSession == OrphanInv /\ (InitRtmp \/ NoteRtmp) => OrphanInv'
<1> SUFFICES ASSUME OrphanInv, InitRtmp \/ NoteRtmp PROVE OrphanInv'
  OBVIOUS
<1>1. UNCHANGED <<config, session, alive, foreign, made>> /\ mgr.at \in {"rtmp", "rtmpWait"}
  BY DEF InitRtmp, InitRtmpUnless, NoteRtmp, camVars
<1>2. \/ mgr' = [mgr EXCEPT !.at = "rtmpWait"]
      \/ mgr' = [mgr EXCEPT !.at = "start", !.todo = Tail(@)]
  BY DEF InitRtmp, InitRtmpUnless, NoteRtmp, Step
<1>3. mgr.cam \in Camera /\ mgr.new \in Config /\ mgr.op # "boot"
      /\ DOMAIN mgr = {"at", "op", "cam", "new", "todo"}
  BY <1>1 DEF OrphanInv, SessionTypes, MakingInv
<1>4. /\ DOMAIN mgr' = {"at", "op", "cam", "new", "todo"}
      /\ mgr'.at \in {"rtmpWait", "start"}
      /\ mgr'.op = mgr.op /\ mgr'.cam = mgr.cam /\ mgr'.new = mgr.new
  BY <1>2, <1>3
<1>. QED BY <1>1, <1>3, <1>4, SessionsStay

LEMMA EndStartStep == OrphanInv /\ EndStart => OrphanInv'
<1> SUFFICES ASSUME OrphanInv, EndStart PROVE OrphanInv'
  OBVIOUS
<1>1. UNCHANGED <<config, session, alive, foreign, made>> /\ mgr' = Idle
  BY DEF EndStart, camVars
<1>. QED BY <1>1, IdleFields, SessionsStay

LEMMA Unconcerned ==
  ASSUME OrphanInv, UNCHANGED <<camVars, mgr>>
  PROVE  OrphanInv'
BY DEF OrphanInv, SessionTypes, Sessions, MakingInv, Unmade, Vacant, camVars

LEMMA OrphanInit == Init => OrphanInv
<1> SUFFICES ASSUME Init PROVE OrphanInv
  OBVIOUS
<1>1. /\ DOMAIN mgr = {"at", "op", "cam", "new", "todo"} /\ mgr.at = "idle"
      /\ mgr.op = "boot" /\ mgr.cam = 0 /\ mgr.cam \in Camera /\ mgr.new \in Config
  BY IdleFields DEF Init, Idle
<1>2. \A k \in Key : session[k] = None
  BY DEF Init
<1>3. SessionTypes /\ Sessions
  BY <1>1, <1>2, NoConfigIsOff DEF Init, SessionTypes, Sessions
<1>4. \A c \in Camera : Unmade(c)
  BY <1>2, KeysOfCamera DEF Unmade, Vacant, SubKey
<1>5. MakingInv
  BY <1>1, <1>4 DEF MakingInv
<1>. QED BY <1>3, <1>5 DEF OrphanInv

LEMMA OrphanInductive == OrphanInv /\ [Next]_vars => OrphanInv'
<1> SUFFICES ASSUME OrphanInv, [Next]_vars PROVE OrphanInv'
  OBVIOUS
<1>1. CASE InitManageIpCam  BY <1>1, InitManageStep
<1>2. CASE StartManageIpCam  BY <1>2, StartManageStep
<1>3. CASE StopManageIpCam  BY <1>3, StopManageStep
<1>4. CASE \E c \in Camera, new \in Offered : ChangeChnConfig(c, new)
  BY <1>4, ChangeStep
<1>5. CASE Working
  BY <1>5, LoadStep, DestroyStep, CreateStep, LockStartStep, StartSessionStep,
     RtmpOfSession, EndStartStep DEF Working
<1>6. CASE RtmpStep  BY <1>6, Unconcerned DEF RtmpStep
<1>7. CASE CheckVideoExits  BY <1>7, Unconcerned DEF CheckVideoExits
<1>8. CASE UNCHANGED vars  BY <1>8, Unconcerned DEF vars
<1>. QED BY <1>1, <1>2, <1>3, <1>4, <1>5, <1>6, <1>7, <1>8 DEF Next

\* Whatever the manager does to the cameras and however their configuration
\* changes, a session object that exists is in the map under its key, but for the
\* keys under which a camera with another's number has made a session; and no
\* deleted object is in the map.
THEOREM OrphanCorrect == Spec => []NoOrphan
BY OrphanInit, OrphanImplies, OrphanInductive, PTL DEF Spec

(***************************************************************************)
(* The RTMP channels of the cameras: a channel in g_inited_rtmp_channels   *)
(* stays open for good, unless its initialisation failed, and a main       *)
(* stream that was started has its channel there, or the manager is about  *)
(* to put it there.                                                        *)
(***************************************************************************)
Rtmps == {Logical(c) : c \in Camera}
Opened(ch) == ctx[ch].start /\ \E m : {n \in mux : n.ch = ch} = {m}
Shut(ch) == ~ctx[ch].start /\ \A m \in mux : m.ch # ch
Calls == [at : Rtmp!Step, ch : Rtmps \cup {None}, tid : Rtmp!Id \cup {None},
          live : BOOLEAN]

\* The key whose session is being started, and its channel.
Now == Head(mgr.todo)
ChannelNow == LogicalOf(Now)
Opening == {"rtmp", "rtmpWait"}

StreamTypes ==
  /\ ctx \in [Rtmps -> Rtmp!Context]
  /\ call \in [{Manager} -> Calls]
  /\ calls \in [{Manager} -> Nat]
  /\ mgr.todo \in Seq(Key) /\ (mgr.at \in Opening => mgr.todo # <<>>)
  /\ \A x \in started : \E k \in Key, n \in 0 .. made - 1 : x = <<k, n>>

\* Where the manager is in its operations.
Course ==
  /\ mgr.op \in {"boot", "init"} => started = {}
  /\ mgr.at \in {"start"} \cup Opening => mgr.op # "init"
  /\ mgr.at \in {"destroy", "lock"} => mgr.op = "set"
  /\ mgr.at \in {"createMain", "createSub"} => mgr.op \in {"init", "set"}
  /\ mgr.at = "lock" => mgr.todo = KeysOf(mgr.cam)

InitedOpen ==
  /\ \A ch \in inited : ch \in Rtmps /\ (Opened(ch) \/ ch \in refused)
  /\ \A ch \in Rtmps \ inited : Shut(ch) \/ (mgr.at = "rtmpWait" /\ ch = ChannelNow)

CallInit ==
  /\ mgr.at \in Opening => Now \in MainKey
  /\ mgr.at # "rtmpWait" => call[Manager].at = "off"
  /\ mgr.at = "rtmpWait" =>
       /\ ChannelNow \in Rtmps \ inited
       /\ IF call[Manager].at = "off"
            THEN Opened(ChannelNow) \/ ChannelNow \in refused
            ELSE /\ call[Manager].ch = ChannelNow /\ Shut(ChannelNow)
                 /\ call[Manager].at \in
                      {"check", "clear", "create", "connect", "handshake", "start", "undo"}

\* The configuration of the camera at this place is being changed: the session of
\* its main stream will be started again if it still exists.
Pending(k) ==
  /\ mgr.op = "set" /\ k = KeysOf(mgr.cam)[1]
  /\ \/ mgr.at \in {"destroy", "createMain", "createSub", "lock"}
     \/ mgr.at = "start" /\ mgr.todo = KeysOf(mgr.cam)

Served(k) ==
  \/ LogicalOf(k) < 0 \/ LogicalOf(k) \in inited
  \/ mgr.at \in Opening /\ Now = k
  \/ Pending(k)

StartedInited == \A k \in MainKey : session[k] \in started => Served(k)

RtmpInv == StreamTypes /\ Course /\ InitedOpen /\ CallInit /\ StartedInited

LEMMA KeysAreKeys ==
  /\ Keys \in Seq(Key) /\ Idle.todo \in Seq(Key)
  /\ \A c \in Camera : KeysOf(c) \in Seq(Key)
<1>1. IPCCHANNELBEGIN \in Nat /\ MAXIPCNUM \in Nat \ {0}
  BY SessionsAssumption
<1>2. ASSUME NEW i \in 1 .. 2 * MAXIPCNUM PROVE IPCCHANNELBEGIN + i - 1 \in Key
  <2>1. CASE i <= MAXIPCNUM
    <3>1. i - 1 \in Camera /\ IPCCHANNELBEGIN + i - 1 = (i - 1) + IPCCHANNELBEGIN
      BY <1>1, <2>1 DEF Camera
    <3>. QED BY <3>1 DEF Key, MainKey
  <2>2. CASE i > MAXIPCNUM
    <3> DEFINE c == i - 1 - MAXIPCNUM
    <3>1. c \in Camera /\ IPCCHANNELBEGIN + i - 1 = (c + IPCCHANNELBEGIN) + MAXIPCNUM
      BY <1>1, <2>2 DEF Camera
    <3> HIDE DEF c
    <3>2. c + IPCCHANNELBEGIN \in MainKey
      BY <3>1 DEF MainKey
    <3>. QED BY <3>1, <3>2 DEF Key
  <2>. QED BY <1>1, <2>1, <2>2
<1>3. Keys \in Seq(Key)
  <2>1. Keys \in [1 .. 2 * MAXIPCNUM -> Key]
    BY <1>2 DEF Keys
  <2>2. 2 * MAXIPCNUM \in Nat
    BY <1>1
  <2>. QED BY <2>1, <2>2, SeqDef
<1>4. ASSUME NEW c \in Camera PROVE KeysOf(c) \in Seq(Key)
  <2>1. c + IPCCHANNELBEGIN \in Key /\ c + IPCCHANNELBEGIN + MAXIPCNUM \in Key
    BY KeysOfCamera DEF SubKey
  <2>. QED BY <2>1 DEF KeysOf
<1>. QED BY <1>3, <1>4 DEF Idle

\* The camera of a key, and the channel its number stands for.
LEMMA ChannelOfKey ==
  ASSUME NEW k \in MainKey, OrphanInv
  PROVE  /\ CameraOf(k) \in Camera /\ KeysOf(CameraOf(k))[1] = k
         /\ LogicalOf(k) \in Int /\ (LogicalOf(k) >= 0 => LogicalOf(k) \in Rtmps)
<1>1. PICK c \in Camera : k = c + IPCCHANNELBEGIN
  BY DEF MainKey
<1>2. c \in 0 .. MAXIPCNUM - 1 /\ IPCCHANNELBEGIN \in Nat \ {0} /\ MAXIPCNUM \in Nat \ {0}
  BY SessionsAssumption DEF Camera
<1>3. k - IPCCHANNELBEGIN = c
  BY <1>1, <1>2
<1>4. CameraOf(k) = c /\ KeysOf(c)[1] = k
  BY <1>1, <1>2, <1>3 DEF CameraOf, KeysOf
<1>5. config[c].channel \in MainKey \cup {0}
  BY DEF OrphanInv, SessionTypes, Config
<1>6. CASE config[c].channel = 0
  BY <1>4, <1>6 DEF LogicalOf
<1>7. CASE config[c].channel \in MainKey
  <2>1. PICK d \in Camera : config[c].channel = d + IPCCHANNELBEGIN
    BY <1>7 DEF MainKey
  <2>2. d \in Int
    BY DEF Camera
  <2>3. LogicalOf(k) = Logical(d)
    BY <1>2, <1>4, <2>1, <2>2 DEF LogicalOf, Logical
  <2>. QED BY <1>2, <1>4, <2>2, <2>3 DEF Rtmps, Logical
<1>. QED BY <1>4, <1>5, <1>6, <1>7

\* Two cameras have not the same key.
LEMMA KeyOfOne ==
  ASSUME NEW k \in MainKey, OrphanInv, NEW c \in Camera
  PROVE  KeysOf(c)[1] = k <=> CameraOf(k) = c
<1>1. CameraOf(k) \in Camera /\ KeysOf(CameraOf(k))[1] = k
  BY ChannelOfKey
<1>2. c \in Int /\ CameraOf(k) \in Int /\ IPCCHANNELBEGIN \in Int
  BY <1>1, SessionsAssumption DEF Camera
<1>3. KeysOf(c)[1] = c + IPCCHANNELBEGIN /\ k = CameraOf(k) + IPCCHANNELBEGIN
  BY <1>1 DEF KeysOf
<1> HIDE DEF CameraOf
<1>. QED BY <1>2, <1>3

\* The manager does something else than opening a channel.
LEMMA Elsewhere ==
  ASSUME OrphanInv, RtmpInv, UNCHANGED <<started, inited, rtmpVars>>,
         \/ mgr' = mgr /\ config' = config
         \/ mgr.at \notin Opening /\ mgr'.at \notin Opening /\ mgr'.todo \in Seq(Key),
         made' = made \/ made' = made + 1,
         \A k \in Key : session'[k] \in {session[k], None, <<k, made>>},
         Course',
         \A k \in MainKey : session'[k] = session[k] /\ session[k] \in started
                              /\ Served(k) => Served(k)'
  PROVE  RtmpInv'
<1>1. UNCHANGED <<started, inited, refused, ctx, call, calls, mux>>
  BY DEF rtmpVars
<1>2. made \in Nat /\ MainKey \subseteq Key
  BY DEF OrphanInv, SessionTypes, Key
<1>3. StreamTypes'
  <2>1. \A x \in started : \E k \in Key, n \in 0 .. made' - 1 : x = <<k, n>>
    BY <1>2 DEF RtmpInv, StreamTypes
  <2>. QED BY <1>1, <2>1 DEF RtmpInv, StreamTypes
<1>4. mgr'.at = "rtmpWait" \/ mgr.at = "rtmpWait" => mgr' = mgr /\ config' = config
  BY DEF Opening
<1>5. mgr' = mgr /\ config' = config => Now' = Now /\ ChannelNow' = ChannelNow
  BY DEF Now, ChannelNow, LogicalOf
<1>6. InitedOpen'
  <2>1. \A ch \in Rtmps : (Opened(ch) => Opened(ch)') /\ (Shut(ch) => Shut(ch)')
    BY <1>1 DEF Opened, Shut
  <2>. QED BY <1>1, <1>4, <1>5, <2>1 DEF RtmpInv, InitedOpen
<1>7. CallInit'
  <2>1. CASE mgr' = mgr /\ config' = config
    <3>1. (Opened(ChannelNow) => Opened(ChannelNow)') /\ (Shut(ChannelNow) => Shut(ChannelNow)')
      BY <1>1, <1>5, <2>1 DEF Opened, Shut
    <3>. QED BY <1>1, <1>5, <2>1, <3>1 DEF RtmpInv, CallInit
  <2>2. CASE mgr.at \notin Opening /\ mgr'.at \notin Opening
    BY <1>1, <2>2 DEF RtmpInv, CallInit, Opening
  <2>. QED BY <2>1, <2>2
<1>8. StartedInited'
  <2>1. \A k \in MainKey : None \notin started /\ <<k, made>> \notin started
    BY <1>2, SessionsAssumption DEF RtmpInv, StreamTypes
  <2>2. \A k \in MainKey : session'[k] \in started => session'[k] = session[k]
    BY <1>2, <2>1
  <2>. QED BY <1>1, <2>2 DEF RtmpInv, StartedInited
<1>. QED BY <1>3, <1>6, <1>7, <1>8 DEF RtmpInv

\* The manager starts a session, and goes on to its channel if it is a main stream.
LEMMA StartSessionStreams ==
  ASSUME OrphanInv, RtmpInv, StartSession
  PROVE  RtmpInv'
<1>1. /\ DOMAIN mgr = {"at", "op", "cam", "new", "todo"} /\ mgr.todo \in Seq(Key)
      /\ session \in [Key -> (Key \X Nat) \cup {None}] /\ made \in Nat
      /\ \A k \in Key : session[k] # None => \E n \in 0 .. made - 1 : session[k] = <<k, n>>
      /\ \A x \in started : \E k \in Key, n \in 0 .. made - 1 : x = <<k, n>>
  BY DEF OrphanInv, SessionTypes, Sessions, RtmpInv, StreamTypes
<1>2. /\ UNCHANGED <<config, session, made, inited, refused, ctx, call, calls, mux>>
      /\ mgr.at = "start" /\ mgr.todo # <<>>
  BY DEF StartSession, rtmpVars
<1>3. MainKey \subseteq Key /\ Now \in Key /\ Tail(mgr.todo) \in Seq(Key)
  BY <1>1, <1>2 DEF Key, Now
<1>4. \/ /\ mgr'.at = "start" /\ mgr'.todo = Tail(mgr.todo)
         /\ \/ started' = started /\ session[Now] = None
            \/ Now \notin MainKey /\ session[Now] # None /\ started' = started \cup {session[Now]}
      \/ /\ mgr'.at = "rtmp" /\ mgr'.todo = mgr.todo /\ Now \in MainKey
         /\ session[Now] # None /\ started' = started \cup {session[Now]}
  BY <1>1, <1>2 DEF StartSession, Step, Now
<1>5. mgr'.at \in Opening => Now' = Now /\ Now \in MainKey
  BY <1>4 DEF Opening, Now
<1>6. mgr'.op = mgr.op /\ mgr'.cam = mgr.cam
  BY <1>1, <1>2 DEF StartSession, Step
<1>7. InitedOpen' /\ CallInit'
  <2>1. mgr'.at # "rtmpWait" /\ mgr.at # "rtmpWait"
    BY <1>2, <1>4
  <2>2. InitedOpen'
    BY <1>2, <2>1 DEF RtmpInv, InitedOpen, Opened, Shut
  <2>3. CallInit'
    BY <1>2, <1>5, <2>1 DEF RtmpInv, CallInit
  <2>. QED BY <2>2, <2>3
<1>8. StreamTypes'
  <2>1. \A x \in started' : \E k \in Key, n \in 0 .. made - 1 : x = <<k, n>>
    <3>1. session[Now] # None => \E k \in Key, n \in 0 .. made - 1 : session[Now] = <<k, n>>
      BY <1>1, <1>3
    <3>2. \A x \in started' : x \in started \/ (x = session[Now] /\ session[Now] # None)
      BY <1>4
    <3>. QED BY <1>1, <3>1, <3>2
  <2>2. mgr'.todo \in Seq(Key) /\ (mgr'.at \in Opening => mgr'.todo # <<>>)
    BY <1>1, <1>2, <1>3, <1>4 DEF Opening
  <2>3. ctx \in [Rtmps -> Rtmp!Context] /\ call \in [{Manager} -> Calls]
        /\ calls \in [{Manager} -> Nat]
    BY DEF RtmpInv, StreamTypes
  <2>. QED BY <1>2, <2>1, <2>2, <2>3 DEF StreamTypes
<1>9. Course'
  <2>1. mgr.op \notin {"boot", "init"}
    BY <1>2 DEF RtmpInv, Course, OrphanInv, MakingInv
  <2>. QED BY <1>4, <1>6, <2>1 DEF Course
<1>10. StartedInited'
  <2> SUFFICES ASSUME NEW k \in MainKey, session[k] \in started' PROVE Served(k)'
    BY <1>2 DEF StartedInited
  <2>1. CASE k = Now /\ session[Now] = None
    <3>1. None \notin started /\ started' = started
      BY <1>1, <1>4, <2>1, SessionsAssumption
    <3>. QED BY <2>1, <3>1
  <2>2. CASE k = Now /\ session[Now] # None
    BY <1>4, <1>5, <2>2 DEF Served, Opening
  <2>3. CASE k # Now
    <3>1. session[k] \in started
      <4>1. CASE session[k] = session[Now] /\ session[Now] # None
        <5>1. PICK m : session[k] = <<k, m>>
          BY <1>1, <1>3, <4>1
        <5>2. PICK n : session[Now] = <<Now, n>>
          BY <1>1, <1>3, <4>1
        <5>3. <<k, m>> = <<Now, n>>
          BY <4>1, <5>1, <5>2
        <5>. QED BY <2>3, <5>3
      <4>. QED BY <1>4, <4>1
    <3>2. ~Pending(k)
      BY <1>2, <2>3 DEF Pending, Now, KeysOf
    <3>3. LogicalOf(k) < 0 \/ LogicalOf(k) \in inited
      BY <1>2, <3>1, <3>2 DEF RtmpInv, StartedInited, Served, Opening
    <3>. QED BY <1>2, <3>3 DEF Served, LogicalOf
  <2>. QED BY <2>1, <2>2, <2>3
<1>. QED BY <1>7, <1>8, <1>9, <1>10 DEF RtmpInv

LEMMA PlainSteps ==
  ASSUME OrphanInv, RtmpInv,
         \/ InitManageIpCam \/ LoadConfig \/ StartManageIpCam \/ StopManageIpCam
         \/ LockStart \/ EndStart \/ CheckVideoExits \/ UNCHANGED vars
  PROVE  RtmpInv'
<1>1. /\ DOMAIN mgr = {"at", "op", "cam", "new", "todo"} /\ mgr.cam \in Camera
      /\ session \in [Key -> (Key \X Nat) \cup {None}] /\ mgr.todo \in Seq(Key)
  BY DEF OrphanInv, SessionTypes, RtmpInv, StreamTypes
<1>2. Course
  BY DEF RtmpInv
<1>3. CASE InitManageIpCam \/ LoadConfig
  <2>1. UNCHANGED <<session, made, started, inited, rtmpVars>>
    BY <1>3 DEF InitManageIpCam, LoadConfig, camVars
  <2>2. /\ mgr.at \in {"idle", "load"} /\ mgr'.at \in {"load", "createMain"}
        /\ mgr.op \in {"boot", "init"} /\ mgr'.op = "init" /\ mgr'.todo = mgr.todo
    <3>1. CASE InitManageIpCam
      BY <1>1, <3>1 DEF InitManageIpCam
    <3>2. CASE LoadConfig
      BY <1>1, <3>2 DEF LoadConfig, Step, OrphanInv, MakingInv
    <3>. QED BY <1>3, <3>1, <3>2
  <2>3. started = {} /\ Course'
    BY <1>2, <2>1, <2>2 DEF Course, Opening
  <2>. QED BY <1>1, <2>1, <2>2, <2>3, Elsewhere DEF Opening
<1>4. CASE StartManageIpCam \/ LockStart \/ EndStart
  <2>1. UNCHANGED <<config, session, made, started, inited, rtmpVars>>
    BY <1>4 DEF StartManageIpCam, LockStart, EndStart, camVars
  <2>2. \A k \in Key : LogicalOf(k)' = LogicalOf(k)
    BY <2>1 DEF LogicalOf
  <2>3. CASE StartManageIpCam
    <3>1. /\ mgr.at = "idle" /\ mgr.op = "none" /\ mgr'.at = "start" /\ mgr'.op = "start"
          /\ mgr'.todo \in Seq(Key)
      BY <1>1, <2>3, KeysAreKeys DEF StartManageIpCam
    <3>2. Course'
      BY <1>2, <2>1, <3>1 DEF Course, Opening
    <3>3. \A k \in MainKey : Served(k) => Served(k)'
      BY <2>1, <2>2, <3>1 DEF Served, Pending, Opening, Key
    <3>. QED BY <2>1, <3>1, <3>2, <3>3, Elsewhere DEF Opening
  <2>4. CASE LockStart
    <3>1. /\ mgr.at = "lock" /\ mgr'.at = "start" /\ mgr'.op = mgr.op
          /\ mgr'.cam = mgr.cam /\ mgr'.todo = mgr.todo
      BY <1>1, <2>4 DEF LockStart, Step
    <3>2. mgr.op = "set" /\ mgr.todo = KeysOf(mgr.cam)
      BY <1>2, <3>1 DEF Course
    <3>3. Course'
      BY <2>1, <3>1, <3>2 DEF Course, Opening
    <3>4. \A k \in MainKey : Served(k) => Served(k)'
      BY <2>1, <2>2, <3>1, <3>2 DEF Served, Pending, Opening, Key, KeysOf
    <3>. QED BY <1>1, <2>1, <3>1, <3>3, <3>4, Elsewhere DEF Opening
  <2>5. CASE EndStart
    <3>1. /\ mgr.at = "start" /\ mgr.todo = <<>> /\ mgr' = Idle
      BY <2>5 DEF EndStart
    <3>2. Course'
      BY <2>1, <3>1, IdleFields DEF Course, Opening
    <3>3. \A k \in MainKey : Served(k) => Served(k)'
      BY <2>1, <2>2, <3>1 DEF Served, Pending, Opening, Key, KeysOf
    <3>. QED BY <2>1, <3>1, <3>2, <3>3, KeysAreKeys, IdleFields, Elsewhere DEF Opening
  <2>. QED BY <1>4, <2>3, <2>4, <2>5
<1>5. CASE StopManageIpCam \/ CheckVideoExits \/ UNCHANGED vars
  <2>1. UNCHANGED <<config, made, started, inited, rtmpVars, mgr>>
    BY <1>5 DEF StopManageIpCam, CheckVideoExits, vars, camVars
  <2>2. \A k \in Key : session'[k] \in {session[k], None}
    BY <1>5 DEF StopManageIpCam, CheckVideoExits, vars, camVars
  <2>3. Course'
    BY <1>2, <2>1 DEF Course, Opening, KeysOf
  <2>4. \A k \in MainKey : Served(k) => Served(k)'
    BY <2>1 DEF Served, Pending, Opening, KeysOf, LogicalOf, Now
  <2>. QED BY <2>1, <2>2, <2>3, <2>4, Elsewhere
<1>. QED BY <1>3, <1>4, <1>5

\* A configuration is changed: its camera is destroyed, and made and started again.
LEMMA ChangeStreams ==
  ASSUME OrphanInv, RtmpInv, NEW c \in Camera, NEW new \in Offered,
         ChangeChnConfig(c, new)
  PROVE  RtmpInv'
<1>1. UNCHANGED <<session, made, started, inited, rtmpVars>> /\ mgr.at = "idle" /\ mgr.op = "none"
  BY DEF ChangeChnConfig, ChangeWith
<1>2. \/ mgr' = mgr /\ config' = config
      \/ /\ mgr'.at \in {"destroy", "createMain"} /\ mgr'.op = "set" /\ mgr'.cam = c
         /\ mgr'.todo = Idle.todo /\ (config' = config \/ config' = [config EXCEPT ![c] = new])
  BY DEF ChangeChnConfig, ChangeWith, Idle
<1>3. CASE mgr' = mgr /\ config' = config
  <2>1. Course'
    BY <1>1, <1>3 DEF RtmpInv, Course, Opening, KeysOf
  <2>2. \A k \in MainKey : Served(k) => Served(k)'
    BY <1>1, <1>3 DEF Served, Pending, Opening, KeysOf, LogicalOf, Now
  <2>. QED BY <1>1, <1>3, <2>1, <2>2, Elsewhere
<1>4. CASE /\ mgr'.at \in {"destroy", "createMain"} /\ mgr'.op = "set" /\ mgr'.cam = c
           /\ mgr'.todo = Idle.todo
           /\ (config' = config \/ config' = [config EXCEPT ![c] = new])
  <2>1. Course'
    BY <1>1, <1>4 DEF RtmpInv, Course, Opening
  <2>2. ASSUME NEW k \in MainKey, Served(k) PROVE Served(k)'
    <3>1. LogicalOf(k) < 0 \/ LogicalOf(k) \in inited
      BY <1>1, <2>2 DEF Served, Pending, Opening
    <3>2. CASE k = KeysOf(c)[1]
      BY <1>4, <3>2 DEF Served, Pending, KeysOf
    <3>3. CASE k # KeysOf(c)[1]
      <4>1. CameraOf(k) \in Camera \ {c}
        BY <3>3, KeyOfOne, ChannelOfKey
      <4>2. config \in [Camera -> Config]
        BY DEF OrphanInv, SessionTypes
      <4>3. LogicalOf(k)' = LogicalOf(k)
        BY <1>4, <4>1, <4>2 DEF LogicalOf
      <4>. QED BY <1>1, <3>1, <4>3 DEF Served
    <3>. QED BY <3>2, <3>3
  <2>. QED BY <1>1, <1>4, <2>1, <2>2, KeysAreKeys, Elsewhere DEF Opening
<1>. QED BY <1>2, <1>3, <1>4

LEMMA DestroyStreams ==
  ASSUME OrphanInv, RtmpInv, DestroyIpCamStream
  PROVE  RtmpInv'
<1>1. /\ DOMAIN mgr = {"at", "op", "cam", "new", "todo"} /\ mgr.cam \in Camera
      /\ session \in [Key -> (Key \X Nat) \cup {None}] /\ mgr.todo \in Seq(Key)
      /\ config \in [Camera -> Config] /\ mgr.at = "destroy"
  BY DEF OrphanInv, SessionTypes, RtmpInv, StreamTypes, DestroyIpCamStream
<1>2. UNCHANGED <<made, started, inited, rtmpVars>> /\ mgr.op = "set"
  BY <1>1 DEF DestroyIpCamStream, RtmpInv, Course
<1>3. PICK c \in Camera : mgr.cam = c
  BY <1>1
<1>4. ToSet(KeysOf(c)) = {c + IPCCHANNELBEGIN, SubKey(c)}
      /\ c + IPCCHANNELBEGIN \in Key /\ KeysOf(c)[1] = c + IPCCHANNELBEGIN
  BY KeysOfCamera
<1>5. session'[c + IPCCHANNELBEGIN] = None
      /\ \A k \in Key : session'[k] \in {session[k], None}
  BY <1>3, <1>4 DEF DestroyIpCamStream
<1>6. \/ /\ mgr'.at = "createMain" /\ mgr'.op = "set" /\ mgr'.cam = c
         /\ mgr'.todo = mgr.todo /\ config' = config
      \/ mgr' = Idle /\ config' = [config EXCEPT ![c] = mgr.new]
  BY <1>1, <1>2, <1>3 DEF DestroyIpCamStream, Step
<1>7. /\ mgr'.at \in {"createMain", "idle"} /\ mgr'.op \in {"set", "none"}
      /\ mgr'.at = "createMain" => mgr'.op = "set"
      /\ mgr'.todo \in Seq(Key)
  BY <1>1, <1>6, KeysAreKeys, IdleFields
<1>8. Course'
  BY <1>2, <1>7 DEF RtmpInv, Course, Opening
<1>9. ASSUME NEW k \in MainKey, session'[k] = session[k], session[k] \in started, Served(k)
      PROVE  Served(k)'
  <2>1. k # KeysOf(c)[1]
    <3>1. None \notin started
      BY SessionsAssumption DEF RtmpInv, StreamTypes
    <3>. QED BY <1>4, <1>5, <1>9, <3>1
  <2>2. CameraOf(k) \in Camera \ {c}
    BY <2>1, KeyOfOne, ChannelOfKey
  <2>3. LogicalOf(k)' = LogicalOf(k)
    BY <1>1, <1>6, <2>2 DEF LogicalOf
  <2>4. LogicalOf(k) < 0 \/ LogicalOf(k) \in inited
    BY <1>1, <1>3, <1>9, <2>1 DEF Served, Pending, Opening
  <2>. QED BY <1>2, <2>3, <2>4 DEF Served
<1>. QED BY <1>1, <1>2, <1>5, <1>7, <1>8, <1>9, Elsewhere DEF Opening

LEMMA CreateStreams ==
  ASSUME OrphanInv, RtmpInv, CreateIpCamStream
  PROVE  RtmpInv'
<1>1. /\ DOMAIN mgr = {"at", "op", "cam", "new", "todo"} /\ mgr.cam \in Camera
      /\ session \in [Key -> (Key \X Nat) \cup {None}] /\ mgr.todo \in Seq(Key)
      /\ mgr.at \in {"createMain", "createSub"}
  BY DEF OrphanInv, SessionTypes, RtmpInv, StreamTypes, CreateIpCamStream
<1>2. PICK wanted, k, own, next :
        /\ Create(wanted, k, own, next)
        /\ \/ next = [mgr EXCEPT !.at = "createSub"] /\ mgr.at = "createMain"
           \/ next = AfterCreate /\ mgr.at = "createSub"
  BY DEF CreateIpCamStream
<1>3. UNCHANGED <<config, started, inited, rtmpVars>> /\ mgr' = next
  BY <1>2 DEF Create
<1>4. /\ made' = made \/ made' = made + 1
      /\ \A l \in Key : session'[l] \in {session[l], None, <<l, made>>}
  BY <1>1, <1>2 DEF Create
<1>5. \/ mgr'.at = "createSub" /\ mgr'.op = mgr.op /\ mgr'.cam = mgr.cam /\ mgr'.todo = mgr.todo
      \/ mgr.op = "init" /\ mgr'.at = "load" /\ mgr'.op = "init" /\ mgr'.todo = mgr.todo
      \/ mgr.op = "init" /\ mgr' = Idle
      \/ /\ mgr.op # "init" /\ mgr'.at = "lock" /\ mgr'.op = mgr.op /\ mgr'.cam = mgr.cam
         /\ mgr'.todo = KeysOf(mgr.cam)
  BY <1>1, <1>2, <1>3 DEF AfterCreate
<1>6. mgr.op = "init" \/ mgr.op = "set"
  BY <1>1 DEF RtmpInv, Course
<1>7. mgr'.at \in {"createSub", "load", "idle", "lock"} /\ mgr'.todo \in Seq(Key)
  BY <1>1, <1>5, KeysAreKeys, IdleFields
<1>8. Course'
  <2>1. mgr.op = "init" => started = {}
    BY DEF RtmpInv, Course
  <2>2. mgr'.at = "lock" => mgr'.todo = KeysOf(mgr'.cam)
    BY <1>5, IdleFields
  <2>3. mgr'.op \in {"boot", "init"} => started = {}
    BY <1>5, <1>6, <2>1, IdleFields
  <2>4. /\ mgr'.at \in {"destroy", "lock"} => mgr'.op = "set"
        /\ mgr'.at \in {"createMain", "createSub"} => mgr'.op \in {"init", "set"}
        /\ mgr'.at \notin {"start", "rtmp", "rtmpWait"}
    BY <1>5, <1>6, IdleFields
  <2>. QED BY <1>3, <2>2, <2>3, <2>4 DEF Course, Opening, KeysOf
<1>9. ASSUME NEW k1 \in MainKey, session[k1] \in started, Served(k1) PROVE Served(k1)'
  <2>1. mgr.op = "set"
    BY <1>6, <1>9 DEF RtmpInv, Course
  <2>2. mgr'.at \in {"createSub", "lock"} /\ mgr'.op = "set" /\ mgr'.cam = mgr.cam
    BY <1>5, <2>1
  <2>3. LogicalOf(k1)' = LogicalOf(k1)
    BY <1>3 DEF LogicalOf
  <2>. QED BY <1>1, <1>3, <1>9, <2>2, <2>3 DEF Served, Pending, Opening, KeysOf
<1>. QED BY <1>1, <1>3, <1>4, <1>7, <1>8, <1>9, Elsewhere DEF Opening

\* The channel is initialised, or has been.
LEMMA InitRtmpStreams ==
  ASSUME OrphanInv, RtmpInv, InitRtmp
  PROVE  RtmpInv'
<1>1. /\ DOMAIN mgr = {"at", "op", "cam", "new", "todo"} /\ mgr.todo \in Seq(Key)
      /\ mgr.at = "rtmp" /\ Now \in MainKey /\ mgr.todo # <<>>
      /\ call \in [{Manager} -> Calls]
      /\ calls \in [{Manager} -> Nat] /\ call[Manager].at = "off"
  BY DEF OrphanInv, SessionTypes, RtmpInv, StreamTypes, CallInit, InitRtmp, InitRtmpUnless,
     Opening
<1>2. UNCHANGED <<config, session, made, started, inited, refused, ctx, mux>>
  BY DEF InitRtmp, InitRtmpUnless, camVars
<1>3. ChannelNow \in Int /\ (ChannelNow >= 0 => ChannelNow \in Rtmps)
  BY <1>1, ChannelOfKey DEF ChannelNow
<1>4. \A k \in MainKey : LogicalOf(k)' = LogicalOf(k)
  BY <1>2 DEF LogicalOf
<1>5. mgr.op \notin {"boot", "init"}
  BY <1>1 DEF RtmpInv, Course, Opening, OrphanInv, MakingInv
<1>6. CASE ChannelNow < 0 \/ ChannelNow \in inited
  <2>1. /\ mgr'.at = "start" /\ mgr'.todo = Tail(mgr.todo) /\ mgr'.op = mgr.op
        /\ UNCHANGED <<call, calls>>
    BY <1>1, <1>6 DEF InitRtmp, InitRtmpUnless, ChannelNow, Now
  <2>2. StreamTypes'
    BY <1>1, <1>2, <2>1 DEF RtmpInv, StreamTypes, Opening
  <2>3. InitedOpen' /\ CallInit'
    BY <1>1, <1>2, <2>1 DEF RtmpInv, InitedOpen, CallInit, Opened, Shut, Opening
  <2>4. StartedInited'
    BY <1>1, <1>2, <1>4, <1>6, <2>1
       DEF RtmpInv, StartedInited, Served, Pending, Opening, ChannelNow
  <2>5. Course'
    BY <1>5, <2>1 DEF Course, Opening
  <2>. QED BY <2>2, <2>3, <2>4, <2>5 DEF RtmpInv
<1>7. CASE ~(ChannelNow < 0 \/ ChannelNow \in inited)
  <2>1. /\ call' = [call EXCEPT ![Manager] =
                      [Rtmp!NoCall EXCEPT !.at = "check", !.ch = ChannelNow]]
        /\ calls' = [calls EXCEPT ![Manager] = @ + 1]
        /\ mgr'.at = "rtmpWait" /\ mgr'.todo = mgr.todo /\ mgr'.op = mgr.op
    BY <1>1, <1>7 DEF InitRtmp, InitRtmpUnless, ChannelNow, Now, Step, Rtmp!Begin
  <2>2. ChannelNow \in Rtmps \ inited
    BY <1>3, <1>7
  <2>3. [Rtmp!NoCall EXCEPT !.at = "check", !.ch = ChannelNow] \in Calls
    BY <2>2 DEF Calls, Rtmp!NoCall, Rtmp!Step
  <2>4. PICK new \in Calls : new.at = "check" /\ new.ch = ChannelNow
                             /\ call' = [call EXCEPT ![Manager] = new]
    BY <2>1, <2>3 DEF Rtmp!NoCall
  <2>5. call' \in [{Manager} -> Calls] /\ call'[Manager] = new /\ calls' \in [{Manager} -> Nat]
    BY <1>1, <2>1, <2>4
  <2>6. StreamTypes'
    BY <1>1, <1>2, <2>1, <2>5 DEF RtmpInv, StreamTypes
  <2>7. ChannelNow' = ChannelNow /\ Now' = Now
    BY <1>2, <2>1 DEF ChannelNow, Now, LogicalOf
  <2>8. InitedOpen'
    BY <1>1, <1>2, <2>1 DEF RtmpInv, InitedOpen, Opened, Shut
  <2>9. Shut(ChannelNow)
    BY <1>1, <2>2 DEF RtmpInv, InitedOpen
  <2>10. Shut(ChannelNow)'
    BY <1>2, <2>7, <2>9 DEF Shut
  <2>11. CallInit'
    BY <1>1, <1>2, <2>1, <2>2, <2>4, <2>5, <2>7, <2>10 DEF CallInit
  <2>12. StartedInited'
    BY <1>1, <1>2, <1>4, <2>1, <2>7
       DEF RtmpInv, StartedInited, Served, Pending, Opening
  <2>13. Course'
    BY <1>5, <2>1 DEF Course, Opening
  <2>. QED BY <2>6, <2>8, <2>11, <2>12, <2>13 DEF RtmpInv
<1>. QED BY <1>6, <1>7

\* The call has returned: the channel is open or was refused, and it is noted.
LEMMA NoteRtmpStreams ==
  ASSUME OrphanInv, RtmpInv, NoteRtmp
  PROVE  RtmpInv'
<1>1. /\ DOMAIN mgr = {"at", "op", "cam", "new", "todo"} /\ mgr.todo \in Seq(Key)
      /\ mgr.at = "rtmpWait" /\ Now \in MainKey /\ mgr.todo # <<>>
      /\ call[Manager].at = "off" /\ (Opened(ChannelNow) \/ ChannelNow \in refused)
      /\ ChannelNow \in Rtmps
  BY DEF OrphanInv, SessionTypes, RtmpInv, StreamTypes, CallInit, NoteRtmp, Opening
<1>2. /\ UNCHANGED <<config, session, made, started, refused, ctx, mux, call, calls>>
      /\ inited' = inited \cup {ChannelNow}
      /\ mgr'.at = "start" /\ mgr'.todo = Tail(mgr.todo) /\ mgr'.op = mgr.op
  BY <1>1 DEF NoteRtmp, camVars, rtmpVars, ChannelNow, Now
<1>3. mgr.op \notin {"boot", "init"}
  BY <1>1 DEF RtmpInv, Course, Opening, OrphanInv, MakingInv
<1>4. StreamTypes'
  BY <1>1, <1>2 DEF RtmpInv, StreamTypes, Opening
<1>5. InitedOpen'
  BY <1>1, <1>2 DEF RtmpInv, InitedOpen, Opened, Shut
<1>6. CallInit' /\ Course'
  BY <1>1, <1>2, <1>3 DEF CallInit, Opening, Course
<1>7. \A k \in MainKey : LogicalOf(k)' = LogicalOf(k)
  BY <1>2 DEF LogicalOf
<1>8. StartedInited'
  BY <1>1, <1>2, <1>7 DEF RtmpInv, StartedInited, Served, Pending, ChannelNow
<1>. QED BY <1>4, <1>5, <1>6, <1>8 DEF RtmpInv

\* A step of the call: the channel comes to be open, with its one muxer thread, or it is
\* refused and stays as it was.
LEMMA RtmpStepStreams ==
  ASSUME OrphanInv, RtmpInv, RtmpStep
  PROVE  RtmpInv'
<1>1. /\ ctx \in [Rtmps -> Rtmp!Context] /\ calls[Manager] \in Nat
      /\ call \in [{Manager} -> Calls]
  BY DEF RtmpInv, StreamTypes
<1>2. UNCHANGED <<config, session, made, started, inited, mgr, calls>>
  BY DEF RtmpStep, camVars, Rtmp!ChannelInit, Rtmp!CheckStart, Rtmp!ClearContext,
     Rtmp!CreateMuxer, Rtmp!CreateMuxerAs, Rtmp!Connect, Rtmp!Handshake, Rtmp!Undo,
     Rtmp!UndoExcept, Rtmp!StartMuxer
<1>3. call[Manager].at # "off"
  BY DEF RtmpStep, Rtmp!ChannelInit, Rtmp!CheckStart, Rtmp!ClearContext,
     Rtmp!CreateMuxer, Rtmp!CreateMuxerAs, Rtmp!Connect, Rtmp!Handshake, Rtmp!Undo,
     Rtmp!UndoExcept, Rtmp!StartMuxer, Rtmp!At
<1>4. /\ mgr.at = "rtmpWait" /\ Now \in MainKey /\ ChannelNow \in Rtmps \ inited
      /\ call[Manager].ch = ChannelNow /\ Shut(ChannelNow)
      /\ call[Manager].at \in
           {"check", "clear", "create", "connect", "handshake", "start", "undo"}
  BY <1>3 DEF RtmpInv, CallInit, Opening
<1>5. PICK ch \in Rtmps : ch = ChannelNow
  BY <1>4
<1>6. Rtmp!Mine(Manager) \in Rtmp!Id /\ Rtmp!Mine(Manager) # None
  BY <1>1, SessionsAssumption DEF Rtmp!Mine, Rtmp!Id
<1>7. refused \subseteq refused' /\ (call[Manager].at = "undo" => ch \in refused')
  BY <1>4, <1>5 DEF RtmpStep, Rtmp!At
<1>8. Rtmp!NoCall \in Calls /\ Rtmp!NoCall.at = "off"
  BY DEF Rtmp!NoCall, Rtmp!Step, Calls
\* What the step may do.
<1>9. /\ \A d \in Rtmps \ {ch} : ctx'[d] = ctx[d]
      /\ ctx' \in [Rtmps -> Rtmp!Context]
      /\ call' \in [{Manager} -> Calls]
      /\ \/ /\ mux' = mux /\ ~ctx'[ch].start /\ call'[Manager].ch = ch
            /\ call'[Manager].at \in {"clear", "create", "connect", "handshake", "start",
                                      "undo"}
         \/ /\ mux' = mux \cup {[id |-> Rtmp!Mine(Manager), ch |-> ch, at |-> "top",
                                 what |-> None]}
            /\ ctx'[ch].start /\ call'[Manager].at = "off"
         \/ /\ mux' = mux /\ ~ctx'[ch].start /\ call'[Manager].at = "off"
            /\ ch \in refused'
  <2>1. ctx[ch] \in Rtmp!Context /\ ~ctx[ch].start
    BY <1>1, <1>4, <1>5 DEF Shut
  <2>2. ASSUME NEW at \in Rtmp!Step, Rtmp!Goto(Manager, at)
        PROVE  /\ call'[Manager].at = at /\ call'[Manager].ch = ch
               /\ call' \in [{Manager} -> Calls]
    <3>1. call[Manager] \in Calls
      BY <1>1
    <3>2. PICK c \in Calls : c.at = at /\ c.ch = ch /\ c = [call[Manager] EXCEPT !.at = at]
      BY <1>4, <1>5, <3>1 DEF Calls
    <3>3. call' = [call EXCEPT ![Manager] = c]
      BY <1>1, <2>2, <3>2 DEF Rtmp!Goto
    <3>. QED BY <1>1, <3>2, <3>3
  <2>3. ASSUME NEW x \in Rtmp!Context, ctx' = [ctx EXCEPT ![ch] = x]
        PROVE  /\ ctx' \in [Rtmps -> Rtmp!Context] /\ ctx'[ch] = x
               /\ \A d \in Rtmps \ {ch} : ctx'[d] = ctx[d]
    BY <1>1, <2>3
  <2>4. CASE Rtmp!CheckStart(Manager)
    <3>1. Rtmp!Goto(Manager, "clear") /\ UNCHANGED <<ctx, mux>> /\ "clear" \in Rtmp!Step
      BY <1>4, <1>5, <2>1, <2>4 DEF Rtmp!CheckStart, Rtmp!The, Rtmp!Step
    <3>. QED BY <1>1, <2>1, <2>2, <3>1
  <2>5. CASE Rtmp!ClearContext(Manager)
    <3>1. /\ Rtmp!Goto(Manager, "create") /\ UNCHANGED mux /\ "create" \in Rtmp!Step
          /\ ctx' = [ctx EXCEPT ![ch] = Rtmp!Zero]
      BY <1>4, <1>5, <2>5 DEF Rtmp!ClearContext, Rtmp!Step
    <3>2. Rtmp!Zero \in Rtmp!Context /\ ~Rtmp!Zero.start
      BY DEF Rtmp!Zero, Rtmp!Context
    <3>. QED BY <2>2, <2>3, <3>1, <3>2
  <2>6. CASE Rtmp!CreateMuxer(Manager)
    <3> DEFINE new == [ctx[ch] EXCEPT !.muxer = Rtmp!Mine(Manager), !.start = FALSE,
                                      !.ref = 100]
    <3>1. /\ Rtmp!Goto(Manager, "connect") /\ UNCHANGED mux /\ "connect" \in Rtmp!Step
          /\ ctx' = [ctx EXCEPT ![ch] = new]
      BY <1>4, <1>5, <2>6 DEF Rtmp!CreateMuxer, Rtmp!CreateMuxerAs, Rtmp!Step
    <3>2. new \in Rtmp!Context /\ ~new.start
      BY <1>6, <2>1 DEF Rtmp!Context
    <3> HIDE DEF new
    <3>. QED BY <2>2, <2>3, <3>1, <3>2
  <2>7. CASE Rtmp!Connect(Manager)
    <3>1. PICK ok \in BOOLEAN :
            ctx' = [ctx EXCEPT ![ch] = [@ EXCEPT !.socket = IF ok THEN Rtmp!Mine(Manager)
                                                                  ELSE None,
                                                 !.client = Rtmp!Mine(Manager)]]
      BY <1>4, <1>5, <2>7 DEF Rtmp!Connect
    <3> DEFINE new == [ctx[ch] EXCEPT !.socket = IF ok THEN Rtmp!Mine(Manager) ELSE None,
                                      !.client = Rtmp!Mine(Manager)]
    <3>2. /\ Rtmp!Goto(Manager, "handshake") /\ UNCHANGED mux /\ "handshake" \in Rtmp!Step
          /\ ctx' = [ctx EXCEPT ![ch] = new]
      BY <2>7, <3>1 DEF Rtmp!Connect, Rtmp!Step
    <3>3. new \in Rtmp!Context /\ ~new.start
      BY <1>6, <2>1 DEF Rtmp!Context
    <3> HIDE DEF new
    <3>. QED BY <2>2, <2>3, <3>2, <3>3
  <2>8. CASE Rtmp!Handshake(Manager)
    <3>1. /\ Rtmp!Goto(Manager, "start") \/ Rtmp!Goto(Manager, "undo")
          /\ UNCHANGED <<ctx, mux>> /\ "start" \in Rtmp!Step /\ "undo" \in Rtmp!Step
      BY <2>8 DEF Rtmp!Handshake, Rtmp!Step
    <3>. QED BY <1>1, <2>1, <2>2, <3>1
  <2>9. CASE Rtmp!Undo(Manager)
    <3>1. /\ call' = [call EXCEPT ![Manager] = Rtmp!NoCall] /\ UNCHANGED <<ctx, mux>>
          /\ call[Manager].at = "undo"
      BY <2>9 DEF Rtmp!Undo, Rtmp!UndoExcept, Rtmp!Return, Rtmp!At
    <3>2. call'[Manager].at = "off" /\ call' \in [{Manager} -> Calls]
      BY <1>1, <1>8, <3>1
    <3>. QED BY <1>1, <1>7, <2>1, <3>1, <3>2
  <2>10. CASE Rtmp!StartMuxer(Manager)
    <3> DEFINE new == [ctx[ch] EXCEPT !.start = TRUE, !.tid = Rtmp!Mine(Manager)]
    <3>1. /\ mux' = mux \cup {[id |-> Rtmp!Mine(Manager), ch |-> ch, at |-> "top",
                               what |-> None]}
          /\ ctx' = [ctx EXCEPT ![ch] = new]
          /\ call' = [call EXCEPT ![Manager] = Rtmp!NoCall]
      BY <1>4, <1>5, <2>10 DEF Rtmp!StartMuxer, Rtmp!Return
    <3>2. new \in Rtmp!Context /\ new.start
      BY <1>6, <2>1 DEF Rtmp!Context
    <3>3. /\ call'[Manager].at = "off" /\ call' \in [{Manager} -> Calls]
      BY <1>1, <1>8, <3>1
    <3> HIDE DEF new
    <3>. QED BY <2>3, <3>1, <3>2, <3>3
  <2>. QED BY <2>4, <2>5, <2>6, <2>7, <2>8, <2>9, <2>10 DEF RtmpStep, Rtmp!ChannelInit
<1>10. StreamTypes'
  BY <1>2, <1>9 DEF RtmpInv, StreamTypes
<1>11. Now' = Now /\ ChannelNow' = ChannelNow
       /\ \A k \in MainKey : LogicalOf(k)' = LogicalOf(k)
  BY <1>2 DEF Now, ChannelNow, LogicalOf
<1>12. \A d \in Rtmps \ {ch} : {n \in mux' : n.ch = d} = {n \in mux : n.ch = d}
  BY <1>9
<1>13. InitedOpen'
  <2>1. \A d \in Rtmps \ {ch} : (Opened(d) => Opened(d)') /\ (Shut(d) => Shut(d)')
    BY <1>9, <1>12 DEF Opened, Shut
  <2>. QED BY <1>2, <1>4, <1>5, <1>7, <1>11, <2>1 DEF RtmpInv, InitedOpen
<1>14. CallInit'
  <2>1. CASE mux' = mux /\ ~ctx'[ch].start
    <3>1. Shut(ChannelNow)'
      BY <1>4, <1>5, <1>11, <2>1 DEF Shut
    <3>2. ~ctx'[ch].start /\ (call'[Manager].at = "off" => ch \in refused')
          /\ (call'[Manager].at # "off" => call'[Manager].ch = ch)
          /\ call'[Manager].at \in
               {"off", "clear", "create", "connect", "handshake", "start", "undo"}
      BY <1>9, <2>1
    <3>. QED BY <1>2, <1>4, <1>5, <1>11, <3>1, <3>2 DEF CallInit
  <2>2. CASE /\ mux' = mux \cup {[id |-> Rtmp!Mine(Manager), ch |-> ch, at |-> "top",
                                  what |-> None]}
             /\ ctx'[ch].start /\ call'[Manager].at = "off"
    <3>1. {n \in mux' : n.ch = ch} = {[id |-> Rtmp!Mine(Manager), ch |-> ch, at |-> "top",
                                       what |-> None]}
      BY <1>4, <1>5, <2>2 DEF Shut
    <3>2. Opened(ChannelNow)'
      BY <1>5, <1>11, <2>2, <3>1 DEF Opened
    <3>. QED BY <1>2, <1>4, <1>11, <2>2, <3>2 DEF CallInit
  <2>. QED BY <1>9, <2>1, <2>2
<1>15. StartedInited'
  BY <1>2, <1>11 DEF RtmpInv, StartedInited, Served, Pending
<1>16. Course'
  BY <1>2 DEF RtmpInv, Course, Opening, KeysOf
<1>. QED BY <1>10, <1>13, <1>14, <1>15, <1>16 DEF RtmpInv

LEMMA RtmpAtInit == Init => RtmpInv
<1> SUFFICES ASSUME Init PROVE RtmpInv
  OBVIOUS
<1>1. /\ ctx = [c \in Rtmps |-> Rtmp!Zero] /\ call = [t \in {Manager} |-> Rtmp!NoCall]
      /\ calls = [t \in {Manager} |-> 0] /\ mux = {}
      /\ inited = {} /\ started = {} /\ mgr.at = "idle" /\ mgr.todo = <<>>
  BY DEF Init, Rtmp!Init, Rtmps, Idle
<1>2. Rtmp!Zero \in Rtmp!Context /\ ~Rtmp!Zero.start
  BY DEF Rtmp!Zero, Rtmp!Context
<1>3. Rtmp!NoCall \in Calls /\ Rtmp!NoCall.at = "off"
  BY DEF Rtmp!NoCall, Rtmp!Step, Calls
<1>4. StreamTypes
  BY <1>1, <1>2, <1>3 DEF StreamTypes, Opening
<1>5. InitedOpen
  BY <1>1, <1>2 DEF InitedOpen, Shut
<1>6. CallInit /\ Course /\ StartedInited
  BY <1>1, <1>3 DEF CallInit, Course, StartedInited, Opening
<1>. QED BY <1>4, <1>5, <1>6 DEF RtmpInv

\* Whatever was enabled, changed, renumbered and disabled before: when the manager is at
\* rest, the RTMP channel that a camera whose main stream was started asks for is open and
\* has one muxer thread, or its one initialisation failed.
THEOREM StreamedCorrect == Spec => []StartedIsStreamed
<1>1. OrphanInv /\ RtmpInv /\ [Next]_vars => RtmpInv'
  <2> SUFFICES ASSUME OrphanInv, RtmpInv, [Next]_vars PROVE RtmpInv'
    OBVIOUS
  <2>. QED BY PlainSteps, ChangeStreams, DestroyStreams, CreateStreams, StartSessionStreams,
              InitRtmpStreams, NoteRtmpStreams, RtmpStepStreams DEF Next, Working
<1>2. OrphanInv /\ RtmpInv => StartedIsStreamed
  <2> SUFFICES ASSUME OrphanInv, RtmpInv, AtRest, NEW k \in MainKey,
                      session[k] \in started, LogicalOf(k) >= 0
               PROVE  LET ch == LogicalOf(k) IN
                        \/ ch \in refused
                        \/ ctx[ch].start /\ Cardinality({m \in mux : m.ch = ch}) = 1
    BY DEF StartedIsStreamed
  <2>1. Served(k)
    BY DEF RtmpInv, StartedInited
  <2>2. LogicalOf(k) \in Int
    BY ChannelOfKey
  <2>3. LogicalOf(k) \in inited
    BY <2>1, <2>2 DEF Served, Pending, AtRest, Opening
  <2>4. Opened(LogicalOf(k)) \/ LogicalOf(k) \in refused
    BY <2>3 DEF RtmpInv, InitedOpen
  <2>. QED BY <2>4, FS_Singleton DEF Opened
<1>. QED BY OrphanInit, OrphanInductive, RtmpAtInit, <1>1, <1>2, PTL DEF Spec
=============================================================================
