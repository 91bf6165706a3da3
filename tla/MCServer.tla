------------------------------ MODULE MCServer ------------------------------
(***************************************************************************)
(* Instances of ServerLog, RpcServer and ConfigStore.  They share no       *)
(* variable, so nothing is gained from interleaving their steps: a         *)
(* behaviour exercises one of them while the others rest.                  *)
(***************************************************************************)
EXTENDS ServerLog, RpcServer, ConfigStore, TLC

CONSTANTS
  c1, c2, c3, t1, t2, t3, t4, t5,
  Parts               \* which parts the run is of

\* One client tries every function, and a name that does not exist, in pairs; two
\* others call at the same time functions that may end in the middle.
EveryCommand == c1 :> (Command \cup {Unknown}) @@ c2 :> {"rk_get_health_check"}
                  @@ c3 :> {"rk_get_health_check", "rk_verify_get_records"}

\* One thread tries every function of the configuration, in pairs and with the starts
\* in between; two others use the ADAS functions, which hold config_lock, at the same
\* time; and two change and save the configuration at the same time, without it.
EveryFunction ==
  t1 :> DOMAIN Function @@ t2 :> {"rk_adas_get_config"} @@ t3 :> {"rk_adas_set_config"}
    @@ t4 :> {"rk_create_kit"} @@ t5 :> {"rk_create_kit", "rk_set_device_config"}

Asked == CHOOSE v \in Requests : TRUE      \* where one value is enough

VARIABLE part
vars == <<logVars, rpcVars, cfgVars, part>>

\* The clients and the threads of each part: the others do nothing.
Active == [log |-> {}, rpcAlone |-> {c1}, rpcTogether |-> {c2, c3},
           cfgAlone |-> {t1}, cfgTogether |-> {t2, t3}, cfgSaves |-> {t4, t5}]
Of(p) == part \in p /\ UNCHANGED part
Rpc == {"rpcAlone", "rpcTogether"}
Cfg == {"cfgAlone", "cfgTogether", "cfgSaves"}

LogPart == Of({"log"}) /\ LogNext /\ UNCHANGED <<rpcVars, cfgVars>>
RpcPart ==
  /\ Of(Rpc) /\ RpcNext /\ UNCHANGED <<logVars, cfgVars>>
  /\ \A c \in Client \ Active[part] : ~Connect(c)
ConfigPart ==
  /\ Of(Cfg) /\ ConfigNext /\ UNCHANGED <<logVars, rpcVars>>
  /\ \A t \in Thread \ Active[part] : thr[t] = thr'[t]
  /\ \A t \in Thread : part # "cfgSaves" => thr'[t].arg \in {Zero, Asked}

ThreadPart(c) == rec_thread(c) /\ UNCHANGED <<logVars, cfgVars, part>>
ClientPart(c) ==
  /\ SendItem(c) \/ Receive(c) \/ ReceiveEnd(c)
  /\ UNCHANGED <<logVars, cfgVars, part>>

Init ==
  /\ part \in Parts /\ LogInit /\ RpcInit
  /\ ConfigInit /\ (part \notin Cfg => flen = Absent)
Next == LogPart \/ RpcPart \/ ConfigPart
Spec == Init /\ [][Next]_vars

\* RpcFairness.
FairSpec ==
  Spec /\ \A c \in Client : WF_vars(ThreadPart(c)) /\ WF_vars(ClientPart(c))
=============================================================================
