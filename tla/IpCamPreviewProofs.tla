------------------------- MODULE IpCamPreviewProofs -------------------------
(***************************************************************************)
(* Theorems about IpCamPreview, for every set of streams and threads, all  *)
(* lists and pools of any size: what the snapshots hold, and what a call   *)
(* of BindVdec leaves behind that no other call ran beside.                *)
(***************************************************************************)
EXTENDS IpCamPreview, TLAPS

(***************************************************************************)
(* Snapshots: what a thread holds is what its step says it has made, and   *)
(* on the way out what its exit still gives back.                          *)
(***************************************************************************)
Early == {"next", "askI", "lookup", "again", "size", "venc"}
Late  == {"rga", "bindIn", "bindOut", "get"}
Rests ==
  {<<>>, <<"venc">>, <<"rga", "venc">>, <<"in", "rga", "venc">>,
   <<"out", "in", "rga", "venc">>, <<"getting", "out", "in", "rga", "venc">>,
   <<"picture", "getting", "out", "in", "rga", "venc">>}
Owed(p, u) ==
  IF p = "undo" THEN ToSet(u)
  ELSE IF p = "rga" THEN {"venc"}
  ELSE IF p = "bindIn" THEN {"rga", "venc"}
  ELSE IF p = "bindOut" THEN {"in", "rga", "venc"}
  ELSE IF p = "get" THEN {"getting", "out", "in", "rga", "venc"} ELSE {}

SnapTypeOK ==
  /\ pc \in [Snapper -> Early \cup Late \cup {"undo"}]
  /\ undo \in [Snapper -> Rests]
  /\ held \in [Snapper -> [venc : Venc \cup {None}, rga : Rga \cup {None}]]
  /\ links \in [Snapper -> SUBSET {"in", "out", "getting", "picture"}]
  /\ venc \in [Venc -> Snapper \cup {None, Other}]
  /\ rga \in [Rga -> Snapper \cup {None, Other}]

Encoders ==
  \A t \in Snapper :
    /\ "venc" \in Owed(pc[t], undo[t]) => held[t].venc \in Venc
    /\ \A v \in Venc :
         venc[v] = t <=> "venc" \in Owed(pc[t], undo[t]) /\ held[t].venc = v
Scalers ==
  \A t \in Snapper :
    /\ "rga" \in Owed(pc[t], undo[t]) => held[t].rga \in Rga
    /\ \A r \in Rga : rga[r] = t <=> "rga" \in Owed(pc[t], undo[t]) /\ held[t].rga = r
Linked ==
  \A t \in Snapper :
    /\ links[t] = Owed(pc[t], undo[t]) \ {"venc", "rga"}
    /\ pc[t] # "undo" => undo[t] = <<>>

SnapInv == SnapTypeOK /\ Encoders /\ Scalers /\ Linked

\* No thread is called nobody.
LEMMA Names ==
  /\ None \notin Snapper /\ Other \notin Snapper
  BY PreviewAssumption DEF PreviewAssumption

LEMMA RestSets ==
  /\ ToSet(<<>>) = {}
  /\ ToSet(<<"venc">>) = {"venc"}
  /\ ToSet(<<"rga", "venc">>) = {"rga", "venc"}
  /\ ToSet(<<"in", "rga", "venc">>) = {"in", "rga", "venc"}
  /\ ToSet(<<"out", "in", "rga", "venc">>) = {"out", "in", "rga", "venc"}
  /\ ToSet(<<"getting", "out", "in", "rga", "venc">>)
       = {"getting", "out", "in", "rga", "venc"}
  /\ ToSet(<<"picture", "getting", "out", "in", "rga", "venc">>)
       = {"picture", "getting", "out", "in", "rga", "venc"}
  BY DEF ToSet

LEMMA RestTails ==
  /\ Head(<<"venc">>) = "venc" /\ Tail(<<"venc">>) = <<>>
  /\ Head(<<"rga", "venc">>) = "rga" /\ Tail(<<"rga", "venc">>) = <<"venc">>
  /\ Head(<<"in", "rga", "venc">>) = "in" /\ Tail(<<"in", "rga", "venc">>) = <<"rga", "venc">>
  /\ Head(<<"out", "in", "rga", "venc">>) = "out"
  /\ Tail(<<"out", "in", "rga", "venc">>) = <<"in", "rga", "venc">>
  /\ Head(<<"getting", "out", "in", "rga", "venc">>) = "getting"
  /\ Tail(<<"getting", "out", "in", "rga", "venc">>) = <<"out", "in", "rga", "venc">>
  /\ Head(<<"picture", "getting", "out", "in", "rga", "venc">>) = "picture"
  /\ Tail(<<"picture", "getting", "out", "in", "rga", "venc">>)
       = <<"getting", "out", "in", "rga", "venc">>
  OBVIOUS

\* To give back the first of what is left leaves the others, and what is still bound has
\* its ends.
LEMMA GivingBack ==
  ASSUME NEW u \in Rests
  PROVE  /\ u # <<>> => Tail(u) \in Rests /\ ToSet(Tail(u)) = ToSet(u) \ {Head(u)}
         /\ u # <<>> => Head(u) \in ToSet(u)
         /\ "in" \in ToSet(u) => "rga" \in ToSet(u)
         /\ "out" \in ToSet(u) => {"rga", "venc"} \subseteq ToSet(u)
<1>1. u # <<>> => Tail(u) \in Rests
  BY RestTails DEF Rests
<1>2. u # <<>> => ToSet(Tail(u)) = ToSet(u) \ {Head(u)} /\ Head(u) \in ToSet(u)
  <2>1. CASE u = <<"venc">>
    BY <2>1, RestSets, RestTails
  <2>2. CASE u = <<"rga", "venc">>
    BY <2>2, RestSets, RestTails
  <2>3. CASE u = <<"in", "rga", "venc">>
    BY <2>3, RestSets, RestTails
  <2>4. CASE u = <<"out", "in", "rga", "venc">>
    BY <2>4, RestSets, RestTails
  <2>5. CASE u = <<"getting", "out", "in", "rga", "venc">>
    BY <2>5, RestSets, RestTails
  <2>6. CASE u = <<"picture", "getting", "out", "in", "rga", "venc">>
    BY <2>6, RestSets, RestTails
  <2>. QED BY <2>1, <2>2, <2>3, <2>4, <2>5, <2>6 DEF Rests
<1>3. /\ "in" \in ToSet(u) => "rga" \in ToSet(u)
      /\ "out" \in ToSet(u) => {"rga", "venc"} \subseteq ToSet(u)
  BY RestSets DEF Rests
<1>. QED BY <1>1, <1>2, <1>3

\* Nothing is held at the start.
LEMMA SnapInit == Init => SnapInv
  BY Names DEF Init, SnapInv, SnapTypeOK, Encoders, Scalers, Linked, Owed, Early, Rests

\* A step that leaves the pools alone and what each thread has made.
LEMMA SnapKeep ==
  ASSUME SnapInv, UNCHANGED poolVars,
         pc' \in [Snapper -> Early \cup Late \cup {"undo"}], undo' \in [Snapper -> Rests],
         \A t \in Snapper : /\ Owed(pc'[t], undo'[t]) = Owed(pc[t], undo[t])
                            /\ pc'[t] # "undo" => undo'[t] = <<>>
  PROVE  SnapInv'
  BY DEF SnapInv, SnapTypeOK, Encoders, Scalers, Linked, poolVars

\* A snapshot goes on where it made nothing.
LEMMA SnapGoesOn ==
  ASSUME SnapInv, NEW t \in Snapper, NEW step \in Early, pc[t] \in Early, UNCHANGED poolVars,
         pc' = [pc EXCEPT ![t] = step], undo' = undo
  PROVE  SnapInv'
<1>1. \A p \in Early : \A u : Owed(p, u) = {} /\ p # "undo"
  BY DEF Owed, Early
<1>2. pc' \in [Snapper -> Early \cup Late \cup {"undo"}] /\ undo' \in [Snapper -> Rests]
  BY DEF SnapInv, SnapTypeOK
<1>3. \A u \in Snapper : pc'[u] = IF u = t THEN step ELSE pc[u]
  BY DEF SnapInv, SnapTypeOK
<1>4. \A u \in Snapper : /\ Owed(pc'[u], undo'[u]) = Owed(pc[u], undo[u])
                         /\ pc'[u] # "undo" => undo'[u] = <<>>
  <2> TAKE u \in Snapper
  <2>1. pc[u] # "undo" => undo[u] = <<>>
    BY DEF SnapInv, Linked
  <2>2. CASE u = t
    BY <1>1, <1>3, <2>1, <2>2
  <2>3. CASE u # t
    BY <1>3, <2>1, <2>3
  <2>. QED BY <2>2, <2>3
<1>. QED BY <1>2, <1>4, SnapKeep

\* A snapshot makes more: the others keep what is theirs.
LEMMA SnapMakes ==
  ASSUME SnapInv, NEW t \in Snapper, SnapTypeOK',
         \A u \in Snapper \ {t} : /\ pc'[u] = pc[u] /\ undo'[u] = undo[u]
                                  /\ held'[u] = held[u] /\ links'[u] = links[u],
         NEW o, o = Owed(pc'[t], undo'[t]), pc'[t] # "undo" => undo'[t] = <<>>,
         links'[t] = o \ {"venc", "rga"},
         "venc" \in o => held'[t].venc \in Venc, "rga" \in o => held'[t].rga \in Rga,
         \A v \in Venc : venc'[v] = t <=> "venc" \in o /\ held'[t].venc = v,
         \A r \in Rga : rga'[r] = t <=> "rga" \in o /\ held'[t].rga = r,
         \A v \in Venc : \A u \in Snapper \ {t} : venc'[v] = u <=> venc[v] = u,
         \A r \in Rga : \A u \in Snapper \ {t} : rga'[r] = u <=> rga[r] = u
  PROVE  SnapInv'
<1>1. Encoders'
  BY DEF SnapInv, Encoders
<1>2. Scalers'
  BY DEF SnapInv, Scalers
<1>3. Linked'
  BY DEF SnapInv, Linked
<1>. QED BY <1>1, <1>2, <1>3 DEF SnapInv

\* What is known of one thread.
LEMMA SnapOne ==
  ASSUME SnapInv, NEW t \in Snapper, NEW o, o = Owed(pc[t], undo[t])
  PROVE  /\ "venc" \in o => held[t].venc \in Venc
         /\ "rga" \in o => held[t].rga \in Rga
         /\ \A v \in Venc : venc[v] = t <=> "venc" \in o /\ held[t].venc = v
         /\ \A r \in Rga : rga[r] = t <=> "rga" \in o /\ held[t].rga = r
         /\ links[t] = o \ {"venc", "rga"}
         /\ pc[t] # "undo" => undo[t] = <<>>
         /\ undo[t] \in Rests /\ pc[t] \in Early \cup Late \cup {"undo"}
  BY DEF SnapInv, SnapTypeOK, Encoders, Scalers, Linked

\* A snapshot takes an exit that gives back what it holds.
LEMMA SnapExits ==
  ASSUME SnapInv, NEW t \in Snapper, NEW list \in Rests, Exit(t, list), UNCHANGED poolVars,
         Owed(pc[t], undo[t]) = ToSet(list)
  PROVE  SnapInv'
<1>1. /\ pc' = [pc EXCEPT ![t] = "undo"] /\ undo' = [undo EXCEPT ![t] = list]
  BY DEF Exit
<1>2. pc' \in [Snapper -> Early \cup Late \cup {"undo"}] /\ undo' \in [Snapper -> Rests]
  BY <1>1 DEF SnapInv, SnapTypeOK
<1>3. \A u \in Snapper : IF u = t THEN pc'[u] = "undo" /\ undo'[u] = list
                                  ELSE pc'[u] = pc[u] /\ undo'[u] = undo[u]
  BY <1>1 DEF SnapInv, SnapTypeOK
<1>4. Owed("undo", list) = ToSet(list)
  BY DEF Owed
<1>5. \A u \in Snapper : pc[u] # "undo" => undo[u] = <<>>
  BY DEF SnapInv, Linked
<1>. QED BY <1>2, <1>3, <1>4, <1>5, SnapKeep

\* The steps that make a channel of the pools.
LEMMA SnapCreates ==
  ASSUME SnapInv, NEW t \in Snapper, SnapVenc(t) \/ SnapRga(t)
  PROVE  SnapInv'
<1> PICK o : o = Owed(pc[t], undo[t])
  OBVIOUS
<1>1. CASE SnapVenc(t)
  <2>1. /\ o = {} /\ pc[t] = "venc" /\ undo[t] = <<>> /\ links[t] = {}
        /\ \A v \in Venc : venc[v] # t
        /\ \A r \in Rga : rga[r] # t
    <3>1. pc[t] = "venc"
      BY <1>1 DEF SnapVenc
    <3>2. o = {}
      BY <3>1 DEF Owed
    <3>. QED BY <3>1, <3>2, SnapOne
  <2>2. CASE Exit(t, <<>>) /\ UNCHANGED <<held, venc>>
    BY <1>1, <2>1, <2>2, RestSets, SnapExits DEF SnapVenc, Rests, poolVars
  <2>3. ASSUME NEW v \in Venc, venc[v] = None, venc' = [venc EXCEPT ![v] = t],
               held' = [held EXCEPT ![t].venc = v], Advance(t, "rga")
        PROVE  SnapInv'
    <3>1. pc' = [pc EXCEPT ![t] = "rga"] /\ undo' = undo /\ links' = links /\ rga' = rga
      BY <1>1, <2>3 DEF SnapVenc, Advance
    <3>2. SnapTypeOK'
      BY <2>3, <3>1 DEF SnapInv, SnapTypeOK, Late
    <3>3. /\ pc'[t] = "rga" /\ undo'[t] = <<>> /\ links'[t] = {} /\ held'[t].venc = v
          /\ \A u \in Snapper \ {t} : /\ pc'[u] = pc[u] /\ undo'[u] = undo[u]
                                      /\ held'[u] = held[u] /\ links'[u] = links[u]
      BY <2>1, <2>3, <3>1 DEF SnapInv, SnapTypeOK
    <3>4. \A w \in Venc : venc'[w] = IF w = v THEN t ELSE venc[w]
      BY <2>3 DEF SnapInv, SnapTypeOK
    <3>5. Owed(pc'[t], undo'[t]) = {"venc"}
      BY <3>3 DEF Owed
    <3>6. /\ \A w \in Venc : venc'[w] = t <=> held'[t].venc = w
          /\ \A w \in Venc : \A u \in Snapper \ {t} : venc'[w] = u <=> venc[w] = u
          /\ \A q \in Rga : rga'[q] # t
      BY <2>1, <2>3, <3>1, <3>3, <3>4, Names
    <3>. QED BY <3>1, <3>2, <3>3, <3>5, <3>6, SnapMakes
  <2>. QED BY <1>1, <2>2, <2>3 DEF SnapVenc
<1>2. CASE SnapRga(t)
  <2>1. /\ o = {"venc"} /\ pc[t] = "rga" /\ undo[t] = <<>> /\ links[t] = {}
        /\ held[t].venc \in Venc
        /\ \A v \in Venc : venc[v] = t <=> held[t].venc = v
        /\ \A r \in Rga : rga[r] # t
    <3>1. pc[t] = "rga"
      BY <1>2 DEF SnapRga, SnapRgaElse
    <3>2. o = {"venc"}
      BY <3>1 DEF Owed
    <3>. QED BY <3>1, <3>2, SnapOne
  <2>2. CASE Exit(t, <<"venc">>) /\ UNCHANGED <<held, rga>>
    BY <1>2, <2>1, <2>2, RestSets, SnapExits DEF SnapRga, SnapRgaElse, Rests, poolVars
  <2>3. ASSUME NEW r \in Rga, rga[r] = None, rga' = [rga EXCEPT ![r] = t],
               held' = [held EXCEPT ![t].rga = r], Advance(t, "bindIn")
        PROVE  SnapInv'
    <3>1. pc' = [pc EXCEPT ![t] = "bindIn"] /\ undo' = undo /\ links' = links /\ venc' = venc
      BY <1>2, <2>3 DEF SnapRga, SnapRgaElse, Advance
    <3>2. SnapTypeOK'
      BY <2>3, <3>1 DEF SnapInv, SnapTypeOK, Late
    <3>3. /\ pc'[t] = "bindIn" /\ undo'[t] = <<>> /\ links'[t] = {} /\ held'[t].rga = r
          /\ held'[t].venc = held[t].venc
          /\ \A u \in Snapper \ {t} : /\ pc'[u] = pc[u] /\ undo'[u] = undo[u]
                                      /\ held'[u] = held[u] /\ links'[u] = links[u]
      BY <2>1, <2>3, <3>1 DEF SnapInv, SnapTypeOK
    <3>4. \A q \in Rga : rga'[q] = IF q = r THEN t ELSE rga[q]
      BY <2>3 DEF SnapInv, SnapTypeOK
    <3>5. Owed(pc'[t], undo'[t]) = {"rga", "venc"}
      BY <3>3 DEF Owed
    <3>6. /\ \A q \in Rga : rga'[q] = t <=> held'[t].rga = q
          /\ \A q \in Rga : \A u \in Snapper \ {t} : rga'[q] = u <=> rga[q] = u
      <4>1. rga[r] = None /\ held'[t].rga = r /\ \A q \in Rga : rga[q] # t
        BY <2>1, <2>3, <3>3
      <4>. QED BY <3>4, <4>1, Names
    <3>7. /\ \A w \in Venc : venc'[w] = t <=> held'[t].venc = w
          /\ \A w \in Venc : \A u \in Snapper \ {t} : venc'[w] = u <=> venc[w] = u
      BY <2>1, <3>1, <3>3
    <3>. QED BY <2>1, <3>1, <3>2, <3>3, <3>5, <3>6, <3>7, SnapMakes
  <2>. QED BY <1>2, <2>2, <2>3 DEF SnapRga, SnapRgaElse
<1>. QED BY <1>1, <1>2

\* A step that changes the bindings of one thread, its step and its exit only.
LEMMA SnapLinks ==
  ASSUME SnapInv, NEW t \in Snapper, NEW p \in Early \cup Late \cup {"undo"}, NEW u \in Rests,
         NEW l \in SUBSET {"in", "out", "getting", "picture"},
         pc' = [pc EXCEPT ![t] = p], undo' = [undo EXCEPT ![t] = u],
         links' = [links EXCEPT ![t] = l], UNCHANGED <<held, venc, rga>>,
         p # "undo" => u = <<>>, l = Owed(p, u) \ {"venc", "rga"},
         "venc" \in Owed(p, u) <=> "venc" \in Owed(pc[t], undo[t]),
         "rga" \in Owed(p, u) <=> "rga" \in Owed(pc[t], undo[t])
  PROVE  SnapInv'
<1>1. SnapTypeOK'
  BY DEF SnapInv, SnapTypeOK
<1>2. /\ pc'[t] = p /\ undo'[t] = u /\ links'[t] = l
      /\ \A x \in Snapper \ {t} : pc'[x] = pc[x] /\ undo'[x] = undo[x] /\ links'[x] = links[x]
  BY DEF SnapInv, SnapTypeOK
<1>3. Encoders'
  BY <1>2 DEF SnapInv, Encoders
<1>4. Scalers'
  BY <1>2 DEF SnapInv, Scalers
<1>5. Linked'
  BY <1>2 DEF SnapInv, Linked
<1>. QED BY <1>1, <1>3, <1>4, <1>5 DEF SnapInv

\* The bindings and the picture.
LEMMA SnapBinds ==
  ASSUME SnapInv, NEW t \in Snapper, SnapBind(t) \/ GetPicture(t) \/ GetTimesOut(t)
  PROVE  SnapInv'
<1> PICK o : o = Owed(pc[t], undo[t])
  OBVIOUS
<1>1. /\ pc[t] = "bindIn" => o = {"rga", "venc"}
      /\ pc[t] = "bindOut" => o = {"in", "rga", "venc"}
      /\ pc[t] = "get" => o = {"getting", "out", "in", "rga", "venc"}
      /\ links[t] = o \ {"venc", "rga"} /\ (pc[t] # "undo" => undo[t] = <<>>)
  BY SnapOne DEF Owed
<1>2. /\ \A x : Owed("bindOut", x) = {"in", "rga", "venc"}
      /\ \A x : Owed("get", x) = {"getting", "out", "in", "rga", "venc"}
      /\ Owed("undo", <<"picture", "getting", "out", "in", "rga", "venc">>)
           = {"picture", "getting", "out", "in", "rga", "venc"}
  BY RestSets DEF Owed
<1>3. UNCHANGED <<held, venc, rga>>
  BY DEF SnapBind, Link, GetPicture, GetTimesOut, poolVars
<1>4. undo = [undo EXCEPT ![t] = undo[t]]
  BY DEF SnapInv, SnapTypeOK
<1>5. ASSUME NEW begin, NEW made, NEW next, NEW list, Link(t, begin, made, next, list),
             \/ begin = "bindIn" /\ made = {"in"} /\ next = "bindOut"
                /\ list = <<"rga", "venc">>
             \/ begin = "bindOut" /\ made = {"out", "getting"} /\ next = "get"
                /\ list = <<"in", "rga", "venc">>
      PROVE  SnapInv'
  <2>1. pc[t] = begin /\ undo[t] = <<>> /\ list \in Rests /\ next \in Late /\ next # "undo"
        /\ <<>> \in Rests
    BY <1>1, <1>5 DEF Link, Rests, Late
  <2>2. CASE links' = [links EXCEPT ![t] = @ \cup made] /\ Advance(t, next)
    <3>1. PICK l : l = links[t] \cup made
      OBVIOUS
    <3>2. /\ l \in SUBSET {"in", "out", "getting", "picture"}
          /\ l = Owed(next, <<>>) \ {"venc", "rga"}
          /\ "venc" \in Owed(next, <<>>) /\ "rga" \in Owed(next, <<>>)
          /\ "venc" \in o /\ "rga" \in o
      BY <1>1, <1>2, <1>5, <2>1, <3>1
    <3>3. /\ pc' = [pc EXCEPT ![t] = next] /\ undo' = [undo EXCEPT ![t] = <<>>]
          /\ links' = [links EXCEPT ![t] = l]
      BY <1>4, <2>1, <2>2, <3>1 DEF Advance
    <3>. QED BY <1>3, <2>1, <3>2, <3>3, SnapLinks
  <2>3. CASE Exit(t, list) /\ UNCHANGED links
    <3>1. o = ToSet(list)
      BY <1>1, <1>5, <2>1, RestSets
    <3>. QED BY <1>3, <2>1, <2>3, <3>1, SnapExits DEF poolVars
  <2>. QED BY <1>5, <2>2, <2>3 DEF Link
<1>6. CASE SnapBind(t)
  BY <1>5, <1>6 DEF SnapBind
<1>7. CASE GetTimesOut(t)
  <2>1. o = ToSet(<<"getting", "out", "in", "rga", "venc">>)
        /\ Exit(t, <<"getting", "out", "in", "rga", "venc">>) /\ UNCHANGED poolVars
        /\ <<"getting", "out", "in", "rga", "venc">> \in Rests
    BY <1>1, <1>7, RestSets DEF GetTimesOut, Rests
  <2>. QED BY <2>1, SnapExits
<1>8. CASE GetPicture(t)
  <2> PICK list : list = <<"picture", "getting", "out", "in", "rga", "venc">>
    OBVIOUS
  <2>1. PICK l : l = links[t] \cup {"picture"}
    OBVIOUS
  <2>2. /\ pc[t] = "get" /\ pc' = [pc EXCEPT ![t] = "undo"]
        /\ undo' = [undo EXCEPT ![t] = list] /\ links' = [links EXCEPT ![t] = l]
    BY <1>8, <2>1 DEF GetPicture, Exit
  <2>3. /\ list \in Rests /\ l \in SUBSET {"in", "out", "getting", "picture"}
        /\ l = Owed("undo", list) \ {"venc", "rga"}
        /\ "venc" \in Owed("undo", list) /\ "rga" \in Owed("undo", list)
        /\ "venc" \in o /\ "rga" \in o
    <3>1. list \in Rests
      BY DEF Rests
    <3>2. Owed("undo", list) = {"picture", "getting", "out", "in", "rga", "venc"}
      BY <1>2
    <3>. QED BY <1>1, <2>1, <2>2, <3>1, <3>2
  <2>. QED BY <1>3, <2>2, <2>3, SnapLinks
<1>. QED BY <1>6, <1>7, <1>8

\* Something is given back, or the snapshot of the channel is over.
LEMMA SnapGivesBack ==
  ASSUME SnapInv, NEW t \in Snapper, GiveBack(t) \/ SnapReturns(t)
  PROVE  SnapInv'
<1> PICK o, u : o = Owed(pc[t], undo[t]) /\ u = undo[t]
  OBVIOUS
<1>1. pc[t] = "undo" /\ o = ToSet(u) /\ u \in Rests
  BY SnapOne DEF GiveBack, SnapReturns, Owed
<1>2. /\ "venc" \in o => held[t].venc \in Venc
      /\ "rga" \in o => held[t].rga \in Rga
      /\ \A v \in Venc : venc[v] = t <=> "venc" \in o /\ held[t].venc = v
      /\ \A r \in Rga : rga[r] = t <=> "rga" \in o /\ held[t].rga = r
      /\ links[t] = o \ {"venc", "rga"}
  BY SnapOne
<1>3. CASE GiveBack(t)
  <2> PICK what, rest : what = Head(u) /\ rest = Tail(u)
    OBVIOUS
  <2>1. /\ u # <<>> /\ undo' = [undo EXCEPT ![t] = rest]
        /\ links' = [links EXCEPT ![t] = @ \ {what}]
        /\ venc' = IF what = "venc" THEN [venc EXCEPT ![held[t].venc] = None] ELSE venc
        /\ rga' = IF what = "rga" THEN [rga EXCEPT ![held[t].rga] = None] ELSE rga
        /\ pc' = pc /\ held' = held
    BY <1>3 DEF GiveBack
  <2>2. rest \in Rests /\ ToSet(rest) = o \ {what} /\ what \in o
    BY <1>1, <2>1, GivingBack
  <2>3. SnapTypeOK'
    BY <2>1, <2>2 DEF SnapInv, SnapTypeOK
  <2>4. /\ undo'[t] = rest /\ links'[t] = links[t] \ {what}
        /\ \A x \in Snapper \ {t} : /\ pc'[x] = pc[x] /\ undo'[x] = undo[x]
                                    /\ held'[x] = held[x] /\ links'[x] = links[x]
    BY <2>1 DEF SnapInv, SnapTypeOK
  <2>5. \A v \in Venc : venc'[v] = IF what = "venc" /\ venc[v] = t THEN None ELSE venc[v]
    BY <1>2, <2>1, <2>2 DEF SnapInv, SnapTypeOK
  <2>6. \A r \in Rga : rga'[r] = IF what = "rga" /\ rga[r] = t THEN None ELSE rga[r]
    BY <1>2, <2>1, <2>2 DEF SnapInv, SnapTypeOK
  <2>7. PICK n : n = o \ {what}
    OBVIOUS
  <2>8. n = Owed(pc'[t], undo'[t]) /\ pc'[t] = "undo"
    BY <1>1, <2>1, <2>2, <2>4, <2>7 DEF Owed
  <2>9. /\ links'[t] = n \ {"venc", "rga"}
        /\ "venc" \in n => held'[t].venc \in Venc
        /\ "rga" \in n => held'[t].rga \in Rga
        /\ \A v \in Venc : venc'[v] = t <=> "venc" \in n /\ held'[t].venc = v
        /\ \A r \in Rga : rga'[r] = t <=> "rga" \in n /\ held'[t].rga = r
    BY <1>2, <2>1, <2>4, <2>5, <2>6, <2>7, Names
  <2>10. /\ \A v \in Venc : \A x \in Snapper \ {t} : venc'[v] = x <=> venc[v] = x
         /\ \A r \in Rga : \A x \in Snapper \ {t} : rga'[r] = x <=> rga[r] = x
    BY <2>5, <2>6, Names
  <2>. QED BY <2>3, <2>4, <2>8, <2>9, <2>10, SnapMakes
<1>4. CASE SnapReturns(t)
  <2>1. /\ u = <<>> /\ pc' = [pc EXCEPT ![t] = "next"] /\ UNCHANGED <<links, undo, venc, rga>>
        /\ held' = [held EXCEPT ![t] = [venc |-> None, rga |-> None]]
    BY <1>4 DEF SnapReturns
  <2>2. o = {}
    BY <1>1, <2>1, RestSets
  <2>3. SnapTypeOK'
    BY <2>1 DEF SnapInv, SnapTypeOK, Early
  <2>4. /\ pc'[t] = "next" /\ undo'[t] = <<>>
        /\ \A x \in Snapper \ {t} : /\ pc'[x] = pc[x] /\ undo'[x] = undo[x]
                                    /\ held'[x] = held[x] /\ links'[x] = links[x]
    BY <2>1 DEF SnapInv, SnapTypeOK
  <2>5. Owed(pc'[t], undo'[t]) = {}
    BY <2>4 DEF Owed
  <2>. QED BY <1>2, <2>1, <2>2, <2>3, <2>4, <2>5, SnapMakes
<1>. QED BY <1>3, <1>4

\* The steps of a snapshot, each with its error path.
LEMMA SnapSnapshot ==
  ASSUME SnapInv, NEW t \in Snapper, Snapshot(t)
  PROVE  SnapInv'
<1>1. CASE EnsureVdec(t) \/ SnapAskIFrame(t) \/ LookUp(t)
  <2>1. /\ UNCHANGED <<poolVars, undo>> /\ pc[t] \in Early
        /\ \E step \in Early : pc' = [pc EXCEPT ![t] = step]
    BY <1>1 DEF EnsureVdec, SnapAskIFrame, LookUp, Early
  <2>. QED BY <2>1, SnapGoesOn
<1>2. CASE GetSize(t)
  <2>1. pc[t] = "size" /\ UNCHANGED poolVars
    BY <1>2 DEF GetSize
  <2>2. CASE Advance(t, "venc")
    BY <2>1, <2>2, SnapGoesOn DEF Advance, Early
  <2>3. CASE Exit(t, <<>>)
    <3>1. Owed(pc[t], undo[t]) = ToSet(<<>>) /\ <<>> \in Rests
      BY <2>1, RestSets DEF Owed, Rests
    <3>. QED BY <2>1, <2>3, <3>1, SnapExits
  <2>. QED BY <1>2, <2>2, <2>3 DEF GetSize
<1>. QED BY <1>1, <1>2, SnapCreates, SnapBinds, SnapGivesBack DEF Snapshot

\* The screen, the streams and the other subsystems touch nothing a snapshot holds.
LEMMA SnapOthers ==
  ASSUME SnapInv,
         \/ \E t \in Thread : BindVdec(t)
         \/ \E t \in Binder : CallBindVdec(t)
         \/ \E s \in Session : IpCamCb(s) \/ CheckIFrame(s) \/ SendFrame(s)
         \/ OtherUser \/ UNCHANGED vars
  PROVE  SnapInv'
<1>1. CASE OtherUser
  <2>1. /\ pc' = pc /\ held' = held /\ undo' = undo /\ links' = links
        /\ \/ venc' = venc
           \/ \E v, x : /\ venc[v] \in {None, Other} /\ x \in {None, Other}
                        /\ venc' = [venc EXCEPT ![v] = x]
        /\ \/ rga' = rga
           \/ \E r, x : /\ rga[r] \in {None, Other} /\ x \in {None, Other}
                        /\ rga' = [rga EXCEPT ![r] = x]
    BY <1>1 DEF OtherUser
  <2>2. SnapTypeOK'
    BY <2>1 DEF SnapInv, SnapTypeOK
  <2>3. \A t \in Snapper : \A v \in Venc : venc'[v] = t <=> venc[v] = t
    BY <2>1, Names DEF SnapInv, SnapTypeOK
  <2>4. \A t \in Snapper : \A r \in Rga : rga'[r] = t <=> rga[r] = t
    BY <2>1, Names DEF SnapInv, SnapTypeOK
  <2>. QED BY <2>1, <2>2, <2>3, <2>4 DEF SnapInv, Encoders, Scalers, Linked
<1>2. CASE ~OtherUser
  <2>1. UNCHANGED <<pc, undo, poolVars>>
    BY <1>2 DEF BindVdec, ClearAll, StopVdec, CreateVdec, AskIFrame, Hook, Insert,
                InsertThen, CallBindVdec, IpCamCb, CheckIFrame, SendFrame, snapVars,
                vars
  <2>. QED BY <2>1 DEF SnapInv, SnapTypeOK, Encoders, Scalers, Linked, poolVars
<1>. QED BY <1>1, <1>2

LEMMA SnapImplies == SnapInv => NothingLeaked
<1> SUFFICES ASSUME SnapInv, NEW t \in Snapper
             PROVE  /\ pc[t] \in Early => Holds(t) = {}
                    /\ \A v \in Venc : venc[v] = t => held[t].venc = v
                    /\ \A r \in Rga : rga[r] = t => held[t].rga = r
                    /\ ToSet(undo[t]) \subseteq Holds(t)
                    /\ "in" \in links[t] => "rga" \in Holds(t)
                    /\ "out" \in links[t] => {"rga", "venc"} \subseteq Holds(t)
  BY DEF NothingLeaked, Early
<1> PICK o, u : o = Owed(pc[t], undo[t]) /\ u = undo[t]
  OBVIOUS
<1>1. /\ "venc" \in o => held[t].venc \in Venc
      /\ "rga" \in o => held[t].rga \in Rga
      /\ \A v \in Venc : venc[v] = t <=> "venc" \in o /\ held[t].venc = v
      /\ \A r \in Rga : rga[r] = t <=> "rga" \in o /\ held[t].rga = r
      /\ links[t] = o \ {"venc", "rga"}
      /\ (pc[t] # "undo" => u = <<>>) /\ u \in Rests
      /\ pc[t] \in Early \cup Late \cup {"undo"}
  BY SnapOne
<1>2. Holds(t) = o
  <2>1. (\E v \in Venc : venc[v] = t) <=> "venc" \in o
    BY <1>1
  <2>2. (\E r \in Rga : rga[r] = t) <=> "rga" \in o
    BY <1>1
  <2>. QED BY <1>1, <2>1, <2>2 DEF Holds
<1>3. pc[t] \in Early => o = {}
  BY DEF Early, Owed
<1>4. ToSet(u) \subseteq o
  BY <1>1, RestSets DEF Owed
<1>5. ("in" \in o => "rga" \in o) /\ ("out" \in o => {"rga", "venc"} \subseteq o)
  <2>1. CASE pc[t] = "undo"
    BY <1>1, <2>1, GivingBack DEF Owed
  <2>2. CASE pc[t] # "undo"
    BY <2>2 DEF Owed
  <2>. QED BY <2>1, <2>2
<1>. QED BY <1>1, <1>2, <1>3, <1>4, <1>5

\* Whatever fails, a snapshot that is over has left no channel, binding, buffer or picture
\* behind, each of its exits gives back what is there and its own, and no channel is
\* destroyed before it is unbound, whoever takes the pools between two steps of it.
THEOREM PreviewLeakCorrect == Spec => []NothingLeaked
<1>1. Init => SnapInv
  BY SnapInit
<1>2. SnapInv /\ [Next]_vars => SnapInv'
  BY SnapSnapshot, SnapOthers DEF Next, Done
<1>. QED BY <1>1, <1>2, SnapImplies, PTL DEF Spec

(***************************************************************************)
(* BindVdec.  Half-way through a list a channel has a decoder exactly if a *)
(* call that runs alone has come past it: decoders below v are given, v is *)
(* under work and the rest is as it was.  Of calls that run beside each    *)
(* other only their own places in their lists are known, but the first     *)
(* thing that a call does is to clear all that others have left.           *)
(***************************************************************************)
\* No list is longer than m_u8NeedIFrame, which BindVdec indexes by position.
ListsFit ==
  \A t \in Binder : \A n \in DOMAIN BindLists[t] : Len(BindLists[t][n]) <= MAXIPCNUM

Steps == {"off", "unhook", "clear", "stop", "create", "needI", "hook", "insert"}
AtChannel == {"create", "needI", "hook", "insert"}

Decoder ==
  [on : BOOLEAN, codec : {None, "h264", "h265"}, first : {None, "I", "P"}]
BindCall ==
  [at : Steps, list : Seq(Nat), i : Nat \ {0}, v : Nat, s : Session \cup {None}]

BindTypeOK ==
  /\ hooked \in [Session -> BOOLEAN]
  /\ vdecOf \in [Chn -> Vdec \cup {None}]
  /\ dec \in [Vdec -> Decoder]
  /\ bind \in [Thread -> BindCall]
  /\ calls \in [Thread -> Nat] /\ mixed \in BOOLEAN
  /\ \A t \in Snapper : pc[t] # "next" => calls[t] \in 1 .. Len(SnapLists[t])

\* Where a call is: it has given v decoders to the first i - 1 channels of its list.
Place(t) ==
  LET b == bind[t] IN
  /\ Len(b.list) <= MAXIPCNUM /\ b.v < b.i
  /\ b.at \in AtChannel =>
       /\ b.i <= Len(b.list) /\ b.s \in Session
       /\ b.s = StreamFor(b.list[b.i], Len(b.list))

\* What it has done for the channel it is at.
Work(t) ==
  LET b == bind[t] IN
  /\ b.at \in AtChannel \ {"create"} => dec[b.v].on
  /\ b.at = "insert" => hooked[b.s]

\* The decoders given are on, each to one channel, whose frames come from one stream.
Given(t) ==
  LET b == bind[t] IN
  /\ b.at = "clear" => \A s \in Session : ~hooked[s]
  /\ b.at \in {"off", "stop"} \cup AtChannel =>
       /\ \A c \in Chn : vdecOf[c] # None =>
            /\ b.at = "off" \/ vdecOf[c] < b.v
            /\ dec[vdecOf[c]].on
            /\ \E s \in Session : s[1] = c /\ hooked[s]
       /\ \A c, d \in Chn : c # d /\ vdecOf[c] # None => vdecOf[c] # vdecOf[d]
       /\ \A s \in Session : hooked[s] =>
            /\ s[1] \in Chn => vdecOf[s[1]] # None \/ (b.at = "insert" /\ s = b.s)
            /\ b.at = "off" \/ s = StreamFor(s[1], Len(b.list))
       /\ \A s, r \in Session : hooked[s] /\ hooked[r] /\ s[1] = r[1] => s = r

BindInv(t) == BindTypeOK /\ Place(t) /\ Work(t) /\ Given(t)

\* What a call that ran alone leaves.
Settled ==
  /\ \A c \in Chn : vdecOf[c] # None =>
       dec[vdecOf[c]].on /\ \E s \in Session : s[1] = c /\ hooked[s]
  /\ \A c, d \in Chn : c # d /\ vdecOf[c] # None => vdecOf[c] # vdecOf[d]
  /\ \A s \in Session : hooked[s] /\ s[1] \in Chn => vdecOf[s[1]] # None
  /\ \A s, r \in Session : hooked[s] /\ hooked[r] /\ s[1] = r[1] => s = r

Alone(t) == \A u \in Thread \ {t} : bind[u].at = "off"

CallsInv ==
  /\ BindTypeOK /\ \A t \in Thread : Place(t)
  /\ ~mixed => \A t \in Thread : bind[t].at # "off" => Alone(t) /\ Work(t) /\ Given(t)
  /\ Calm => Settled

\* A stream's channel is the one it was chosen for.
LEMMA StreamChannel == \A c, n : StreamFor(c, n)[1] = c
  BY DEF StreamFor

\* The records that BindVdec makes of a decoder and of its own state.
LEMMA DecoderTypes ==
  /\ Off \in Decoder
  /\ \A f \in {"h264", "h265"} : [Off EXCEPT !.on = TRUE, !.codec = f] \in Decoder
  BY DEF Off, Decoder

LEMMA BindFields ==
  ASSUME NEW b \in BindCall
  PROVE  /\ b.at \in Steps /\ b.list \in Seq(Nat) /\ Len(b.list) \in Nat
         /\ b.i \in Nat \ {0} /\ b.v \in Nat /\ b.s \in Session \cup {None}
<1>1. /\ b.at \in Steps /\ b.list \in Seq(Nat)
      /\ b.i \in Nat \ {0} /\ b.v \in Nat /\ b.s \in Session \cup {None}
  BY DEF BindCall
<1>2. Len(b.list) \in Nat
  BY <1>1
<1>. QED BY <1>1, <1>2

LEMMA BindUpdates ==
  ASSUME NEW b \in BindCall
  PROVE  /\ \A at \in Steps : [b EXCEPT !.at = at] \in BindCall
         /\ \A s \in Session : [b EXCEPT !.at = "create", !.s = s] \in BindCall
         /\ [b EXCEPT !.i = @ + 1] \in BindCall
         /\ \A v \in Nat : [b EXCEPT !.at = "stop", !.i = @ + 1, !.v = v] \in BindCall
<1>1. \A at \in Steps : [b EXCEPT !.at = at] \in BindCall
  BY DEF BindCall
<1>2. \A s \in Session : [b EXCEPT !.at = "create", !.s = s] \in BindCall
  BY DEF BindCall, Steps
<1>3. [b EXCEPT !.i = @ + 1] \in BindCall
  BY DEF BindCall
<1>4. \A v \in Nat : [b EXCEPT !.at = "stop", !.i = @ + 1, !.v = v] \in BindCall
  <2>1. \A c \in BindCall, v \in Nat : [c EXCEPT !.v = v] \in BindCall
    BY DEF BindCall
  <2>2. \A v : [b EXCEPT !.at = "stop", !.i = @ + 1, !.v = v]
               = [[[b EXCEPT !.i = @ + 1] EXCEPT !.at = "stop"] EXCEPT !.v = v]
    BY DEF BindCall
  <2>3. [[b EXCEPT !.i = @ + 1] EXCEPT !.at = "stop"] \in BindCall
    BY <1>3 DEF BindCall, Steps
  <2>. QED BY <2>1, <2>2, <2>3
<1>. QED BY <1>1, <1>2, <1>3, <1>4

LEMMA NoBinding == NotBinding \in BindCall
<1>1. <<>> \in Seq(Nat)
  OBVIOUS
<1>. QED BY <1>1 DEF NotBinding, BindCall, Steps

\* A step that neither binds, nor starts or stops a decoder.
LEMMA BindKeep ==
  ASSUME CallsInv, BindTypeOK', UNCHANGED <<hooked, vdecOf, bind, mixed>>,
         \A v \in Vdec : dec'[v].on = dec[v].on
  PROVE  CallsInv'
<1>1. \A t \in Thread : Place(t)'
  BY DEF CallsInv, Place
<1>2. ASSUME ~mixed, NEW t \in Thread, bind[t].at # "off"
      PROVE  Alone(t)' /\ Work(t)' /\ Given(t)'
  <2>1. Alone(t) /\ Work(t) /\ Given(t) /\ Place(t) /\ BindTypeOK
    BY <1>2 DEF CallsInv
  <2>2. /\ bind[t].i \in Nat /\ bind[t].v \in Nat /\ Len(bind[t].list) \in Nat
        /\ MAXIPCNUM \in Nat
    BY <2>1, PreviewAssumption, BindFields DEF PreviewAssumption, BindTypeOK
  <2>3. bind[t].at \in AtChannel => bind[t].v \in Vdec
    BY <2>1, <2>2 DEF Place, Vdec
  <2>4. Work(t)'
    BY <2>1, <2>3 DEF Work
  <2>5. Given(t)'
    <3>1. \A c \in Chn : vdecOf[c] # None => dec'[vdecOf[c]].on = dec[vdecOf[c]].on
      BY <2>1 DEF BindTypeOK
    <3>. QED BY SMTT(30), <2>1, <3>1 DEF Given
  <2>. QED BY <2>1, <2>4, <2>5 DEF Alone
<1>3. Calm' => Settled'
  <2> SUFFICES ASSUME Calm PROVE Settled'
    BY DEF Calm
  <2>. QED BY DEF CallsInv, Settled, BindTypeOK
<1>. QED BY <1>1, <1>2, <1>3 DEF CallsInv

\* A call begins: what the last ones left is not relied on.
LEMMA BindBegin ==
  ASSUME NEW t \in Thread, NEW list \in Seq(Nat), Len(list) <= MAXIPCNUM,
         CallsInv, BindTypeOK', Begin(t, list)
  PROVE  CallsInv'
<1>1. /\ bind'[t].at = "unhook" /\ bind'[t].list = list
      /\ bind'[t].i = 1 /\ bind'[t].v = 0
      /\ \A u \in Thread \ {t} : bind'[u] = bind[u]
  BY DEF Begin, NotBinding, CallsInv, BindTypeOK
<1>2. \A u \in Thread : Place(u)'
  BY <1>1 DEF CallsInv, Place, AtChannel
<1>3. ~mixed' => \A u \in Thread \ {t} : bind'[u].at = "off"
  BY <1>1 DEF Begin
<1>4. Work(t)' /\ Given(t)'
  BY <1>1 DEF Work, Given, AtChannel
<1>5. ~Calm'
  BY <1>1 DEF Calm
<1>. QED BY <1>2, <1>3, <1>4, <1>5 DEF CallsInv, Alone

\* The types of a call of BindVdec.
LEMMA BindTypes ==
  ASSUME NEW t \in Thread, BindTypeOK, Place(t), BindVdec(t)
  PROVE  BindTypeOK'
<1> DEFINE b == bind[t]
<1>1. /\ b \in BindCall /\ b.v \in Nat /\ b.v + 1 \in Nat
      /\ b.i \in Nat /\ Len(b.list) \in Nat /\ MAXIPCNUM \in Nat
  BY PreviewAssumption, BindFields DEF PreviewAssumption, BindTypeOK
<1>2. UNCHANGED <<calls, pc, mixed>>
  BY DEF BindVdec, ClearAll, StopVdec, CreateVdec, AskIFrame, Hook, Insert, InsertThen,
         snapVars
<1>3. {"clear", "stop", "needI", "hook", "insert"} \subseteq Steps
  BY DEF Steps
<1>4. bind' \in [Thread -> BindCall]
  <2>1. ASSUME NEW x \in BindCall, bind' = [bind EXCEPT ![t] = x]
        PROVE  bind' \in [Thread -> BindCall]
    BY <2>1 DEF BindTypeOK
  <2>2. CASE ClearAll(t) \/ AskIFrame(t) \/ Hook(t) \/ CreateVdec(t)
    <3>1. \E at \in Steps : bind' = [bind EXCEPT ![t] = [b EXCEPT !.at = at]]
      BY <1>3, <2>2 DEF ClearAll, AskIFrame, Hook, CreateVdec
    <3>. QED BY <1>1, <2>1, <3>1, BindUpdates
  <2>3. CASE StopVdec(t)
    BY <1>1, <2>1, <2>3, BindUpdates, NoBinding DEF StopVdec
  <2>4. CASE Insert(t)
    BY <1>1, <2>1, <2>4, BindUpdates DEF Insert, InsertThen
  <2>. QED BY <2>2, <2>3, <2>4 DEF BindVdec
<1>5. dec' \in [Vdec -> Decoder]
  <2>1. ASSUME NEW x \in Decoder, dec' = [dec EXCEPT ![b.v] = x]
        PROVE  dec' \in [Vdec -> Decoder]
    BY <2>1 DEF BindTypeOK
  <2>2. dec' = dec => dec' \in [Vdec -> Decoder]
    BY DEF BindTypeOK
  <2>. QED BY <2>1, <2>2, DecoderTypes
       DEF BindVdec, ClearAll, StopVdec, CreateVdec, EncoderFormat, AskIFrame, Hook,
           Insert, InsertThen
<1>6. hooked' \in [Session -> BOOLEAN]
  BY DEF BindVdec, ClearAll, StopVdec, CreateVdec, AskIFrame, Hook, Insert, InsertThen,
         BindTypeOK
<1>7. vdecOf' \in [Chn -> Vdec \cup {None}]
  <2>1. CASE Insert(t)
    <3>1. b.v \in Vdec
      BY <1>1, <2>1 DEF Insert, InsertThen, Place, AtChannel, Vdec
    <3>2. \E x \in Vdec \cup {None} :
            \/ vdecOf' = [vdecOf EXCEPT ![b.list[b.i]] = x]
            \/ vdecOf' = vdecOf
      BY <2>1, <3>1 DEF Insert, InsertThen, BindTypeOK
    <3>. QED BY <3>2 DEF BindTypeOK
  <2>2. CASE ~Insert(t)
    BY <2>2 DEF BindVdec, ClearAll, StopVdec, CreateVdec, AskIFrame, Hook,
                BindTypeOK
  <2>. QED BY <2>1, <2>2
<1>. QED BY <1>2, <1>4, <1>5, <1>6, <1>7 DEF BindTypeOK

\* Where a call is after a step of it, whatever other calls do.
LEMMA PlaceStep ==
  ASSUME NEW t \in Thread, BindTypeOK, Place(t), BindVdec(t)
  PROVE  Place(t)'
<1> DEFINE b == bind[t]
           n == Len(b.list)
<1>1. /\ b \in BindCall /\ b.i \in Nat \ {0} /\ b.v \in Nat
      /\ n \in Nat /\ MAXIPCNUM \in Nat
  BY PreviewAssumption, BindFields DEF PreviewAssumption, BindTypeOK
<1>2. b.v < b.i /\ n <= MAXIPCNUM
  BY DEF Place
<1>3. ASSUME NEW at, at \in AtChannel => b.at \in AtChannel,
             bind' = [bind EXCEPT ![t].at = at]
      PROVE  Place(t)'
  <2>1. bind'[t] = [b EXCEPT !.at = at]
    BY <1>3 DEF BindTypeOK
  <2>2. /\ bind'[t].at = at /\ bind'[t].list = b.list /\ bind'[t].i = b.i
        /\ bind'[t].v = b.v /\ bind'[t].s = b.s
    BY <1>1, <2>1 DEF BindCall
  <2>. QED BY <1>3, <2>2 DEF Place
<1>4. CASE ClearAll(t) \/ CreateVdec(t) \/ AskIFrame(t) \/ Hook(t)
  BY <1>3, <1>4 DEF ClearAll, CreateVdec, AskIFrame, Hook, AtChannel
<1>5. CASE StopVdec(t)
  <2>1. b.at = "stop"
    BY <1>5 DEF StopVdec
  <2>2. CASE b.i > n
    <3>1. bind'[t] = NotBinding
      BY <1>1, <1>5, <2>2 DEF StopVdec, BindTypeOK
    <3>. QED BY <1>1, <3>1 DEF Place, AtChannel, NotBinding
  <2>3. CASE b.i <= n
    <3> DEFINE s == StreamFor(b.list[b.i], n)
    <3>1. bind'[t] = IF s \in Session THEN [b EXCEPT !.at = "create", !.s = s]
                                      ELSE [b EXCEPT !.i = @ + 1]
      <4>1. bind' = [bind EXCEPT ![t] =
              IF s \in Session THEN [b EXCEPT !.at = "create", !.s = s]
                               ELSE [b EXCEPT !.i = @ + 1]]
        BY <1>1, <1>5, <2>3 DEF StopVdec
      <4>. QED BY <4>1 DEF BindTypeOK
    <3>2. /\ bind'[t].list = b.list /\ bind'[t].v = b.v
          /\ bind'[t].at \in {"create", "stop"} /\ bind'[t].i \in {b.i, b.i + 1}
          /\ bind'[t].at = "create" =>
               s \in Session /\ bind'[t].s = s /\ bind'[t].i = b.i
      BY <1>1, <2>1, <3>1 DEF BindCall
    <3>. QED BY <1>1, <1>2, <2>3, <3>2 DEF Place, AtChannel
  <2>. QED BY <1>1, <2>2, <2>3
<1>6. CASE Insert(t)
  <2>1. bind' = [bind EXCEPT ![t] = [b EXCEPT !.at = "stop", !.i = b.i + 1, !.v = b.v + 1]]
    BY <1>6 DEF Insert, InsertThen
  <2>2. /\ bind'[t].at = "stop" /\ bind'[t].list = b.list
        /\ bind'[t].i = b.i + 1 /\ bind'[t].v = b.v + 1
    BY <1>1, <2>1 DEF BindTypeOK, BindCall
  <2>. QED BY <1>1, <1>2, <2>2 DEF Place, AtChannel
<1>. QED BY <1>4, <1>5, <1>6 DEF BindVdec

\* Every step of a call leaves the channels it has come past with their decoders.
LEMMA BindStep ==
  ASSUME NEW t \in Thread, BindInv(t), BindVdec(t)
  PROVE  BindInv(t)'
<1> DEFINE b == bind[t]
           n == Len(b.list)
<1>0. BindTypeOK' /\ Place(t)'
  BY BindTypes, PlaceStep DEF BindInv
<1>1. /\ b \in BindCall /\ b.i \in Nat \ {0} /\ b.v \in Nat
      /\ n \in Nat /\ MAXIPCNUM \in Nat
      /\ \A c \in Chn : vdecOf[c] # None => vdecOf[c] \in Vdec /\ vdecOf[c] \in Nat
  <2>1. b \in BindCall
    BY DEF BindInv, BindTypeOK
  <2>2. \A c \in Chn : vdecOf[c] # None => vdecOf[c] \in Vdec /\ vdecOf[c] \in Nat
    BY PreviewAssumption DEF PreviewAssumption, BindInv, BindTypeOK, Vdec
  <2>. QED BY <2>1, <2>2, BindFields, PreviewAssumption DEF PreviewAssumption
<1>2. b.v < b.i /\ n <= MAXIPCNUM
  BY DEF BindInv, Place, Work
<1>3. CASE ClearAll(t)
  <2>1. CASE b.at = "unhook"
    <3>1. \A s \in Session : ~hooked'[s]
      BY <1>3, <2>1 DEF ClearAll
    <3>2. bind'[t] = [b EXCEPT !.at = "clear"]
      BY <1>3, <2>1 DEF ClearAll, BindInv, BindTypeOK, BindCall, Decoder
    <3>. QED BY <1>0, <1>2, <3>1, <3>2 DEF BindInv, Place, Work, Given, AtChannel, BindTypeOK
  <2>2. CASE b.at = "clear"
    <3>1. /\ \A s \in Session : ~hooked'[s]
          /\ \A c \in Chn : vdecOf'[c] = None
      BY <1>3, <2>2 DEF ClearAll, BindInv, Given
    <3>2. bind'[t] = [b EXCEPT !.at = "stop"]
      BY <1>3, <2>2 DEF ClearAll, BindInv, BindTypeOK, BindCall, Decoder
    <3>. QED BY <1>0, <1>2, <3>1, <3>2 DEF BindInv, Place, Work, Given, AtChannel, BindTypeOK
  <2>. QED BY <1>3, <2>1, <2>2 DEF ClearAll
<1>4. CASE StopVdec(t)
  <2>1. b.at = "stop" /\ UNCHANGED <<hooked, vdecOf>>
    BY <1>4 DEF StopVdec
  <2>2. CASE b.i > n
    <3>1. bind'[t] = NotBinding /\ dec' = dec
      BY <1>1, <1>4, <2>2 DEF StopVdec, BindInv, BindTypeOK, BindCall, Decoder
    <3>. QED BY <1>0, <1>1, <2>1, <3>1
             DEF BindInv, Place, Work, Given, AtChannel, NotBinding
  <2>3. CASE b.i <= n
    <3> DEFINE s == StreamFor(b.list[b.i], n)
    <3>1. /\ dec' = [dec EXCEPT ![b.v] = Off]
          /\ bind'[t] = IF s \in Session THEN [b EXCEPT !.at = "create", !.s = s]
                                         ELSE [b EXCEPT !.i = @ + 1]
      <4>1. /\ dec' = [dec EXCEPT ![b.v] = Off]
            /\ bind' = [bind EXCEPT ![t] =
                 IF s \in Session THEN [b EXCEPT !.at = "create", !.s = s]
                                  ELSE [b EXCEPT !.i = @ + 1]]
        BY <1>1, <1>4, <2>3 DEF StopVdec
      <4>. QED BY <4>1 DEF BindInv, BindTypeOK
    <3>2. /\ bind'[t].list = b.list /\ bind'[t].v = b.v
          /\ bind'[t].at \in {"create", "stop"} /\ bind'[t].i \in {b.i, b.i + 1}
          /\ bind'[t].at = "create" =>
               s \in Session /\ bind'[t].s = s /\ bind'[t].i = b.i
      BY <2>1, <3>1 DEF BindInv, BindTypeOK, BindCall, Decoder
    <3>3. Work(t)'
      BY <3>2 DEF Work, AtChannel
    <3>4. \A c \in Chn : vdecOf[c] # None => dec'[vdecOf[c]].on = dec[vdecOf[c]].on
      BY <1>1, <2>1, <3>1 DEF BindInv, Given, BindTypeOK
    <3>5. Given(t)'
      BY <2>1, <3>2, <3>4 DEF BindInv, Given, AtChannel
    <3>. QED BY <1>0, <3>3, <3>5 DEF BindInv
  <2>. QED BY <1>1, <2>2, <2>3
<1>5. CASE CreateVdec(t)
  <2>1. /\ b.at = "create" /\ UNCHANGED <<hooked, vdecOf>>
        /\ bind'[t] = [b EXCEPT !.at = "needI"] /\ b.v \in Vdec
    BY <1>1, <1>2, <1>5 DEF CreateVdec, BindInv, BindTypeOK, BindCall, Decoder, Place, Work, AtChannel, Vdec
  <2>2. dec'[b.v].on /\ \A v \in Vdec : dec[v].on => dec'[v].on
    BY <1>5, <2>1 DEF CreateVdec, Off, BindInv, BindTypeOK, BindCall, Decoder
  <2>3. Work(t)'
    BY <2>1, <2>2 DEF BindInv, Work, BindTypeOK, BindCall
  <2>4. Given(t)'
    <3>1. /\ \A c \in Chn : vdecOf[c] # None =>
               /\ vdecOf[c] < b.v /\ dec'[vdecOf[c]].on
               /\ \E s \in Session : s[1] = c /\ hooked[s]
          /\ \A c, d \in Chn : c # d /\ vdecOf[c] # None => vdecOf[c] # vdecOf[d]
          /\ \A s \in Session : hooked[s] =>
               /\ s[1] \in Chn => vdecOf[s[1]] # None
               /\ s = StreamFor(s[1], n)
          /\ \A s, r \in Session : hooked[s] /\ hooked[r] /\ s[1] = r[1] => s = r
      BY <1>1, <2>1, <2>2 DEF BindInv, Given, AtChannel
    <3>2. /\ bind'[t].at = "needI" /\ bind'[t].list = b.list /\ bind'[t].v = b.v
      BY <1>1, <2>1 DEF BindCall
    <3>. QED BY <2>1, <3>1, <3>2 DEF Given, AtChannel
  <2>. QED BY <1>0, <2>3, <2>4 DEF BindInv
<1>6. CASE AskIFrame(t)
  <2>1. /\ b.at = "needI" /\ UNCHANGED <<hooked, vdecOf, dec>>
        /\ bind'[t] = [b EXCEPT !.at = "hook"]
    BY <1>6 DEF AskIFrame, BindInv, BindTypeOK, BindCall, Decoder
  <2>. QED BY <1>0, <2>1 DEF BindInv, Place, Work, Given, AtChannel, BindTypeOK
<1>7. CASE Hook(t)
  <2>1. /\ b.at = "hook" /\ UNCHANGED <<vdecOf, dec>>
        /\ bind'[t] = [b EXCEPT !.at = "insert"]
        /\ b.s \in Session /\ b.s = StreamFor(b.list[b.i], n)
    BY <1>7 DEF Hook, BindInv, BindTypeOK, BindCall, Decoder, Place, Work, AtChannel
  <2>2. hooked'[b.s] /\ \A s \in Session \ {b.s} : hooked'[s] = hooked[s]
    BY <1>7, <2>1, Zenon DEF Hook, BindInv, BindTypeOK, BindCall, Decoder
  <2>3. b.s = StreamFor(b.s[1], n)
    BY <2>1, StreamChannel
  <2>4. Work(t)'
    BY <2>1, <2>2 DEF BindInv, Place, Work, AtChannel, BindTypeOK
  <2>5. Given(t)'
    <3>1. \A s \in Session : hooked[s] => s = StreamFor(s[1], n)
      BY <2>1 DEF BindInv, Given, AtChannel
    <3>2. /\ \A c \in Chn : vdecOf[c] # None =>
               /\ vdecOf[c] < b.v /\ dec[vdecOf[c]].on
               /\ \E s \in Session : s[1] = c /\ hooked[s]
          /\ \A c, d \in Chn : c # d /\ vdecOf[c] # None => vdecOf[c] # vdecOf[d]
          /\ \A s \in Session : hooked[s] /\ s[1] \in Chn => vdecOf[s[1]] # None
          /\ \A s, r \in Session : hooked[s] /\ hooked[r] /\ s[1] = r[1] => s = r
      BY <2>1 DEF BindInv, Given, AtChannel
    <3>3. /\ bind'[t].at = "insert" /\ bind'[t].list = b.list /\ bind'[t].v = b.v
          /\ bind'[t].s = b.s
      BY <1>1, <2>1 DEF BindCall
    <3>4. \A s \in Session : hooked[s] => hooked'[s]
      BY <2>2
    <3>5. \A s \in Session : hooked'[s] => hooked[s] \/ s = b.s
      BY <2>2
    <3>6. \A s \in Session : hooked'[s] => s = StreamFor(s[1], n)
      BY <2>3, <3>1, <3>5
    <3>7. \A s, r \in Session : hooked'[s] /\ hooked'[r] /\ s[1] = r[1] => s = r
      BY <3>6
    <3>. QED BY <2>1, <3>2, <3>3, <3>4, <3>5, <3>6, <3>7 DEF Given, AtChannel
  <2>. QED BY <1>0, <2>4, <2>5 DEF BindInv
<1>8. CASE Insert(t)
  <2> DEFINE c == b.list[b.i]
  <2>1. /\ b.at = "insert" /\ UNCHANGED <<hooked, dec>>
        /\ vdecOf' = [vdecOf EXCEPT ![c] = IF @ = None THEN b.v ELSE @]
        /\ bind'[t] = [b EXCEPT !.at = "stop", !.i = b.i + 1, !.v = b.v + 1]
    BY <1>8 DEF Insert, InsertThen, BindInv, BindTypeOK, BindCall, Decoder
  <2>2. /\ b.s \in Session /\ b.s[1] = c /\ hooked[b.s] /\ dec[b.v].on
    BY <2>1, StreamChannel DEF BindInv, Place, Work, AtChannel
  <2>3. \A d \in Chn : vdecOf'[d] = IF d = c /\ vdecOf[d] = None THEN b.v ELSE vdecOf[d]
    BY <2>1 DEF BindInv, BindTypeOK, BindCall, Decoder
  <2>4. /\ bind'[t].at = "stop" /\ bind'[t].list = b.list
        /\ bind'[t].i = b.i + 1 /\ bind'[t].v = b.v + 1
    BY <2>1 DEF BindInv, BindTypeOK, BindCall, Decoder
  <2> HIDE DEF c
  <2>5. Work(t)'
    BY <2>4 DEF Work, AtChannel
  <2>6. /\ \A d \in Chn : vdecOf[d] # None =>
              /\ vdecOf[d] < b.v /\ dec[vdecOf[d]].on
              /\ \E s \in Session : s[1] = d /\ hooked[s]
        /\ \A d, e \in Chn : d # e /\ vdecOf[d] # None => vdecOf[d] # vdecOf[e]
        /\ \A s \in Session : hooked[s] =>
              /\ s[1] \in Chn => vdecOf[s[1]] # None \/ s = b.s
              /\ s = StreamFor(s[1], n)
        /\ \A s, r \in Session : hooked[s] /\ hooked[r] /\ s[1] = r[1] => s = r
    BY <2>1 DEF BindInv, Given, AtChannel
  <2>7. b.v # None
    BY <1>1, PreviewAssumption DEF PreviewAssumption
  <2>8. Given(t)'
    BY <1>1, <2>1, <2>2, <2>3, <2>4, <2>6, <2>7 DEF Given, AtChannel
  <2>. QED BY <1>0, <2>5, <2>8 DEF BindInv
<1>. QED BY <1>3, <1>4, <1>5, <1>6, <1>7, <1>8 DEF BindVdec

\* With the decoders to itself a call that ends leaves them settled.
LEMMA CallStep ==
  ASSUME NEW t \in Thread, CallsInv, BindVdec(t)
  PROVE  CallsInv'
<1>1. BindTypeOK /\ Place(t) /\ BindTypeOK' /\ Place(t)'
  BY BindTypes, PlaceStep DEF CallsInv
<1>2. /\ mixed' = mixed /\ bind[t].at # "off"
      /\ \A u \in Thread \ {t} : bind'[u] = bind[u]
  BY <1>1 DEF BindVdec, ClearAll, StopVdec, CreateVdec, AskIFrame, Hook, Insert, InsertThen,
              BindTypeOK
<1>3. \A u \in Thread : Place(u)'
  BY <1>1, <1>2 DEF CallsInv, Place
<1>4. ASSUME ~mixed
      PROVE  BindInv(t)' /\ \A u \in Thread \ {t} : bind'[u].at = "off"
  BY <1>1, <1>2, <1>4, BindStep DEF CallsInv, BindInv, Alone
<1>5. Calm' => Settled'
  BY <1>2, <1>4 DEF Calm, BindInv, Given, Settled
<1>. QED BY <1>1, <1>2, <1>3, <1>4, <1>5 DEF CallsInv, BindInv, Alone

LEMMA BindInit == Init => CallsInv
<1> SUFFICES ASSUME Init PROVE CallsInv
  OBVIOUS
<1>1. BindTypeOK
  BY NoBinding, DecoderTypes DEF Init, BindTypeOK
<1>2. /\ \A t \in Thread : bind[t] = NotBinding
      /\ Len(<<>>) = 0 /\ MAXIPCNUM \in Nat
  BY PreviewAssumption DEF PreviewAssumption, Init
<1>3. \A t \in Thread : Place(t) /\ bind[t].at = "off"
  BY <1>2 DEF Place, NotBinding, AtChannel
<1>4. Settled
  BY DEF Init, Settled
<1>. QED BY <1>1, <1>3, <1>4 DEF CallsInv

\* What Begin writes is a call of BindVdec.
LEMMA BeginTypes ==
  ASSUME NEW t \in Thread, NEW list \in Seq(Nat), BindTypeOK, Begin(t, list)
  PROVE  bind' \in [Thread -> BindCall]
<1>1. [NotBinding EXCEPT !.at = "unhook", !.list = list] \in BindCall
  BY NoBinding DEF BindCall, Steps
<1>. QED BY <1>1 DEF Begin, BindTypeOK

\* A call made by the screen's thread.
LEMMA BindCalled ==
  ASSUME NEW t \in Binder, ListsFit, CallsInv, CallBindVdec(t)
  PROVE  CallsInv'
<1> DEFINE list == BindLists[t][calls[t] + 1]
<1>1. calls[t] \in Nat /\ calls[t] < Len(BindLists[t]) /\ BindLists[t] \in Seq(Seq(Nat))
  BY PreviewAssumption
     DEF PreviewAssumption, CallsInv, BindTypeOK, CallBindVdec, Thread
<1>2. calls[t] + 1 \in DOMAIN BindLists[t] /\ list \in Seq(Nat)
  BY <1>1
<1>3. Len(list) <= MAXIPCNUM
  BY <1>2 DEF ListsFit
<1>4. /\ Begin(t, list) /\ calls' = [calls EXCEPT ![t] = @ + 1]
      /\ UNCHANGED <<hooked, vdecOf, dec, pc>>
  BY DEF CallBindVdec, snapVars
<1>5. t \in Thread /\ t \notin Snapper /\ mixed' \in BOOLEAN
  BY PreviewAssumption DEF PreviewAssumption, Thread, CallBindVdec, Begin
<1> HIDE DEF list
<1>6. BindTypeOK'
  <2>1. bind' \in [Thread -> BindCall]
    BY <1>2, <1>4, <1>5, BeginTypes DEF CallsInv
  <2>2. \A u \in Snapper : calls'[u] = calls[u]
    BY <1>4, <1>5 DEF CallsInv, BindTypeOK
  <2>3. calls' \in [Thread -> Nat]
    BY <1>1, <1>4, <1>5 DEF CallsInv, BindTypeOK
  <2>4. \A u \in Snapper : pc'[u] # "next" => calls'[u] \in 1 .. Len(SnapLists[u])
    BY <1>4, <2>2 DEF CallsInv, BindTypeOK
  <2>. QED BY <1>4, <1>5, <2>1, <2>3, <2>4 DEF CallsInv, BindTypeOK
<1>. QED BY <1>2, <1>3, <1>4, <1>5, <1>6, BindBegin

\* The steps of a snapshot: two of them may call BindVdec, for one channel.
LEMMA BindSnapshot ==
  ASSUME NEW t \in Snapper, CallsInv, SnapTypeOK, Snapshot(t)
  PROVE  CallsInv'
<1>1. UNCHANGED <<hooked, vdecOf, dec>>
  BY DEF Snapshot, EnsureVdec, SnapAskIFrame, LookUp, GetSize, SnapVenc, SnapRga,
         SnapRgaElse, SnapBind, Link, GetPicture, GetTimesOut, GiveBack, SnapReturns, bindVars
<1>2. SnapLists[t] \in Seq(Nat) /\ calls[t] \in Nat /\ MAXIPCNUM \in Nat \ {0}
  BY PreviewAssumption DEF PreviewAssumption, CallsInv, BindTypeOK, Thread
<1>3. t \in Thread
  BY DEF Thread
<1>4. /\ calls' \in [Thread -> Nat]
      /\ pc'[t] # "next" => calls'[t] \in 1 .. Len(SnapLists[t])
      /\ \A u \in Snapper \ {t} : calls'[u] = calls[u] /\ pc'[u] = pc[u]
  <2>1. CASE EnsureVdec(t)
    BY <1>2, <1>3, <2>1 DEF EnsureVdec, CallsInv, BindTypeOK, SnapTypeOK
  <2>2. CASE ~EnsureVdec(t)
    <3>1. calls' = calls /\ pc[t] # "next" /\ (pc' = pc \/ \E p : pc' = [pc EXCEPT ![t] = p])
      BY <2>2 DEF Snapshot, SnapAskIFrame, LookUp, GetSize, SnapVenc, SnapRga, SnapRgaElse,
                  SnapBind, Link, GetPicture, GetTimesOut, GiveBack, SnapReturns, Exit, Advance
    <3>2. \A u \in Snapper \ {t} : pc'[u] = pc[u]
      BY <3>1 DEF SnapTypeOK
    <3>. QED BY <3>1, <3>2 DEF CallsInv, BindTypeOK
  <2>. QED BY <2>1, <2>2
<1>5. UNCHANGED <<bind, mixed>> \/ \E c \in Nat : Begin(t, <<c>>)
  <2>1. CASE EnsureVdec(t)
    <3>1. SnapLists[t][calls[t] + 1] \in Nat
      BY <1>2, <2>1 DEF EnsureVdec
    <3>. QED BY <2>1, <3>1 DEF EnsureVdec
  <2>2. CASE LookUp(t)
    <3>1. pc[t] # "next"
      BY <2>2 DEF LookUp
    <3>2. Asked(t) \in Nat
      BY <1>2, <3>1 DEF Asked, CallsInv, BindTypeOK
    <3>. QED BY <2>2, <3>2 DEF LookUp
  <2>3. CASE ~EnsureVdec(t) /\ ~LookUp(t)
    BY <2>3 DEF Snapshot, SnapAskIFrame, GetSize, SnapVenc, SnapRga, SnapRgaElse, SnapBind,
                Link, GetPicture, GetTimesOut, GiveBack, SnapReturns, bindVars
  <2>. QED BY <2>1, <2>2, <2>3
<1>6. \A u \in Snapper : pc'[u] # "next" => calls'[u] \in 1 .. Len(SnapLists[u])
  BY <1>4 DEF CallsInv, BindTypeOK
<1>7. CASE UNCHANGED <<bind, mixed>>
  <2>1. BindTypeOK'
    BY <1>1, <1>4, <1>6, <1>7 DEF CallsInv, BindTypeOK
  <2>. QED BY <1>1, <1>7, <2>1, BindKeep
<1>8. ASSUME NEW c \in Nat, Begin(t, <<c>>)
      PROVE  CallsInv'
  <2>1. <<c>> \in Seq(Nat) /\ Len(<<c>>) <= MAXIPCNUM
    BY <1>2
  <2>2. bind' \in [Thread -> BindCall] /\ mixed' \in BOOLEAN
    BY <1>3, <1>8, <2>1, BeginTypes DEF CallsInv, Begin
  <2>3. BindTypeOK'
    BY <1>1, <1>4, <1>6, <2>2 DEF CallsInv, BindTypeOK
  <2>. QED BY <1>3, <1>8, <2>1, <2>3, BindBegin
<1>. QED BY <1>5, <1>7, <1>8

\* The streams start no decoder and stop none.
LEMMA BindOthers ==
  ASSUME CallsInv,
         \/ \E s \in Session : IpCamCb(s) \/ CheckIFrame(s) \/ SendFrame(s)
         \/ OtherUser \/ UNCHANGED vars
  PROVE  CallsInv'
<1>1. UNCHANGED <<hooked, vdecOf, bind, mixed, calls, pc>>
  BY DEF IpCamCb, CheckIFrame, SendFrame, OtherUser, bindVars, snapVars, vars
<1>2. dec' = dec \/ \E d, f : f \in {"I", "P"} /\
                      dec' = [dec EXCEPT ![d].first = IF @ # None THEN @ ELSE f]
  BY DEF IpCamCb, CheckIFrame, SendFrame, OtherUser, bindVars, vars
<1>3. \A e \in Decoder : \A f \in {"I", "P"} :
        /\ [e EXCEPT !.first = IF @ # None THEN @ ELSE f] \in Decoder
        /\ [e EXCEPT !.first = IF @ # None THEN @ ELSE f].on = e.on
  BY DEF Decoder
<1>4. dec' \in [Vdec -> Decoder] /\ \A v \in Vdec : dec'[v].on = dec[v].on
  <2>1. dec \in [Vdec -> Decoder]
    BY DEF CallsInv, BindTypeOK
  <2>2. ASSUME NEW d, NEW f \in {"I", "P"},
               dec' = [dec EXCEPT ![d].first = IF @ # None THEN @ ELSE f]
        PROVE  dec' \in [Vdec -> Decoder] /\ \A v \in Vdec : dec'[v].on = dec[v].on
    <3>1. ASSUME NEW v \in Vdec
          PROVE  dec'[v] \in Decoder /\ dec'[v].on = dec[v].on
      <4>1. dec'[v] = IF v = d
                      THEN [dec[v] EXCEPT !.first = IF @ # None THEN @ ELSE f]
                      ELSE dec[v]
        BY <2>1, <2>2
      <4>2. dec[v] \in Decoder
        BY <2>1
      <4>3. CASE v = d
        BY <1>3, <4>1, <4>2, <4>3, ZenonT(30)
      <4>4. CASE v # d
        BY <4>1, <4>2, <4>4, Zenon
      <4>. QED BY <4>3, <4>4
    <3>2. dec' = [v \in Vdec |-> dec'[v]]
      BY <2>1, <2>2
    <3>. QED BY <3>1, <3>2
  <2>. QED BY <1>2, <2>1, <2>2
<1>5. BindTypeOK'
  BY <1>1, <1>4 DEF CallsInv, BindTypeOK
<1>. QED BY <1>1, <1>4, <1>5, BindKeep

\* No list is too long: the invariant is inductive.
LEMMA BindCorrect ==
  ASSUME ListsFit
  PROVE  Spec => [](SnapInv /\ CallsInv)
<1>1. Init => SnapInv /\ CallsInv
  BY SnapInit, BindInit
<1>2. SnapInv /\ CallsInv /\ [Next]_vars => SnapInv' /\ CallsInv'
  <2> SUFFICES ASSUME SnapInv, CallsInv, [Next]_vars
               PROVE  SnapInv' /\ CallsInv'
    OBVIOUS
  <2>1. SnapInv'
    BY SnapSnapshot, SnapOthers DEF Next, Done
  <2>2. CallsInv'
    BY CallStep, BindCalled, BindSnapshot, BindOthers DEF Next, Done, SnapInv
  <2>. QED BY <2>1, <2>2
<1>. QED BY <1>1, <1>2, PTL DEF Spec

\* Once a call of BindVdec is over that no other ran beside, no decoder serves two
\* channels, whatever lists were shown before, whatever calls that overlapped have left
\* and whichever channels have no stream.
THEOREM ServesCorrect == ListsFit => (Spec => []DecoderServesOne)
<1> SUFFICES ASSUME ListsFit PROVE Spec => []DecoderServesOne
  OBVIOUS
<1>1. CallsInv => DecoderServesOne
  BY DEF CallsInv, Settled, DecoderServesOne
<1>. QED BY <1>1, BindCorrect, PTL

\* Once a call of BindVdec is over that no other ran beside, a channel has a decoder that
\* is on exactly if one of its streams, and one only, calls IpCamCb: no frame is lost for
\* want of a decoder, and main and sub stream are never decoded as one.
THEOREM HookedCorrect == ListsFit => (Spec => []HookedIsBound)
<1> SUFFICES ASSUME ListsFit PROVE Spec => []HookedIsBound
  OBVIOUS
<1>1. CallsInv => HookedIsBound
  <2> SUFFICES ASSUME CallsInv, Calm, NEW c \in Chn
               PROVE  LET streams == {s \in Session : s[1] = c /\ hooked[s]} IN
                      IF vdecOf[c] = None THEN streams = {}
                      ELSE dec[vdecOf[c]].on /\ \E s \in Session : streams = {s}
    BY DEF HookedIsBound
  <2>1. /\ vdecOf[c] # None => /\ dec[vdecOf[c]].on
                               /\ \E s \in Session : s[1] = c /\ hooked[s]
        /\ \A s \in Session : hooked[s] /\ s[1] = c => vdecOf[c] # None
        /\ \A s, r \in Session : hooked[s] /\ hooked[r] /\ s[1] = r[1] => s = r
    BY DEF CallsInv, Settled
  <2>. QED BY <2>1
<1>. QED BY <1>1, BindCorrect, PTL
=============================================================================
