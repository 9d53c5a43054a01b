---------------------------- MODULE NativeSettings ----------------------------
(***************************************************************************)
(* Mihomo's nodes (internal/app/mihomonative): fixed proxies and           *)
(* subscriptions, kept in the store, and the file native.json made of them.*)
(*                                                                         *)
(* An update reads what is stored, plans the new configuration, saves it,  *)
(* writes the file and then replaces the references of egress profiles, in *)
(* steps that can each fail and that nothing holds together.               *)
(***************************************************************************)
EXTENDS RuntimeSettings

CONSTANTS
  NativeUpdater,
  NativeRequests,   \* configurations asked for
  StableId,         \* StableId[kind][uri] = the id of an item that gives none
  Malformed         \* uris that cannot be parsed

Kind == {"fixed", "sub"}

\* A request has a list of each kind.
ASSUME NativeAssumption ==
  \A r \in NativeRequests, k \in Kind : Len(r[k]) \in Nat /\ DOMAIN r[k] = 1..Len(r[k])

NoNodes == [k \in Kind |-> <<>>]

VARIABLES
  native,   \* the stored configuration: for each kind a list of [id, name, uri]
  file,     \* native.json; NoNodes: it is missing or empty
  nat       \* nat[n]: where an update is, what it started from and its plan

nativeVars == <<native, file, nat>>

\* What a profile may refer to.
ResourceIds == UNION {UNION {{i.id, i.name} : i \in Items(native[k])} : k \in Kind}

-----------------------------------------------------------------------------
(* The plan of an update.                                                 *)

\* An item without id keeps the id of the item of its name, else its id is
\* made of its uri.
NormalItem(k, in, current) ==
  LET named == {c \in Items(current[k]) : c.name = in.name} IN
  [in EXCEPT !.id = IF @ # "" THEN @
                    ELSE IF named # {} THEN (CHOOSE c \in named : TRUE).id
                    ELSE StableId[k][in.uri]]

Planned(r, current) ==
  [k \in Kind |-> [i \in DOMAIN r[k] |-> NormalItem(k, r[k][i], current)]]

PlanOK(plan) ==
  \A k \in Kind : /\ Distinct(plan[k], LAMBDA i : i.id)
                  /\ Distinct(plan[k], LAMBDA i : i.name)
                  /\ \A i \in Items(plan[k]) : i.name # "" /\ i.uri \notin Malformed

NoFormer(k, id, current) == {}

\* The item that had this id: by its own id, else the first whose uri makes it.
Former(k, id, current) ==
  LET own == {c \in Items(current[k]) : c.id = id}
      uri == {i \in DOMAIN current[k] : StableId[k][current[k][i].uri] = id}
  IN IF own # {} THEN own ELSE {current[k][i] : i \in {j \in uri : \A m \in uri : j <= m}}

\* References by a name, new or former, become references by id. What is
\* written later counts: a subscription rather than a fixed proxy, and of each
\* kind the last item that is or was of that name.
Renamed(k, name, plan, current) ==
  {i \in DOMAIN plan[k] :
     name \in {plan[k][i].name} \cup {c.name : c \in Former(k, plan[k][i].id, current)}}

Replacement(name, plan, current) ==
  LET of(k) == LET at == Renamed(k, name, plan, current) IN
               {[id |-> plan[k][i].id, fixed |-> k = "fixed"] :
                  i \in {j \in at : \A m \in at : m <= j}}
  IN IF of("sub") # {} THEN of("sub") ELSE of("fixed")

ReplacedRef(ref, plan, current) ==
  LET by == Replacement(ref.resource, plan, current)
      w  == CHOOSE x \in by : TRUE
  IN IF by = {} THEN ref
     ELSE IF w.fixed THEN [resource |-> w.id, of |-> w.id, leaf |-> ""]
     ELSE [resource |-> w.id, leaf |-> ref.leaf,
           of |-> IF ref.of = ref.resource /\ ref.leaf # "" THEN w.id ELSE ref.of]

ReplacedRefs(d, plan, current) ==
  [d EXCEPT !.profiles = [i \in DOMAIN d.profiles |->
     [d.profiles[i] EXCEPT !.lineRef = ReplacedRef(d.profiles[i].lineRef, plan, current),
                           !.exitRef = ReplacedRef(d.profiles[i].exitRef, plan, current)]]]

-----------------------------------------------------------------------------
(* The steps of an update.                                                *)

IdleNative == [at |-> "idle", plan |-> NoNodes, base |-> NoNodes]

NativeInit == nat = [n \in NativeUpdater |-> IdleNative]

\* A refused request, or one made while what is stored cannot be rendered,
\* changes nothing: it is as if it had not come.
BeginNative(n, r) ==
  LET plan == Planned(r, native) IN
  /\ nat[n].at = "idle" /\ PlanOK(plan)
  /\ \A k \in Kind : \A i \in Items(native[k]) : i.uri \notin Malformed
  /\ nat' = [nat EXCEPT ![n] = [at |-> "planned", plan |-> plan, base |-> native]]
  /\ UNCHANGED <<native, file, settingsVars>>

SaveNative(n) ==
  /\ nat[n].at = "planned"
  /\ native' = nat[n].plan
  /\ nat' = [nat EXCEPT ![n].at = "saved"]
  /\ UNCHANGED <<file, settingsVars>>

\* The file is replaced by a rename, so it is the old one or the new one.
WriteNative(n) ==
  /\ nat[n].at = "saved"
  /\ file' = nat[n].plan
  /\ nat' = [nat EXCEPT ![n].at = "written"]
  /\ UNCHANGED <<native, settingsVars>>

\* Under the mutex of the settings.
ReplaceRefs(n) ==
  LET new == ReplacedRefs(doc, nat[n].plan, nat[n].base) IN
  /\ nat[n].at = "written"
  /\ doc' = new
  /\ upd' = [u \in Updater |->
       IF new # doc /\ upd[u].at # "idle" THEN [upd[u] EXCEPT !.alone = FALSE] ELSE upd[u]]
  /\ nat' = [nat EXCEPT ![n].at = "replaced"]
  /\ UNCHANGED <<native, file, secrets>>

\* A step fails. What was saved stays, and the steps behind it are not made:
\* nothing asks for the change to be applied.
NativeFails(n) ==
  /\ nat[n].at \in {"planned", "saved", "written"}
  /\ nat' = [nat EXCEPT ![n] = IdleNative]
  /\ UNCHANGED <<native, file, settingsVars>>

-----------------------------------------------------------------------------
(* Properties.                                                            *)

\* The item a reference leads to when the data plane is rendered: the first
\* fixed proxy, else the first subscription, of that id or name.
Resolved(ref, config) ==
  LET hits(k) == {i \in DOMAIN config[k] :
                    ref.resource \in {config[k][i].id, config[k][i].name}}
      first(k) == CHOOSE i \in hits(k) : \A j \in hits(k) : i <= j
  IN IF hits("fixed") # {} THEN <<"fixed", config["fixed"][first("fixed")].id>>
     ELSE IF hits("sub") # {} THEN <<"sub", config["sub"][first("sub")].id>>
     ELSE <<"none", ref.resource>>

\* The nodes that bear one of these names, as id or as name.
Bearing(names, config) ==
  UNION {{<<k, i.id>> : i \in {x \in Items(config[k]) : {x.id, x.name} \cap names # {}}} : k \in Kind}

\* The nodes whose references by name go to an item of another id: that id is
\* made of the uri that was theirs.
NameTaken(plan, base) ==
  UNION {{<<k, c.id>> : c \in UNION {Former(k, i.id, base) \ {x \in Items(base[k]) : x.id = i.id} :
                                       i \in Items(plan[k])}} : k \in Kind}

\* An update that renames nodes takes references by name along: as long as
\* the node keeps its id, its names stand for no other node before or after,
\* and no other node takes over the uri its id could have been made of, what a
\* profile led to before it leads to after it (update_plan_fixed.go,
\* mihomo_refs.go). Where two nodes swap names both references end at one.
RefsFollowNodes ==
  [][\A n \in NativeUpdater :
       nat[n].at = "written" /\ nat'[n].at = "replaced" =>
         \A i \in DOMAIN doc.profiles, f \in {"lineRef", "exitRef"} :
           LET ref   == doc.profiles[i][f]
               was   == Resolved(ref, nat[n].base)
               names == {ref.resource, was[2]}
           IN /\ Bearing(names, nat[n].base) \cup Bearing(names, nat[n].plan) = {was}
              /\ was[2] \in {x.id : x \in Items(nat[n].plan[was[1]])}
              /\ was \notin NameTaken(nat[n].plan, nat[n].base)
              => Resolved(doc'.profiles[i][f], nat[n].plan) = was]_<<doc, nat>>
=============================================================================
