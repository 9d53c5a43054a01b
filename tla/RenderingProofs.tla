--------------------------- MODULE RenderingProofs ---------------------------
(* By what users leave, for any nodes' file, settings and session routes:   *)
(* what is rendered is followed from a user's rule through the groups to    *)
(* the proxies at the end. A list is a set of pairs of a place and what is  *)
(* there, so that the first of a name is the one with the least place.      *)
EXTENDS MihomoRendering, WellFoundedInduction, TLAPS

-----------------------------------------------------------------------------
(* Configurations: what a name leads to.                                    *)

LEMMA FirstOne ==
  ASSUME NEW list, NEW e \in list, e[1] \in Nat,
         \A d \in list : d[2].name = e[2].name => d = e
  PROVE  {g \in FirstOfName(list) : g.name = e[2].name} = {e[2]}
<1>. DEFINE firsts == {d \in list : \A o \in list : o[2].name = d[2].name => d[1] <= o[1]}
<1>1. e \in firsts
  OBVIOUS
<1>2. \A g \in FirstOfName(list) : g.name = e[2].name => g = e[2]
  BY DEF FirstOfName
<1>3. e[2] \in FirstOfName(list)
  BY <1>1 DEF FirstOfName
<1>. QED
  BY <1>2, <1>3

LEMMA FirstIsListed ==
  ASSUME NEW list, NEW g \in FirstOfName(list)
  PROVE  \E e \in list : e[2] = g /\ \A o \in list : o[2].name = g.name => e[1] <= o[1]
BY DEF FirstOfName

LEMMA StepGroup ==
  ASSUME NEW c, NEW g, NEW n, {h \in c.groups : h.name = n} = {g}
  PROVE  StepFrom(c, n) = g.members \cup {NodeOf(t) : t \in g.use}
BY DEF StepFrom

LEMMA StepEnd ==
  ASSUME NEW c, NEW n, n \notin GroupNames(c) PROVE StepFrom(c, n) = {n}
BY DEF StepFrom, GroupNames

LEMMA StepsEnd ==
  ASSUME NEW c, NEW N, N \cap GroupNames(c) = {} PROVE Step(c, N) = N
<1>1. \A n \in N : StepFrom(c, n) = {n}
  BY StepEnd
<1>. QED
  BY <1>1 DEF Step

LEMMA StepOne == ASSUME NEW c, NEW n PROVE Step(c, {n}) = StepFrom(c, n)
BY DEF Step

\* A name that leads to the end in one step, or in two.
LEMMA LeavesInOne ==
  ASSUME NEW c, NEW n, StepFrom(c, n) \cap GroupNames(c) = {}
  PROVE  Leaves(c, n) = UNION {LeafOf(c, x) : x \in StepFrom(c, n)}
<1>1. Step(c, {n}) = StepFrom(c, n)
  BY StepOne
<1>2. Step(c, StepFrom(c, n)) = StepFrom(c, n)
  BY StepsEnd
<1>. QED
  BY <1>1, <1>2 DEF Leaves

LEMMA LeavesInTwo ==
  ASSUME NEW c, NEW n, NEW m, StepFrom(c, n) = {m}, StepFrom(c, m) \cap GroupNames(c) = {}
  PROVE  Leaves(c, n) = UNION {LeafOf(c, x) : x \in StepFrom(c, m)}
<1>1. Step(c, {n}) = {m} /\ Step(c, {m}) = StepFrom(c, m)
  BY StepOne
<1>2. Step(c, StepFrom(c, m)) = StepFrom(c, m)
  BY StepsEnd
<1>. QED
  BY <1>1, <1>2 DEF Leaves

LEMMA LeafFields == ASSUME NEW via, NEW dialer
                    PROVE  Leaf(via, dialer).via = via /\ Leaf(via, dialer).dialer = dialer
BY DEF Leaf

LEMMA OneLeaf == ASSUME NEW S, NEW via, NEW dialer, S = {Leaf(via, dialer)}
                 PROVE  \A leaf \in S : leaf.via = via /\ leaf.dialer = dialer
BY LeafFields

LEMMA LeafOfProxy ==
  ASSUME NEW c, Accepts(c), NEW e \in c.proxies
  PROVE  /\ LeafOf(c, e[2].name) = {Leaf(e[2].via, e[2].dialer)}
         /\ e[2].name \notin GroupNames(c) /\ e[2].name \notin BuiltIn
<1>1. {d[2] : d \in {f \in c.proxies : f[2].name = e[2].name}} = {e[2]}
  BY DEF Accepts
<1>2. e[2].name \in NamesIn(c.proxies)
  BY DEF NamesIn
<1>. QED
  BY <1>1, <1>2 DEF LeafOf, Accepts

LEMMA LeafOfOther ==
  ASSUME NEW c, NEW x, x \notin NamesIn(c.proxies)
  PROVE  LeafOf(c, x) = {Leaf(x, "")}
BY DEF LeafOf, NamesIn

LEMMA BuiltInEnds ==
  ASSUME NEW c, Accepts(c), NEW x \in BuiltIn
  PROVE  LeafOf(c, x) = {Leaf(x, "")} /\ x \notin GroupNames(c)
BY LeafOfOther DEF Accepts

-----------------------------------------------------------------------------
(* What is rendered is what the driver holds.                               *)

Settings == SettingsFiles \cup {NoSettings}

RoutesOK(ss) ==
  \A id \in DOMAIN ss : \E s \in SessionRoutes : s.id = id /\ \E d : ss[id] = Routed(s, d)

\* An attempt has the line that its settings and its nodes give.
AttemptsOK == \A w \in waiting : w.dialer \in DialersIn(w.by, w.profile, w.from)

RenderInv ==
  /\ AttemptsOK
  /\ saved \in NodeFiles /\ nodes \in NodeFiles /\ shown \in NodeFiles /\ stored \in SettingsFiles /\ base \in Settings
  /\ RoutesOK(sessions)
  /\ config = Rendered(shown, base, sessions)
  /\ Accepts(config) \/ (base = NoSettings /\ sessions = <<>>)

LEMMA SettingsShape ==
  ASSUME NEW b \in Settings
  PROVE  /\ IsList(b.profiles) /\ IsList(b.users) /\ IsList(b.pool)
         /\ \A i \in DOMAIN b.profiles :
              /\ b.profiles[i].line \in {"direct", "node"}
              /\ b.profiles[i].exit \in {"direct", "static", "dynamic"}
              /\ LineGroupName(b.profiles[i].id) # ""
         /\ \A i, j \in DOMAIN b.users : b.users[i].name = b.users[j].name => i = j
         /\ \A i \in DOMAIN b.pool : Safe[b.pool[i].id] # ""
<1>1. CASE b \in SettingsFiles
  BY <1>1, RenderingAssumption DEF RenderingAssumption
<1>2. CASE b = NoSettings
  BY <1>2 DEF NoSettings, IsList
<1>. QED
  BY <1>1, <1>2 DEF Settings

LEMMA RouteShape ==
  ASSUME NEW s \in SessionRoutes
  PROVE  /\ \E k \in DOMAIN SessionOrder : SessionOrder[k] = s.id
         /\ IsList(s.nodes) /\ \A k \in DOMAIN s.nodes : SessionProxyName(s, k) # ""
BY RenderingAssumption DEF RenderingAssumption

LEMMA RoutedShape ==
  ASSUME NEW ss, RoutesOK(ss), NEW id \in DOMAIN ss
  PROVE  \E s \in SessionRoutes :
           /\ s.id = id /\ ss[id].id = id /\ ss[id].nodes = s.nodes
           /\ \A k : SessionProxyName(ss[id], k) = SessionProxyName(s, k)
<1>1. PICK s \in SessionRoutes : s.id = id /\ \E d : ss[id] = Routed(s, d)
  BY DEF RoutesOK
<1>2. PICK d : ss[id] = Routed(s, d)
  BY <1>1
<1>3. ss[id].id = s.id /\ ss[id].nodes = s.nodes
  BY <1>2 DEF Routed
<1>. QED
  BY <1>1, <1>3 DEF SessionProxyName

LEMMA RenderedParts ==
  ASSUME NEW ns, NEW b, NEW ss
  PROVE  /\ Rendered(ns, b, ss).groups = FirstOfName(GroupList(ns, b, ss))
         /\ Rendered(ns, b, ss).proxies =
              BaseProxies(ns, b.pool, ss) \cup ClonesOf(ns, b, BaseNames(ns, b, ss))
         /\ Rendered(ns, b, ss).rules = FirstOfName(RuleList(b.users, ss, b.profiles))
         /\ Rendered(ns, b, ss).providers = Providers(ns)
BY DEF Rendered, UserRules

LEMMA RenderStart == RenderInit => RenderInv
BY DEF RenderInit, RenderInv, AttemptsOK, Settings, RoutesOK

LEMMA ReconcileKeeps ==
  ASSUME RenderInv, NEW b \in Settings, NEW ss, RoutesOK(ss), Reconcile(b, ss),
         UNCHANGED <<saved, nodes, stored>>, AttemptsOK'
  PROVE  RenderInv'
<1>1. CASE Renderable(b, ss) /\ Accepts(Rendered(nodes, b, ss))
  <2>1. base' = b /\ sessions' = ss /\ config' = Rendered(nodes, b, ss) /\ shown' = nodes
    BY <1>1 DEF Reconcile
  <2>2. Accepts(config') /\ config' = Rendered(shown', base', sessions') /\ RoutesOK(sessions')
    BY <1>1, <2>1
  <2>3. /\ saved' \in NodeFiles /\ nodes' \in NodeFiles /\ shown' \in NodeFiles
        /\ stored' \in SettingsFiles /\ base' \in Settings
    BY <2>1 DEF RenderInv
  <2>. QED
    BY <2>2, <2>3 DEF RenderInv
<1>2. CASE ~(Renderable(b, ss) /\ Accepts(Rendered(nodes, b, ss)))
  <2>1. UNCHANGED <<base, sessions, config, shown>>
    BY <1>2 DEF Reconcile
  <2>. QED
    BY <2>1 DEF RenderInv
<1>. QED
  BY <1>1, <1>2

LEMMA AttemptsKept == ASSUME RenderInv, [RenderNext]_renderVars PROVE AttemptsOK'
<1>. AttemptsOK
  BY DEF RenderInv
<1>1. CASE waiting' \subseteq waiting
  BY <1>1 DEF AttemptsOK
<1>2. ASSUME NEW a \in asked, ResolveLine(a) PROVE AttemptsOK'
  <2>1. PICK dialer \in DialersIn(a.by, a.profile, saved) :
          waiting' = waiting \cup {[profile |-> a.profile, by |-> a.by, from |-> saved, dialer |-> dialer]}
    BY <1>2 DEF ResolveLine
  <2>. QED
    BY <2>1 DEF AttemptsOK
<1>. QED
  BY <1>1, <1>2 DEF RenderNext, SaveNodes, WriteNodes, StoreSettings, ApplySettings, LoadForLease,
     UpsertRoute, AttemptFails, DeleteRoute, renderVars, attempts

\* What a step makes of the session routes.
LEMMA RouteSteps ==
  ASSUME RenderInv, [RenderNext]_renderVars
  PROVE  \/ UNCHANGED <<base, sessions, config, shown>>
         \/ /\ UNCHANGED <<saved, nodes, stored>>
            /\ \E b \in Settings : \E ss : RoutesOK(ss) /\ Reconcile(b, ss) /\ (ss # sessions => b = base)
<1>1. CASE SaveNodes \/ WriteNodes \/ StoreSettings \/ AttemptFails \/ UNCHANGED renderVars
  BY <1>1 DEF SaveNodes, WriteNodes, StoreSettings, AttemptFails, renderVars
<1>2. CASE \/ \E s \in SessionRoutes : LoadForLease(s.profile)
           \/ \E a \in asked : ResolveLine(a)
  BY <1>2 DEF LoadForLease, ResolveLine
<1>3. CASE ApplySettings
  BY <1>3 DEF ApplySettings, RenderInv, Settings
<1>4. ASSUME NEW w \in waiting, NEW s \in SessionRoutes, UpsertRoute(w, s)
      PROVE  \E ss : RoutesOK(ss) /\ Reconcile(base, ss)
  <2>1. RoutesOK([id \in DOMAIN sessions \cup {s.id} |->
                    IF id = s.id THEN Routed(s, w.dialer) ELSE sessions[id]])
    BY DEF RenderInv, RoutesOK
  <2>. QED
    BY <1>4, <2>1 DEF UpsertRoute
<1>5. ASSUME NEW id, DeleteRoute(id)
      PROVE  \E ss : RoutesOK(ss) /\ Reconcile(base, ss)
  <2>1. RoutesOK([x \in DOMAIN sessions \ {id} |-> sessions[x]])
    BY DEF RenderInv, RoutesOK
  <2>. QED
    BY <1>5, <2>1 DEF DeleteRoute
<1>6. base \in Settings
  BY DEF RenderInv
<1>7. CASE \E w \in waiting, s \in SessionRoutes : UpsertRoute(w, s)
  BY <1>4, <1>6, <1>7 DEF UpsertRoute
<1>8. CASE \E k \in DOMAIN SessionOrder : DeleteRoute(SessionOrder[k])
  BY <1>5, <1>6, <1>8 DEF DeleteRoute
<1>. QED
  BY <1>1, <1>2, <1>3, <1>7, <1>8 DEF RenderNext

LEMMA RenderStep == ASSUME RenderInv, [RenderNext]_renderVars PROVE RenderInv'
<1>1. CASE UNCHANGED <<base, sessions, config, shown>>
  <2>1. saved' \in NodeFiles /\ nodes' \in NodeFiles /\ stored' \in SettingsFiles
    BY DEF RenderInv, RenderNext, SaveNodes, WriteNodes, StoreSettings, ApplySettings, LoadForLease,
       ResolveLine, UpsertRoute, AttemptFails, DeleteRoute, renderVars
  <2>. QED
    BY <1>1, <2>1, AttemptsKept DEF RenderInv
<1>2. CASE /\ UNCHANGED <<saved, nodes, stored>>
           /\ \E b \in Settings : \E ss : RoutesOK(ss) /\ Reconcile(b, ss) /\ (ss # sessions => b = base)
  BY <1>2, AttemptsKept, ReconcileKeeps
<1>. QED
  BY <1>1, <1>2, RouteSteps

LEMMA RenderHolds == RenderSpec => []RenderInv
BY RenderStart, RenderStep, PTL DEF RenderSpec

-----------------------------------------------------------------------------
(* The line and the exit of a profile.                                      *)

\* What the lemmas of this section are about: the i-th profile of what Mihomo
\* runs, when the names it goes by are its own.
OfProfile(i) == RenderInv /\ i \in DOMAIN base.profiles /\ OwnNames(i)

LineOf(i) == LineTarget(base.profiles[i], shown, BaseNames(shown, base, sessions))
GroupOf(i) == ExitGroup(ProfileGroupName(base.profiles, i), base.profiles[i], shown,
                        BaseNames(shown, base, sessions), base.pool)

LEMMA ProfileFacts ==
  ASSUME NEW i, OfProfile(i)
  PROVE  /\ Accepts(config) /\ config = Rendered(shown, base, sessions)
         /\ base \in Settings /\ i \in Nat \ {0} /\ shown \in NodeFiles
         /\ base.profiles[i].line \in {"direct", "node"}
         /\ base.profiles[i].exit \in {"direct", "static", "dynamic"}
         /\ LineGroupName(base.profiles[i].id) # ""
<1>1. RenderInv /\ i \in DOMAIN base.profiles
  BY DEF OfProfile
<1>2. base \in Settings /\ IsList(base.profiles)
  BY <1>1, SettingsShape DEF RenderInv
<1>3. base # NoSettings
  BY <1>1 DEF NoSettings
<1>4. i \in Nat \ {0}
  BY <1>1, <1>2 DEF IsList
<1>5. /\ base.profiles[i].line \in {"direct", "node"}
      /\ base.profiles[i].exit \in {"direct", "static", "dynamic"}
      /\ LineGroupName(base.profiles[i].id) # ""
  BY <1>1, <1>2, SettingsShape
<1>. QED
  BY <1>1, <1>2, <1>3, <1>4, <1>5 DEF RenderInv

LEMMA BaseAreProxies == ASSUME RenderInv PROVE BaseProxies(shown, base.pool, sessions) \subseteq config.proxies
BY RenderedParts DEF RenderInv

LEMMA ClonesAreProxies ==
  ASSUME RenderInv PROVE ClonesOf(shown, base, BaseNames(shown, base, sessions)) \subseteq config.proxies
BY RenderedParts DEF RenderInv

LEMMA BaseNameProxy ==
  ASSUME RenderInv, NEW x \in BaseNames(shown, base, sessions)
  PROVE  \E e \in config.proxies : e[2].name = x
BY BaseAreProxies DEF BaseNames, NamesIn

\* No proxy is without a name.
LEMMA ProxiesNamed ==
  ASSUME RenderInv PROVE "" \notin BaseNames(shown, base, sessions)
<1>1. \A i \in DOMAIN shown.fixed : shown.fixed[i].name # ""
  BY RenderingAssumption DEF RenderInv, RenderingAssumption
<1>2. \A i \in DOMAIN base.pool : Safe[base.pool[i].id] # ""
  BY SettingsShape DEF RenderInv
<1>3. ASSUME NEW id \in DOMAIN sessions, NEW k \in DOMAIN sessions[id].nodes
      PROVE  SessionProxyName(sessions[id], k) # ""
  <2>1. RoutesOK(sessions)
    BY DEF RenderInv
  <2>. QED
    <3>1. PICK s \in SessionRoutes :
            /\ sessions[id].nodes = s.nodes
            /\ SessionProxyName(sessions[id], k) = SessionProxyName(s, k)
      BY <2>1, RoutedShape
    <3>2. SessionProxyName(s, k) # ""
      BY <3>1, RouteShape
    <3>. QED
      BY <3>1, <3>2
<1>4. ASSUME NEW e \in BaseProxies(shown, base.pool, sessions) PROVE e[2].name # ""
  <2>1. CASE e \in {<<<<"fixed", i>>, Proxy(shown.fixed[i].name, shown.fixed[i].name, "")>> :
                      i \in DOMAIN shown.fixed}
    <3>1. PICK i \in DOMAIN shown.fixed :
            e = <<<<"fixed", i>>, Proxy(shown.fixed[i].name, shown.fixed[i].name, "")>>
      BY <2>1
    <3>. QED
      BY <1>1, <3>1 DEF Proxy
  <2>2. CASE e \in {<<<<"pool", i>>, Proxy(Safe[base.pool[i].id], base.pool[i].id, "")>> :
                      i \in DOMAIN base.pool}
    <3>1. PICK i \in DOMAIN base.pool :
            e = <<<<"pool", i>>, Proxy(Safe[base.pool[i].id], base.pool[i].id, "")>>
      BY <2>2
    <3>. QED
      BY <1>2, <3>1 DEF Proxy
  <2>3. CASE \E id \in DOMAIN sessions : e \in SessionProxies(sessions[id])
    <3>1. PICK id \in DOMAIN sessions : e \in SessionProxies(sessions[id])
      BY <2>3
    <3>2. PICK k \in DOMAIN sessions[id].nodes :
            e[2] = Proxy(SessionProxyName(sessions[id], k), sessions[id].nodes[k], sessions[id].dialer)
      BY <3>1 DEF SessionProxies
    <3>3. e[2].name = SessionProxyName(sessions[id], k)
      BY <3>2 DEF Proxy
    <3>. QED
      BY <1>3, <3>3
  <2>. QED
    BY <2>1, <2>2, <2>3 DEF BaseProxies
<1>. QED
  BY <1>4 DEF BaseNames, NamesIn

\* The groups of a profile are there, and no other is taken for them.
LEMMA ExitListed ==
  ASSUME NEW i, OfProfile(i)
  PROVE  /\ GroupOf(i).name = ProfileGroupName(base.profiles, i)
         /\ {g \in config.groups : g.name = ProfileGroupName(base.profiles, i)} = {GroupOf(i)}
<1>. DEFINE list == GroupList(shown, base, sessions)
            e == <<2 * i, GroupOf(i)>>
<1>1. GroupOf(i).name = ProfileGroupName(base.profiles, i)
  BY ProfileFacts DEF GroupOf, ExitGroup, StaticExit, DynamicExit, Group, Filtered
<1>2. e \in list
  BY DEF OfProfile, GroupList, ProfileGroups, GroupOf
<1>3. \A d \in list : d[2].name = e[2].name => d = e
  BY <1>1, <1>2 DEF OfProfile, OwnNames
<1>4. e[1] \in Nat
  <2>1. i \in Nat \ {0}
    BY ProfileFacts
  <2>. QED
    BY <2>1
<1>5. config.groups = FirstOfName(list)
  <2>1. config = Rendered(shown, base, sessions)
    BY ProfileFacts
  <2>. QED
    BY <2>1, RenderedParts
<1>. HIDE DEF list
<1>6. {g \in FirstOfName(list) : g.name = e[2].name} = {e[2]}
  BY <1>2, <1>3, <1>4, FirstOne
<1>. QED
  BY <1>1, <1>5, <1>6

LEMMA LineListed ==
  ASSUME NEW i, OfProfile(i), LineOf(i) = LineGroupName(base.profiles[i].id)
  PROVE  {g \in config.groups : g.name = LineOf(i)} =
           {Filtered(LineOf(i), ResolveTarget(base.profiles[i].lineRef, shown))}
<1>. DEFINE list == GroupList(shown, base, sessions)
            e == <<2 * i - 1, Filtered(LineOf(i), ResolveTarget(base.profiles[i].lineRef, shown))>>
<1>1. e[2].name = LineOf(i)
  BY DEF Filtered
<1>2. e \in list
  BY DEF OfProfile, GroupList, ProfileGroups, LineOf, HasLineGroup
<1>3. \A d \in list : d[2].name = e[2].name => d = e
  BY <1>1, <1>2 DEF OfProfile, OwnNames
<1>4. e[1] \in Nat
  <2>1. i \in Nat \ {0}
    BY ProfileFacts
  <2>. QED
    BY <2>1
<1>5. config.groups = FirstOfName(list)
  <2>1. config = Rendered(shown, base, sessions)
    BY ProfileFacts
  <2>. QED
    BY <2>1, RenderedParts
<1>. HIDE DEF list
<1>6. {g \in FirstOfName(list) : g.name = e[2].name} = {e[2]}
  BY <1>2, <1>3, <1>4, FirstOne
<1>. QED
  BY <1>1, <1>5, <1>6

\* A node or a proxy of its name ends a way, by that node.
LEMMA NodeEnds ==
  ASSUME NEW i, OfProfile(i), NEW ref \in {base.profiles[i].lineRef, base.profiles[i].exitRef},
         NEW x, x \in {NodeOf(ResolveTarget(ref, shown))} \/
                (x = ResolveTarget(ref, shown).node /\ x \in BaseNames(shown, base, sessions))
  PROVE  x \notin GroupNames(config) /\ \A leaf \in LeafOf(config, x) : leaf.via \in Named(ref)
<1>. DEFINE t == ResolveTarget(ref, shown)
<1>1. /\ NodeOf(t) \notin Known(config)
      /\ \A e \in config.proxies : e[2].name = t.node => e[2].via = t.node
  BY DEF OfProfile, OwnNames
<1>2. Accepts(config) /\ RenderInv
  BY ProfileFacts DEF OfProfile
<1>3. CASE x = NodeOf(t)
  <2>1. x \notin NamesIn(config.proxies) /\ x \notin GroupNames(config)
    BY <1>1, <1>3 DEF Known
  <2>2. LeafOf(config, x) = {Leaf(x, "")}
    BY <2>1, LeafOfOther
  <2>3. x \in Named(ref)
    BY <1>3 DEF Named
  <2>4. \A leaf \in LeafOf(config, x) : leaf.via = x
    <3>. DEFINE none == ""
    <3>1. LeafOf(config, x) = {Leaf(x, none)}
      BY <2>2
    <3>. HIDE DEF none
    <3>. QED
      BY <3>1, OneLeaf
  <2>. QED
    BY <2>1, <2>3, <2>4
<1>4. CASE x = t.node /\ x \in BaseNames(shown, base, sessions)
  <2>1. PICK e \in config.proxies : e[2].name = x
    BY <1>2, <1>4, BaseNameProxy
  <2>2. /\ LeafOf(config, x) = {Leaf(e[2].via, e[2].dialer)}
        /\ x \notin GroupNames(config)
    BY <1>2, <2>1, LeafOfProxy
  <2>3. e[2].via \in Named(ref)
    BY <1>1, <1>4, <2>1 DEF Named
  <2>. QED
    BY <2>2, <2>3, LeafFields
<1>. QED
  BY <1>3, <1>4

LEMMA RejectEnds ==
  ASSUME Accepts(config), NEW x \in BuiltIn
  PROVE  x \notin GroupNames(config) /\ \A leaf \in LeafOf(config, x) : leaf.via = x
<1>. DEFINE none == ""
<1>1. LeafOf(config, x) = {Leaf(x, none)} /\ x \notin GroupNames(config)
  BY BuiltInEnds
<1>. HIDE DEF none
<1>. QED
  BY <1>1, OneLeaf

\* What the line of a profile leads to.
LineEnds(i) ==
  LET N == StepFrom(config, LineOf(i)) IN
  /\ N \cap GroupNames(config) = {}
  /\ \A x \in N : \A leaf \in LeafOf(config, x) :
       leaf.via \in Named(base.profiles[i].lineRef) \cup {"REJECT"}

LEMMA LineIsDirect ==
  ASSUME NEW i, OfProfile(i) PROVE (LineOf(i) = "") <=> (base.profiles[i].line = "direct")
<1>1. "" \notin BaseNames(shown, base, sessions)
  BY ProxiesNamed DEF OfProfile
<1>2. LineGroupName(base.profiles[i].id) # ""
  BY ProfileFacts
<1>. QED
  BY <1>1, <1>2 DEF LineOf, LineTarget

LEMMA LineLeads ==
  ASSUME NEW i, OfProfile(i), base.profiles[i].line # "direct" PROVE LineEnds(i)
<1>. DEFINE ref == base.profiles[i].lineRef
            t == ResolveTarget(ref, shown)
            line == LineOf(i)
<1>1. Accepts(config)
  BY ProfileFacts
<1>2. CASE line = t.node /\ line \in BaseNames(shown, base, sessions)
  <2>1. line \notin GroupNames(config) /\ \A leaf \in LeafOf(config, line) : leaf.via \in Named(ref)
    BY <1>2, NodeEnds
  <2>2. StepFrom(config, line) = {line}
    BY <2>1, StepEnd
  <2>. QED
    BY <2>1, <2>2 DEF LineEnds
<1>3. CASE line = LineGroupName(base.profiles[i].id)
  <2>1. StepFrom(config, line) = Filtered(line, t).members \cup {NodeOf(u) : u \in Filtered(line, t).use}
    BY <1>3, LineListed, StepGroup
  <2>2. StepFrom(config, line) = {NodeOf(t)}
    BY <2>1 DEF Filtered
  <2>3. NodeOf(t) \notin GroupNames(config) /\ \A leaf \in LeafOf(config, NodeOf(t)) : leaf.via \in Named(ref)
    BY NodeEnds
  <2>. QED
    BY <2>2, <2>3 DEF LineEnds
<1>4. CASE line = "REJECT"
  <2>1. "REJECT" \notin GroupNames(config) /\ \A leaf \in LeafOf(config, "REJECT") : leaf.via = "REJECT"
    BY <1>1, RejectEnds DEF BuiltIn
  <2>2. StepFrom(config, "REJECT") = {"REJECT"}
    BY <2>1, StepEnd
  <2>. QED
    BY <1>4, <2>1, <2>2 DEF LineEnds
<1>. QED
  BY <1>2, <1>3, <1>4 DEF LineOf, LineTarget

LEMMA PoolLeaf ==
  ASSUME NEW i, OfProfile(i), NEW k \in DOMAIN base.pool
  PROVE  /\ Safe[base.pool[k].id] \notin GroupNames(config)
         /\ \A leaf \in LeafOf(config, Safe[base.pool[k].id]) :
              leaf.via = base.pool[k].id /\ leaf.dialer = ""
<1>. DEFINE none == ""
            e == <<<<"pool", k>>, Proxy(Safe[base.pool[k].id], base.pool[k].id, none)>>
<1>1. e \in BaseProxies(shown, base.pool, sessions)
  BY DEF BaseProxies
<1>2. e \in config.proxies /\ Accepts(config)
  BY <1>1, BaseAreProxies, ProfileFacts DEF OfProfile
<1>3. e[2].name = Safe[base.pool[k].id] /\ e[2].via = base.pool[k].id /\ e[2].dialer = none
  BY DEF Proxy
<1>. HIDE DEF e
<1>4. /\ LeafOf(config, e[2].name) = {Leaf(e[2].via, e[2].dialer)}
      /\ e[2].name \notin GroupNames(config)
  BY <1>2, LeafOfProxy
<1>5. \A leaf \in LeafOf(config, e[2].name) : leaf.via = e[2].via /\ leaf.dialer = e[2].dialer
  BY <1>4, OneLeaf
<1>. QED
  BY <1>3, <1>4, <1>5

LEMMA CloneLeaf ==
  ASSUME NEW i, OfProfile(i), NEW k \in OwnNodes(base.profiles[i], base.pool),
         base.profiles[i].exit = "dynamic", LineOf(i) # ""
  PROVE  /\ CloneOf(base.profiles[i], k, base.pool) \notin GroupNames(config)
         /\ \A leaf \in LeafOf(config, CloneOf(base.profiles[i], k, base.pool)) :
              leaf.via = base.pool[k].id /\ leaf.dialer = LineOf(i)
<1>. DEFINE name == CloneOf(base.profiles[i], k, base.pool)
            e == <<<<"clone", i, k>>, Proxy(name, base.pool[k].id, LineOf(i))>>
<1>1. e \in Clones(i, base.profiles[i], LineOf(i), base.pool)
  BY DEF Clones
<1>2. e \in ClonesOf(shown, base, BaseNames(shown, base, sessions))
  BY <1>1 DEF ClonesOf, LineOf, OfProfile
<1>3. e \in config.proxies /\ Accepts(config)
  <2>1. RenderInv /\ Accepts(config)
    BY ProfileFacts DEF OfProfile
  <2>. HIDE DEF e
  <2>. QED
    BY <1>2, <2>1, ClonesAreProxies
<1>4. e[2].name = name /\ e[2].via = base.pool[k].id /\ e[2].dialer = LineOf(i)
  BY DEF Proxy
<1>. HIDE DEF e, name
<1>5. /\ LeafOf(config, e[2].name) = {Leaf(e[2].via, e[2].dialer)}
      /\ e[2].name \notin GroupNames(config)
  BY <1>3, LeafOfProxy
<1>6. \A leaf \in LeafOf(config, e[2].name) : leaf = Leaf(e[2].via, e[2].dialer)
  BY <1>5
<1>7. Leaf(e[2].via, e[2].dialer).via = e[2].via /\ Leaf(e[2].via, e[2].dialer).dialer = e[2].dialer
  BY LeafFields
<1>8. ASSUME NEW leaf \in LeafOf(config, name) PROVE leaf.via = base.pool[k].id /\ leaf.dialer = LineOf(i)
  <2>1. leaf = Leaf(e[2].via, e[2].dialer)
    BY <1>4, <1>6
  <2>. QED
    BY <1>4, <1>7, <2>1
<1>9. name \notin GroupNames(config)
  BY <1>4, <1>5
<1>. QED
  BY <1>8, <1>9 DEF name

\* The group of a profile leads where the profile permits.
LEMMA ExitStep ==
  ASSUME NEW i, OfProfile(i)
  PROVE  StepFrom(config, ProfileGroupName(base.profiles, i)) =
           GroupOf(i).members \cup {NodeOf(t) : t \in GroupOf(i).use}
BY ExitListed, StepGroup

LEMMA DirectLeaves ==
  ASSUME NEW i, OfProfile(i), base.profiles[i].exit = "direct",
         NEW leaf \in Leaves(config, ProfileGroupName(base.profiles, i))
  PROVE  Permitted(base.profiles[i], leaf)
<1>. DEFINE p == base.profiles[i]
            T == ProfileGroupName(base.profiles, i)
<1>1. Accepts(config) /\ p.line \in {"direct", "node"}
  BY ProfileFacts
<1>2. StepFrom(config, T) = {IF LineOf(i) = "" THEN "DIRECT" ELSE LineOf(i)}
  BY ExitStep DEF GroupOf, ExitGroup, LineOf, Group
<1>3. CASE p.line = "direct"
  <2>1. StepFrom(config, T) = {"DIRECT"}
    BY <1>2, <1>3, LineIsDirect
  <2>2. "DIRECT" \notin GroupNames(config) /\ \A l \in LeafOf(config, "DIRECT") : l.via = "DIRECT"
    BY <1>1, RejectEnds DEF BuiltIn
  <2>3. leaf \in LeafOf(config, "DIRECT")
    BY <2>1, <2>2, LeavesInOne
  <2>. QED
    BY <1>3, <2>2, <2>3 DEF Permitted
<1>4. CASE p.line # "direct"
  <2>1. StepFrom(config, T) = {LineOf(i)}
    BY <1>2, <1>4, LineIsDirect
  <2>2. LineEnds(i)
    BY <1>4, LineLeads
  <2>3. PICK x \in StepFrom(config, LineOf(i)) : leaf \in LeafOf(config, x)
    BY <2>1, <2>2, LeavesInTwo DEF LineEnds
  <2>. QED
    BY <1>1, <1>4, <2>2, <2>3 DEF Permitted, LineEnds
<1>. QED
  BY <1>3, <1>4

LEMMA StaticLeaves ==
  ASSUME NEW i, OfProfile(i), base.profiles[i].exit = "static",
         NEW leaf \in Leaves(config, ProfileGroupName(base.profiles, i))
  PROVE  Permitted(base.profiles[i], leaf)
<1>. DEFINE p == base.profiles[i]
            T == ProfileGroupName(base.profiles, i)
            t == ResolveTarget(p.exitRef, shown)
<1>1. Accepts(config)
  BY ProfileFacts
<1>2. GroupOf(i) = StaticExit(T, t, shown, BaseNames(shown, base, sessions))
  BY DEF GroupOf, ExitGroup
<1>3. ASSUME NEW x, StepFrom(config, T) = {x}, x \notin GroupNames(config),
             \A l \in LeafOf(config, x) : l.via \in Named(p.exitRef) \cup {"REJECT"}
      PROVE  Permitted(p, leaf)
  <2>1. leaf \in LeafOf(config, x)
    BY <1>3, LeavesInOne
  <2>. QED
    BY <1>3, <2>1 DEF Permitted
<1>4. CASE t.node \in BaseNames(shown, base, sessions)
  <2>1. StepFrom(config, T) = {t.node}
    BY <1>2, <1>4, ExitStep DEF StaticExit, Group
  <2>2. t.node \notin GroupNames(config) /\ \A l \in LeafOf(config, t.node) : l.via \in Named(p.exitRef)
    BY <1>4, NodeEnds
  <2>. QED
    BY <1>3, <2>1, <2>2
<1>5. CASE GroupOf(i) = Filtered(T, t)
  <2>1. StepFrom(config, T) = {NodeOf(t)}
    BY <1>5, ExitStep DEF Filtered
  <2>2. NodeOf(t) \notin GroupNames(config) /\ \A l \in LeafOf(config, NodeOf(t)) : l.via \in Named(p.exitRef)
    BY NodeEnds
  <2>. QED
    BY <1>3, <2>1, <2>2
<1>6. CASE GroupOf(i) = Group(T, {"REJECT"})
  <2>1. StepFrom(config, T) = {"REJECT"}
    BY <1>6, ExitStep DEF Group
  <2>2. "REJECT" \notin GroupNames(config) /\ \A l \in LeafOf(config, "REJECT") : l.via = "REJECT"
    BY <1>1, RejectEnds DEF BuiltIn
  <2>. QED
    BY <1>3, <2>1, <2>2
<1>. QED
  BY <1>2, <1>4, <1>5, <1>6 DEF StaticExit

\* The members of a dynamic exit.
NoLine(line) == line = ""

LEMMA NodesAreMembers ==
  ASSUME NEW name, NEW p, NEW line, NEW pool, OwnNodes(p, pool) # {}, NoLine(line),
         NEW x \in DynamicExit(name, p, line, pool).members
  PROVE  \E k \in OwnNodes(p, pool) : x = Safe[pool[k].id]
BY DEF DynamicExit, Group, NoLine

LEMMA ClonesAreMembers ==
  ASSUME NEW name, NEW p, NEW line, NEW pool, OwnNodes(p, pool) # {}, ~NoLine(line),
         NEW x \in DynamicExit(name, p, line, pool).members
  PROVE  \E k \in OwnNodes(p, pool) : x = CloneOf(p, k, pool)
BY DEF DynamicExit, Group, NoLine

LEMMA DynamicLeaves ==
  ASSUME NEW i, OfProfile(i), base.profiles[i].exit = "dynamic",
         NEW leaf \in Leaves(config, ProfileGroupName(base.profiles, i))
  PROVE  Permitted(base.profiles[i], leaf)
<1>. DEFINE p == base.profiles[i]
            T == ProfileGroupName(base.profiles, i)
            own == OwnNodes(p, base.pool)
<1>1. Accepts(config)
  BY ProfileFacts
<1>2. StepFrom(config, T) = GroupOf(i).members /\ GroupOf(i) = DynamicExit(T, p, LineOf(i), base.pool)
  BY ExitStep DEF GroupOf, ExitGroup, DynamicExit, LineOf, Group
<1>3. \A k \in own : k \in DOMAIN base.pool /\ base.pool[k].profile = p.id
  BY DEF OwnNodes
<1>4. CASE own = {}
  <2>1. StepFrom(config, T) = {"REJECT"}
    BY <1>2, <1>4 DEF DynamicExit, Group
  <2>2. "REJECT" \notin GroupNames(config) /\ \A l \in LeafOf(config, "REJECT") : l.via = "REJECT"
    BY <1>1, RejectEnds DEF BuiltIn
  <2>3. leaf \in LeafOf(config, "REJECT")
    BY <2>1, <2>2, LeavesInOne
  <2>. QED
    BY <2>2, <2>3 DEF Permitted
<1>5. CASE own # {} /\ LineOf(i) = ""
  <2>1. ASSUME NEW x \in StepFrom(config, T) PROVE \E k \in own : x = Safe[base.pool[k].id]
    <3>. HIDE DEF p, T
    <3>1. x \in DynamicExit(T, p, LineOf(i), base.pool).members
      BY <1>2
    <3>2. NoLine(LineOf(i)) /\ OwnNodes(p, base.pool) # {}
      BY <1>5 DEF NoLine
    <3>. QED
      BY <3>1, <3>2, NodesAreMembers
  <2>2. \A x \in StepFrom(config, T) : x \notin GroupNames(config)
    BY <1>3, <2>1, PoolLeaf
  <2>3. PICK k \in own : leaf \in LeafOf(config, Safe[base.pool[k].id])
    BY <2>1, <2>2, LeavesInOne
  <2>4. leaf.via = base.pool[k].id /\ leaf.dialer = ""
    BY <1>3, <2>3, PoolLeaf
  <2>5. p.line = "direct"
    BY <1>5, LineIsDirect
  <2>. QED
    BY <1>3, <2>4, <2>5 DEF Permitted
<1>6. CASE own # {} /\ LineOf(i) # ""
  <2>1. ASSUME NEW x \in StepFrom(config, T) PROVE \E k \in own : x = CloneOf(p, k, base.pool)
    <3>. HIDE DEF p, T
    <3>1. x \in DynamicExit(T, p, LineOf(i), base.pool).members
      BY <1>2
    <3>2. ~NoLine(LineOf(i)) /\ OwnNodes(p, base.pool) # {}
      BY <1>6 DEF NoLine
    <3>. QED
      BY <3>1, <3>2, ClonesAreMembers
  <2>2. \A x \in StepFrom(config, T) : x \notin GroupNames(config)
    BY <1>6, <2>1, CloneLeaf
  <2>3. PICK k \in own : leaf \in LeafOf(config, CloneOf(p, k, base.pool))
    BY <2>1, <2>2, LeavesInOne
  <2>4. leaf.via = base.pool[k].id /\ leaf.dialer = LineOf(i)
    BY <1>6, <2>3, CloneLeaf
  <2>5. p.line # "direct"
    BY <1>6, LineIsDirect
  <2>6. LineEnds(i)
    BY <2>5, LineLeads
  <2>7. \A hop \in Leaves(config, LineOf(i)) : hop.via \in Named(p.lineRef) \cup {"REJECT"}
    BY <2>6, LeavesInOne DEF LineEnds
  <2>. QED
    BY <1>3, <2>4, <2>5, <2>7 DEF Permitted
<1>. QED
  BY <1>4, <1>5, <1>6

\* The rule of a user whose name no session bears.
LEMMA UserRuleListed ==
  ASSUME RenderInv, NEW k \in DOMAIN base.users,
         \A id \in DOMAIN sessions : sessions[id].user # base.users[k].name
  PROVE  {r \in config.rules : r.name = base.users[k].name} =
           {[name |-> base.users[k].name, target |-> UserTarget(base.users[k], base.profiles)]}
<1>. DEFINE rule == [name |-> base.users[k].name, target |-> UserTarget(base.users[k], base.profiles)]
            e == <<Len(SessionOrder) + k, rule>>
            list == RuleList(base.users, sessions, base.profiles)
<1>1. IsList(base.users) /\ \A i, j \in DOMAIN base.users : base.users[i].name = base.users[j].name => i = j
  BY SettingsShape DEF RenderInv
<1>2. Len(SessionOrder) \in Nat
  BY RenderingAssumption DEF RenderingAssumption, IsList
<1>3. e[1] \in Nat
  BY <1>1, <1>2 DEF IsList
<1>4. e \in list
  BY DEF RuleList
<1>5. ASSUME NEW d \in list, d[2].name = e[2].name PROVE d = e
  <2>1. CASE d \in {<<Place(id), [name |-> sessions[id].user, target |-> SessionGroupName(sessions[id])]>> :
                       id \in DOMAIN sessions}
    BY <1>5, <2>1
  <2>2. CASE d \in {<<Len(SessionOrder) + j, [name |-> base.users[j].name,
                       target |-> UserTarget(base.users[j], base.profiles)]>> : j \in DOMAIN base.users}
    <3>1. PICK j \in DOMAIN base.users :
            d = <<Len(SessionOrder) + j, [name |-> base.users[j].name,
                       target |-> UserTarget(base.users[j], base.profiles)]>>
      BY <2>2
    <3>2. j = k
      BY <1>1, <1>5, <3>1
    <3>. QED
      BY <3>1, <3>2
  <2>. QED
    BY <1>5, <2>1, <2>2 DEF RuleList
<1>6. config.rules = FirstOfName(list)
  <2>1. config = Rendered(shown, base, sessions)
    BY DEF RenderInv
  <2>. QED
    BY <2>1, RenderedParts
<1>7. e[2] = rule /\ e[2].name = base.users[k].name
  OBVIOUS
<1>. HIDE DEF list, e, rule
<1>8. {r \in FirstOfName(list) : r.name = e[2].name} = {e[2]}
  BY <1>3, <1>4, <1>5, FirstOne
<1>. QED
  BY <1>6, <1>7, <1>8 DEF rule

LEMMA OwnTarget ==
  ASSUME NEW i, OfProfile(i), NEW u, u.route = "profile", base.profiles[i].id = u.profile
  PROVE  UserTarget(u, base.profiles) = ProfileGroupName(base.profiles, i)
<1>. DEFINE of == {j \in DOMAIN base.profiles : base.profiles[j].id = u.profile}
<1>1. of = {i}
  BY DEF OfProfile, OwnNames
<1>2. i \in Nat
  BY ProfileFacts
<1>3. FirstOf({i}) = i
  BY <1>2 DEF FirstOf
<1>. QED
  BY <1>1, <1>3 DEF UserTarget

\* Whatever a user of a profile sends leaves by the exit and the line of that
\* profile or is refused: what is rendered is followed from the user's rule to
\* the last proxy (render_egress_profiles.go, render_egress_rules.go).
THEOREM OwnProfileOnly == RenderSpec => []LeavesByOwnProfile
<1>1. ASSUME RenderInv PROVE LeavesByOwnProfile
  <2>. SUFFICES ASSUME NEW k \in DOMAIN base.users, NEW i \in DOMAIN base.profiles,
                       base.users[k].route = "profile", base.profiles[i].id = base.users[k].profile,
                       \A id \in DOMAIN sessions : sessions[id].user # base.users[k].name,
                       OwnNames(i),
                       NEW leaf \in ExitsOf(config, base.users[k].name)
                PROVE  Permitted(base.profiles[i], leaf)
    BY DEF LeavesByOwnProfile
  <2>1. OfProfile(i)
    BY <1>1 DEF OfProfile
  <2>2. UserTarget(base.users[k], base.profiles) = ProfileGroupName(base.profiles, i)
    BY <2>1, OwnTarget
  <2>3. \A r \in {q \in config.rules : q.name = base.users[k].name} :
          r.target = ProfileGroupName(base.profiles, i)
    <3>. HIDE DEF OwnNames
    <3>1. {q \in config.rules : q.name = base.users[k].name} =
            {[name |-> base.users[k].name, target |-> UserTarget(base.users[k], base.profiles)]}
      BY <1>1, UserRuleListed
    <3>. QED
      BY <2>2, <3>1
  <2>4. leaf \in Leaves(config, ProfileGroupName(base.profiles, i))
    BY <2>3 DEF ExitsOf
  <2>5. base.profiles[i].exit \in {"direct", "static", "dynamic"}
    BY <2>1, ProfileFacts
  <2>. QED
    BY <2>1, <2>4, <2>5, DirectLeaves, StaticLeaves, DynamicLeaves
<1>. QED
  BY <1>1, RenderHolds, PTL

-----------------------------------------------------------------------------
(* The line of a lease.                                                     *)

\* Of naturals there is a least.
LEMMA LeastPlace == ASSUME NEW T \in SUBSET Nat, T # {} PROVE \E x \in T : \A y \in T : x <= y
<1>1. PICK x \in T : \A y \in T : <<y, x>> \notin OpToRel(<, Nat)
  BY NatLessThanWellFounded, WFMin
<1>2. \A y \in T : ~ (y < x)
  BY <1>1 DEF OpToRel
<1>. QED
  BY <1>2

LEMMA FirstOfIn == ASSUME NEW T \in SUBSET Nat, T # {} PROVE FirstOf(T) \in T
BY LeastPlace DEF FirstOf

\* Of what is listed under a name, one is kept.
LEMMA NameListed ==
  ASSUME NEW list, \A e \in list : e[1] \in Nat, NEW e \in list
  PROVE  \E g \in FirstOfName(list) : g.name = e[2].name
<1>. DEFINE same == {d \in list : d[2].name = e[2].name}
            T == {d[1] : d \in same}
<1>1. T \in SUBSET Nat /\ T # {}
  OBVIOUS
<1>2. PICK n \in T : \A m \in T : n <= m
  BY <1>1, LeastPlace
<1>3. PICK d \in same : d[1] = n
  BY <1>2
<1>4. \A o \in list : o[2].name = d[2].name => d[1] <= o[1]
  BY <1>2, <1>3
<1>. QED
  BY <1>3, <1>4 DEF FirstOfName

LEMMA PlaceIs ==
  ASSUME NEW id, \E s \in SessionRoutes : s.id = id
  PROVE  Place(id) \in DOMAIN SessionOrder /\ SessionOrder[Place(id)] = id /\ Place(id) \in Nat
<1>1. \E k \in DOMAIN SessionOrder : SessionOrder[k] = id
  BY RouteShape
<1>2. Place(id) \in DOMAIN SessionOrder /\ SessionOrder[Place(id)] = id
  BY <1>1 DEF Place
<1>3. IsList(SessionOrder)
  BY RenderingAssumption DEF RenderingAssumption
<1>4. DOMAIN SessionOrder \subseteq Nat
  BY <1>3 DEF IsList
<1>. QED
  BY <1>2, <1>4

LEMMA PlacesOfGroups ==
  ASSUME NEW ns, NEW b \in Settings, NEW ss, RoutesOK(ss)
  PROVE  \A e \in GroupList(ns, b, ss) : e[1] \in Nat
<1>1. IsList(b.profiles)
  BY SettingsShape
<1>2. \A id \in DOMAIN ss : Place(id) \in Nat
  BY PlaceIs DEF RoutesOK
<1>3. Len(b.profiles) \in Nat /\ \A i \in DOMAIN b.profiles : i \in Nat \ {0}
  BY <1>1 DEF IsList
<1>4. ASSUME NEW e \in SessionGroups(b, ss) PROVE e[1] \in Nat
  <2>1. PICK id \in DOMAIN ss : e = <<2 * Len(b.profiles) + Place(id), SessionGroup(ss[id])>>
    BY DEF SessionGroups
  <2>. QED
    BY <1>2, <1>3, <2>1
<1>5. ASSUME NEW available, NEW e \in ProfileGroups(ns, b, available) PROVE e[1] \in Nat
  <2>1. e[1] = 0 \/ \E i \in DOMAIN b.profiles : e[1] \in {2 * i - 1, 2 * i}
    BY DEF ProfileGroups
  <2>. QED
    BY <1>3, <2>1
<1>. QED
  BY <1>4, <1>5 DEF GroupList

\* An attempt has put a route that was not there, with the line it resolved.
LEMMA RoutePut ==
  ASSUME RenderInv, [RenderNext]_renderVars, NEW w \in waiting \ waiting',
         NEW id \in DOMAIN sessions' \ DOMAIN sessions
  PROVE  sessions'[id].dialer = w.dialer /\ config' = Rendered(nodes, base, sessions')
<1>1. ~UNCHANGED sessions
  OBVIOUS
<1>2. ~UNCHANGED waiting
  OBVIOUS
<1>3. PICK v \in waiting, s \in SessionRoutes : UpsertRoute(v, s)
  BY <1>1, <1>2 DEF RenderNext, SaveNodes, WriteNodes, StoreSettings, ApplySettings, LoadForLease,
     ResolveLine, AttemptFails, DeleteRoute, renderVars, attempts
<1>4. v = w
  BY <1>3 DEF UpsertRoute
<1>. DEFINE ss == [x \in DOMAIN sessions \cup {s.id} |->
                     IF x = s.id THEN Routed(s, w.dialer) ELSE sessions[x]]
<1>5. Reconcile(base, ss)
  BY <1>3, <1>4 DEF UpsertRoute
<1>6. config' = Rendered(nodes, base, sessions') /\ sessions' = ss
  BY <1>1, <1>5 DEF Reconcile
<1>7. sessions'[id] = Routed(s, w.dialer)
  BY <1>6
<1>8. Routed(s, w.dialer).dialer = w.dialer
  BY DEF Routed
<1>. QED
  BY <1>6, <1>7, <1>8

\* The resource of an unambiguous line is a subscription, and the line's group
\* is made for it.
LEMMA DialerGroup ==
  ASSUME RenderInv, NEW p \in {base.profiles[i] : i \in DOMAIN base.profiles}, p.line = "node",
         NEW ss, RoutesOK(ss), NEW c, c = Rendered(nodes, base, ss),
         NamedBy(p.lineRef, nodes.fixed) = {}, NamedBy(p.lineRef, nodes.subs) # {},
         ResolveTarget(p.lineRef, nodes).node \notin NamesIn(c.proxies)
  PROVE  LineGroupName(p.id) \in GroupNames(c)
<1>. DEFINE subs == NamedBy(p.lineRef, nodes.subs)
            t == ResolveTarget(p.lineRef, nodes)
            available == BaseNames(nodes, base, ss)
            list == GroupList(nodes, base, ss)
<1>1. FirstOf(subs) \in DOMAIN nodes.subs
  <2>1. IsList(nodes.subs)
    BY RenderingAssumption DEF RenderInv, RenderingAssumption
  <2>2. subs \in SUBSET Nat
    BY <2>1 DEF NamedBy, IsList
  <2>3. FirstOf(subs) \in subs
    BY <2>2, FirstOfIn
  <2>. QED
    BY <2>3 DEF NamedBy
<1>2. t.resource = nodes.subs[FirstOf(subs)].name
  BY DEF ResolveTarget
<1>3. t.resource \in Providers(nodes)
  BY <1>1, <1>2 DEF Providers
<1>4. t.node \notin available
  <2>1. BaseProxies(nodes, base.pool, ss) \subseteq c.proxies
    BY RenderedParts
  <2>. QED
    BY <2>1 DEF BaseNames, NamesIn
<1>5. HasLineGroup(p, nodes, available)
  BY <1>3, <1>4 DEF HasLineGroup, LineTarget
<1>6. PICK i \in DOMAIN base.profiles : p = base.profiles[i]
  OBVIOUS
<1>. DEFINE e == <<2 * i - 1, Filtered(LineGroupName(p.id), t)>>
<1>7. e \in list /\ e[2].name = LineGroupName(p.id)
  BY <1>5, <1>6 DEF GroupList, ProfileGroups, Filtered
<1>8. \A d \in list : d[1] \in Nat
  BY PlacesOfGroups DEF RenderInv
<1>. HIDE DEF list, e
<1>9. \E g \in FirstOfName(list) : g.name = e[2].name
  BY <1>7, <1>8, NameListed
<1>10. c.groups = FirstOfName(list)
  BY RenderedParts DEF list
<1>. QED
  BY <1>7, <1>9, <1>10 DEF GroupNames

LEMMA DialerKnown ==
  ASSUME RenderInv, NEW ss, RoutesOK(ss), NEW c, c = Rendered(nodes, base, ss), NEW id,
         NEW p \in LeaseLine(base, id), Unambiguous(p.lineRef, c), NEW dialer \in DialersOf(p, nodes)
  PROVE  dialer \in Known(c)
<1>. DEFINE ref == p.lineRef
            names == <<ref.resource, NodeId(ref), LeafName(ref, {ref.resource})>>
            hits(k) == {i \in DOMAIN nodes.fixed : names[k] \in {nodes.fixed[i].id, nodes.fixed[i].name}}
            found == {k \in DOMAIN names : hits(k) # {}}
<1>1. CASE found # {}
  <2>1. PICK i \in DOMAIN nodes.fixed : dialer = nodes.fixed[i].name
    BY <1>1 DEF DialersOf
  <2>. DEFINE none == ""
              e == <<<<"fixed", i>>, Proxy(dialer, dialer, none)>>
  <2>2. e \in BaseProxies(nodes, base.pool, ss)
    BY <2>1 DEF BaseProxies
  <2>3. e[2].name = dialer
    BY DEF Proxy
  <2>. HIDE DEF e
  <2>4. e \in c.proxies
    BY <2>2, RenderedParts
  <2>. QED
    BY <2>3, <2>4 DEF Known, NamesIn
<1>2. CASE found = {}
  <2>1. dialer = LineGroupName(p.id) /\ SubsOf({ref.resource, ref.of}, nodes) # {}
    BY <1>2 DEF DialersOf, LineDialer
  <2>2. NamedBy(ref, nodes.fixed) = {}
    <3>1. 1 \in DOMAIN names /\ names[1] = ref.resource
      OBVIOUS
    <3>2. hits(1) = {}
      BY <1>2, <3>1
    <3>. QED
      BY <3>1, <3>2 DEF NamedBy
  <2>3. SubsOf({ref.resource}, nodes) = NamedBy(ref, nodes.subs)
    BY DEF SubsOf, NamedBy
  <2>4. SubsOf({ref.resource, ref.of}, nodes) =
          SubsOf({ref.resource}, nodes) \cup SubsOf({ref.of}, nodes)
    BY DEF SubsOf
  <2>5. NamedBy(ref, nodes.subs) # {}
    BY <2>1, <2>3, <2>4 DEF Unambiguous
  <2>6. ResolveTarget(ref, nodes).node \notin NamesIn(c.proxies)
    BY <2>2 DEF Unambiguous
  <2>7. p \in {base.profiles[i] : i \in DOMAIN base.profiles} /\ p.line = "node"
    BY DEF LeaseLine
  <2>8. LineGroupName(p.id) \in GroupNames(c)
    BY <2>2, <2>5, <2>6, <2>7, DialerGroup
  <2>. QED
    BY <2>1, <2>8 DEF Known
<1>. QED
  BY <1>1, <1>2

\* A lease's line is resolved apart from the configuration, and before its
\* attempt waits, and is in what its route brings all the same, when that is
\* made of the settings and nodes it was resolved from: it is a fixed proxy,
\* which is always rendered, or a subscription that the configuration makes the
\* line's group of (runtime_lease_line.go, render_egress_native.go).
THEOREM LeaseLineRendered == RenderSpec => LeaseLineExists
<1>1. ASSUME RenderInv, RenderInv', [RenderNext]_renderVars, NEW w \in waiting \ waiting',
             NEW id \in DOMAIN sessions' \ DOMAIN sessions, w.by = base, w.from = nodes,
             \A p \in LeaseLine(w.by, w.profile) : Unambiguous(p.lineRef, config')
      PROVE  sessions'[id].dialer \in {""} \cup Known(config')
  <2>. DEFINE line == LeaseLine(base, w.profile)
  <2>1. sessions'[id].dialer = w.dialer /\ config' = Rendered(nodes, base, sessions')
    BY <1>1, RoutePut
  <2>2. RoutesOK(sessions')
    BY <1>1 DEF RenderInv
  <2>3. w.dialer \in IF line = {} THEN {""} ELSE UNION {DialersOf(p, nodes) : p \in line}
    BY <1>1 DEF RenderInv, AttemptsOK, DialersIn
  <2>4. CASE line = {}
    BY <2>1, <2>3, <2>4
  <2>5. CASE line # {}
    <3>1. PICK p \in line : w.dialer \in DialersOf(p, nodes)
      BY <2>3, <2>5
    <3>2. Unambiguous(p.lineRef, config')
      BY <1>1, <3>1
    <3>. QED
      BY <1>1, <2>1, <2>2, <3>1, <3>2, DialerKnown
  <2>. QED
    BY <2>4, <2>5
<1>2. RenderInv /\ RenderInv' /\ [RenderNext]_renderVars =>
        (\A w \in waiting \ waiting', id \in DOMAIN sessions' \ DOMAIN sessions :
           /\ w.by = base /\ w.from = nodes
           /\ \A p \in LeaseLine(w.by, w.profile) : Unambiguous(p.lineRef, config')
           => sessions'[id].dialer \in {""} \cup Known(config'))
  BY <1>1
<1>. QED
  BY <1>2, RenderHolds, PTL DEF RenderSpec, LeaseLineExists

-----------------------------------------------------------------------------
(* Two sets of session routes, and what is rendered alike with both.        *)

Conf(ss) == Rendered(shown, base, ss)

Moved(A, B) ==
  {id \in DOMAIN A \cup DOMAIN B : id \notin DOMAIN A \cap DOMAIN B \/ A[id] # B[id]}

MadeBy(C, I) == UNION {MadeNames(C[id]) : id \in I \cap DOMAIN C}
Made(A, B) == MadeBy(A, Moved(A, B)) \cup MadeBy(B, Moved(A, B))
Near(C, I) == {C[id].user : id \in {x \in DOMAIN C : \E y \in I : Safe[x] = Safe[y]}}

TwoRoutes(A, B) ==
  /\ base \in Settings /\ shown \in NodeFiles
  /\ RoutesOK(A) /\ RoutesOK(B) /\ Accepts(Conf(A)) /\ Accepts(Conf(B))
  /\ Made(A, B) \cap Referred = {}

LEMMA Symmetric ==
  ASSUME NEW A, NEW B, TwoRoutes(A, B)
  PROVE  TwoRoutes(B, A) /\ Made(B, A) = Made(A, B) /\ Moved(B, A) = Moved(A, B)
<1>1. Moved(B, A) = Moved(A, B)
  BY DEF Moved
<1>2. Made(B, A) = Made(A, B)
  BY <1>1 DEF Made
<1>. QED
  BY <1>1, <1>2 DEF TwoRoutes

LEMMA Unmoved ==
  ASSUME NEW A, NEW B, NEW id \in DOMAIN A, id \notin Moved(A, B)
  PROVE  id \in DOMAIN B /\ B[id] = A[id]
BY DEF Moved

LEMMA MadeOfMoved ==
  ASSUME NEW A, NEW B, NEW id \in DOMAIN A, id \in Moved(A, B)
  PROVE  MadeNames(A[id]) \subseteq Made(A, B)
BY DEF Made, MadeBy

LEMMA MadeIncludes ==
  ASSUME NEW s
  PROVE  /\ SessionGroupName(s) \in MadeNames(s)
         /\ \A k \in DOMAIN s.nodes : SessionProxyName(s, k) \in MadeNames(s)
BY DEF MadeNames

LEMMA SessionProxyNamed ==
  ASSUME NEW s, NEW e \in SessionProxies(s)
  PROVE  \E k \in DOMAIN s.nodes : e[2].name = SessionProxyName(s, k)
BY DEF SessionProxies, Proxy

LEMMA BaseKept ==
  ASSUME NEW A, NEW B, NEW e \in BaseProxies(shown, base.pool, A), e[2].name \notin Made(A, B)
  PROVE  e \in BaseProxies(shown, base.pool, B)
<1>1. ASSUME NEW id \in DOMAIN A, e \in SessionProxies(A[id])
      PROVE  id \in DOMAIN B /\ e \in SessionProxies(B[id])
  <2>1. e[2].name \in MadeNames(A[id])
    BY <1>1, SessionProxyNamed, MadeIncludes
  <2>2. id \notin Moved(A, B)
    BY <2>1, MadeOfMoved
  <2>. QED
    BY <1>1, <2>2, Unmoved
<1>. QED
  BY <1>1 DEF BaseProxies

LEMMA BaseNamesKept ==
  ASSUME NEW A, NEW B, TwoRoutes(A, B), NEW x, x \notin Made(A, B)
  PROVE  x \in BaseNames(shown, base, A) <=> x \in BaseNames(shown, base, B)
<1>1. Made(B, A) = Made(A, B)
  BY Symmetric
<1>2. \A e \in BaseProxies(shown, base.pool, A) : e[2].name = x => e \in BaseProxies(shown, base.pool, B)
  BY BaseKept
<1>3. \A e \in BaseProxies(shown, base.pool, B) : e[2].name = x => e \in BaseProxies(shown, base.pool, A)
  BY <1>1, BaseKept
<1>. QED
  BY <1>2, <1>3 DEF BaseNames, NamesIn

\* The settings refer to nothing that is made of the sessions that moved.
LEMMA ReferredKept ==
  ASSUME NEW A, NEW B, TwoRoutes(A, B), NEW i \in DOMAIN base.profiles
  PROVE  /\ LineGroupName(base.profiles[i].id) \notin Made(A, B)
         /\ \A ref \in {base.profiles[i].lineRef, base.profiles[i].exitRef} :
              /\ ResolveTarget(ref, shown).node \notin Made(A, B)
              /\ NodeOf(ResolveTarget(ref, shown)) \notin Made(A, B)
BY DEF TwoRoutes, Referred, Named

LEMMA SameLine ==
  ASSUME NEW A, NEW B, TwoRoutes(A, B), NEW i \in DOMAIN base.profiles
  PROVE  LineTarget(base.profiles[i], shown, BaseNames(shown, base, A)) =
           LineTarget(base.profiles[i], shown, BaseNames(shown, base, B))
<1>1. ResolveTarget(base.profiles[i].lineRef, shown).node \in BaseNames(shown, base, A) <=>
        ResolveTarget(base.profiles[i].lineRef, shown).node \in BaseNames(shown, base, B)
  BY ReferredKept, BaseNamesKept
<1>. QED
  BY <1>1 DEF LineTarget

LEMMA SameExit ==
  ASSUME NEW A, NEW B, TwoRoutes(A, B), NEW i \in DOMAIN base.profiles, NEW name
  PROVE  ExitGroup(name, base.profiles[i], shown, BaseNames(shown, base, A), base.pool) =
           ExitGroup(name, base.profiles[i], shown, BaseNames(shown, base, B), base.pool)
<1>1. ResolveTarget(base.profiles[i].exitRef, shown).node \in BaseNames(shown, base, A) <=>
        ResolveTarget(base.profiles[i].exitRef, shown).node \in BaseNames(shown, base, B)
  BY ReferredKept, BaseNamesKept
<1>. QED
  BY <1>1, SameLine DEF ExitGroup, StaticExit

LEMMA ProfileGroupsKept ==
  ASSUME NEW A, NEW B, TwoRoutes(A, B)
  PROVE  ProfileGroups(shown, base, BaseNames(shown, base, A)) \subseteq
           ProfileGroups(shown, base, BaseNames(shown, base, B))
BY SameLine, SameExit DEF ProfileGroups, HasLineGroup

LEMMA ClonesKept ==
  ASSUME NEW A, NEW B, TwoRoutes(A, B)
  PROVE  ClonesOf(shown, base, BaseNames(shown, base, A)) \subseteq
           ClonesOf(shown, base, BaseNames(shown, base, B))
BY SameLine DEF ClonesOf

LEMMA ProxiesOf ==
  ASSUME NEW C
  PROVE  Conf(C).proxies = BaseProxies(shown, base.pool, C) \cup ClonesOf(shown, base, BaseNames(shown, base, C))
BY RenderedParts DEF Conf

LEMMA ProxyKept ==
  ASSUME NEW A, NEW B, TwoRoutes(A, B), NEW e \in Conf(A).proxies, e[2].name \notin Made(A, B)
  PROVE  e \in Conf(B).proxies
<1>1. Conf(A).proxies = BaseProxies(shown, base.pool, A) \cup ClonesOf(shown, base, BaseNames(shown, base, A))
  BY RenderedParts DEF Conf
<1>2. Conf(B).proxies = BaseProxies(shown, base.pool, B) \cup ClonesOf(shown, base, BaseNames(shown, base, B))
  BY RenderedParts DEF Conf
<1>. QED
  BY <1>1, <1>2, BaseKept, ClonesKept

LEMMA ListedKept ==
  ASSUME NEW A, NEW B, TwoRoutes(A, B), NEW e \in GroupList(shown, base, A), e[2].name \notin Made(A, B)
  PROVE  e \in GroupList(shown, base, B)
<1>1. ASSUME NEW id \in DOMAIN A, e = <<2 * Len(base.profiles) + Place(id), SessionGroup(A[id])>>
      PROVE  e \in SessionGroups(base, B)
  <2>1. e[2].name = SessionGroupName(A[id])
    BY <1>1 DEF SessionGroup, Group
  <2>2. id \notin Moved(A, B)
    BY <2>1, MadeIncludes, MadeOfMoved
  <2>3. id \in DOMAIN B /\ B[id] = A[id]
    BY <2>2, Unmoved
  <2>. QED
    BY <1>1, <2>3 DEF SessionGroups
<1>2. e \in SessionGroups(base, A) => e \in SessionGroups(base, B)
  BY <1>1 DEF SessionGroups
<1>. QED
  BY <1>2, ProfileGroupsKept DEF GroupList

\* Of a name two lists have alike, they keep the same.
LEMMA FirstKept ==
  ASSUME NEW X, NEW Y, NEW n,
         \A e \in X : e[2].name = n => e \in Y, \A e \in Y : e[2].name = n => e \in X
  PROVE  \A g : g.name = n => (g \in FirstOfName(X) <=> g \in FirstOfName(Y))
<1>1. ASSUME NEW g \in FirstOfName(X), g.name = n PROVE g \in FirstOfName(Y)
  <2>1. PICK e \in X : e[2] = g /\ \A o \in X : o[2].name = g.name => e[1] <= o[1]
    BY FirstIsListed
  <2>2. e \in Y /\ \A o \in Y : o[2].name = e[2].name => e[1] <= o[1]
    BY <1>1, <2>1
  <2>. QED
    BY <2>1, <2>2 DEF FirstOfName
<1>2. ASSUME NEW g \in FirstOfName(Y), g.name = n PROVE g \in FirstOfName(X)
  <2>1. PICK e \in Y : e[2] = g /\ \A o \in Y : o[2].name = g.name => e[1] <= o[1]
    BY FirstIsListed
  <2>2. e \in X /\ \A o \in X : o[2].name = e[2].name => e[1] <= o[1]
    BY <1>2, <2>1
  <2>. QED
    BY <2>1, <2>2 DEF FirstOfName
<1>. QED
  BY <1>1, <1>2

LEMMA SameStep ==
  ASSUME NEW A, NEW B, TwoRoutes(A, B), NEW n, n \notin Made(A, B)
  PROVE  StepFrom(Conf(A), n) = StepFrom(Conf(B), n)
<1>. DEFINE X == GroupList(shown, base, A)
            Y == GroupList(shown, base, B)
<1>1. TwoRoutes(B, A) /\ Made(B, A) = Made(A, B)
  BY Symmetric
<1>2. (\A e \in X : e[2].name = n => e \in Y) /\ (\A e \in Y : e[2].name = n => e \in X)
  BY <1>1, ListedKept
<1>3. Conf(A).groups = FirstOfName(X) /\ Conf(B).groups = FirstOfName(Y)
  BY RenderedParts DEF Conf
<1>. HIDE DEF X, Y
<1>4. \A g : g.name = n => (g \in FirstOfName(X) <=> g \in FirstOfName(Y))
  BY <1>2, FirstKept
<1>5. {g \in Conf(A).groups : g.name = n} = {g \in Conf(B).groups : g.name = n}
  BY <1>3, <1>4
<1>. QED
  BY <1>5 DEF StepFrom

LEMMA SameLeaf ==
  ASSUME NEW A, NEW B, TwoRoutes(A, B), NEW n, n \notin Made(A, B)
  PROVE  LeafOf(Conf(A), n) = LeafOf(Conf(B), n)
<1>1. TwoRoutes(B, A) /\ Made(B, A) = Made(A, B)
  BY Symmetric
<1>2. /\ \A e \in Conf(A).proxies : e[2].name = n => e \in Conf(B).proxies
      /\ \A e \in Conf(B).proxies : e[2].name = n => e \in Conf(A).proxies
  BY <1>1, ProxyKept
<1>3. {d \in Conf(A).proxies : d[2].name = n} = {d \in Conf(B).proxies : d[2].name = n}
  BY <1>2
<1>. QED
  BY <1>3 DEF LeafOf

\* What is made of sessions is no name of anything else in a configuration
\* that Mihomo takes.
LEMMA SessionGroupThere ==
  ASSUME base \in Settings, NEW C, RoutesOK(C), NEW id \in DOMAIN C
  PROVE  SessionGroupName(C[id]) \in GroupNames(Conf(C))
<1>. DEFINE list == GroupList(shown, base, C)
            e == <<2 * Len(base.profiles) + Place(id), SessionGroup(C[id])>>
<1>1. e \in list /\ e[2].name = SessionGroupName(C[id])
  BY DEF GroupList, SessionGroups, SessionGroup, Group
<1>2. \A d \in list : d[1] \in Nat
  BY PlacesOfGroups
<1>3. Conf(C).groups = FirstOfName(list)
  BY RenderedParts DEF Conf
<1>. HIDE DEF list, e
<1>4. \E g \in FirstOfName(list) : g.name = e[2].name
  BY <1>1, <1>2, NameListed
<1>. QED
  BY <1>1, <1>3, <1>4 DEF GroupNames

LEMMA SessionProxyThere ==
  ASSUME NEW C, RoutesOK(C), NEW id \in DOMAIN C, NEW k \in DOMAIN C[id].nodes
  PROVE  \E f \in Conf(C).proxies : f[2].name = SessionProxyName(C[id], k) /\ f[1] = <<"session", id, k>>
<1>. DEFINE f == <<<<"session", C[id].id, k>>, Proxy(SessionProxyName(C[id], k), C[id].nodes[k], C[id].dialer)>>
<1>1. f \in SessionProxies(C[id])
  BY DEF SessionProxies
<1>2. f \in Conf(C).proxies
  <2>. HIDE DEF f
  <2>1. f \in BaseProxies(shown, base.pool, C)
    BY <1>1 DEF BaseProxies
  <2>. QED
    BY <2>1, RenderedParts DEF Conf
<1>3. C[id].id = id
  BY RoutedShape
<1>4. f[2].name = SessionProxyName(C[id], k) /\ f[1] = <<"session", id, k>>
  BY <1>3 DEF Proxy
<1>. QED
  BY <1>2, <1>4

LEMMA MadeIsThere ==
  ASSUME base \in Settings, NEW C, RoutesOK(C), NEW I, NEW x \in MadeBy(C, I)
  PROVE  \E id \in I \cap DOMAIN C :
           \/ x = SessionGroupName(C[id]) /\ x \in GroupNames(Conf(C))
           \/ \E f \in Conf(C).proxies : f[2].name = x /\ \E k : f[1] = <<"session", id, k>>
<1>1. PICK id \in I \cap DOMAIN C : x \in MadeNames(C[id])
  BY DEF MadeBy
<1>2. CASE x = SessionGroupName(C[id])
  BY <1>2, SessionGroupThere
<1>3. CASE \E k \in DOMAIN C[id].nodes : x = SessionProxyName(C[id], k)
  <2>1. PICK k \in DOMAIN C[id].nodes : x = SessionProxyName(C[id], k)
    BY <1>3
  <2>2. \E f \in Conf(C).proxies : f[2].name = SessionProxyName(C[id], k) /\ f[1] = <<"session", id, k>>
    BY SessionProxyThere
  <2>. QED
    BY <2>1, <2>2
<1>. QED
  BY <1>1, <1>2, <1>3 DEF MadeNames

LEMMA NotMadeBy ==
  ASSUME base \in Settings, NEW C, RoutesOK(C), Accepts(Conf(C)), NEW I,
         NEW e \in Conf(C).proxies, \A id \in I : \A k : e[1] # <<"session", id, k>>
  PROVE  e[2].name \notin MadeBy(C, I)
<1>1. e[2].name \notin GroupNames(Conf(C))
  BY LeafOfProxy
<1>2. \A f \in Conf(C).proxies : f[2].name = e[2].name => f = e
  BY DEF Accepts
<1>3. ASSUME NEW x \in MadeBy(C, I), x = e[2].name PROVE FALSE
  <2>1. PICK id \in I \cap DOMAIN C :
           \/ x = SessionGroupName(C[id]) /\ x \in GroupNames(Conf(C))
           \/ \E f \in Conf(C).proxies : f[2].name = x /\ \E k : f[1] = <<"session", id, k>>
    BY MadeIsThere
  <2>2. PICK f \in Conf(C).proxies : f[2].name = x /\ \E k : f[1] = <<"session", id, k>>
    BY <1>1, <1>3, <2>1
  <2>3. f = e
    BY <1>2, <1>3, <2>2
  <2>. QED
    BY <2>1, <2>2, <2>3
<1>. QED
  BY <1>3

LEMMA NotMade ==
  ASSUME NEW A, NEW B, TwoRoutes(A, B), NEW e, e \in Conf(A).proxies, e \in Conf(B).proxies,
         \A id \in Moved(A, B) : \A k : e[1] # <<"session", id, k>>
  PROVE  e[2].name \notin Made(A, B)
BY NotMadeBy DEF Made, TwoRoutes

LEMMA BuiltInNotMade ==
  ASSUME NEW A, NEW B, TwoRoutes(A, B), NEW x \in BuiltIn
  PROVE  x \notin Made(A, B)
<1>1. ASSUME NEW C, RoutesOK(C), Accepts(Conf(C)), NEW I PROVE x \notin MadeBy(C, I)
  <2>1. x \notin GroupNames(Conf(C)) /\ x \notin NamesIn(Conf(C).proxies)
    BY <1>1 DEF Accepts
  <2>2. base \in Settings
    BY DEF TwoRoutes
  <2>. QED
    BY <1>1, <2>1, <2>2, MadeIsThere DEF NamesIn
<1>. QED
  BY <1>1 DEF Made, TwoRoutes

\* The group of a session is not made of one whose cleaned id differs.
LEMMA GroupsDiffer ==
  ASSUME NEW C, RoutesOK(C), NEW id \in DOMAIN C, NEW m \in DOMAIN C,
         SessionGroupName(C[id]) = SessionGroupName(C[m])
  PROVE  Safe[id] = Safe[m]
<1>1. PICK s \in SessionRoutes : s.id = id /\ C[id].id = id
  BY RoutedShape
<1>2. PICK t \in SessionRoutes : t.id = m /\ C[m].id = m
  BY RoutedShape
<1>3. "bvf-session-" \o Safe[s.id] = "bvf-session-" \o Safe[t.id]
  BY <1>1, <1>2 DEF SessionGroupName
<1>. QED
  BY <1>1, <1>2, <1>3, RenderingAssumption DEF RenderingAssumption

LEMMA GroupNotMade ==
  ASSUME NEW A, NEW B, TwoRoutes(A, B), NEW id \in DOMAIN A, id \in DOMAIN B, A[id] = B[id],
         \A m \in Moved(A, B) : Safe[m] # Safe[id]
  PROVE  SessionGroupName(A[id]) \notin Made(A, B)
<1>. DEFINE x == SessionGroupName(A[id])
<1>1. ASSUME NEW C, RoutesOK(C), Accepts(Conf(C)), id \in DOMAIN C, C[id] = A[id],
             x \in MadeBy(C, Moved(A, B))
      PROVE  FALSE
  <2>1. base \in Settings
    BY DEF TwoRoutes
  <2>2. x \in GroupNames(Conf(C))
    BY <1>1, <2>1, SessionGroupThere
  <2>3. \A f \in Conf(C).proxies : f[2].name # x
    BY <1>1, <2>2, LeafOfProxy
  <2>4. PICK m \in Moved(A, B) \cap DOMAIN C : x = SessionGroupName(C[m])
    BY <1>1, <2>1, <2>3, MadeIsThere
  <2>. QED
    BY <1>1, <2>4, GroupsDiffer
<1>. QED
  BY <1>1 DEF Made, TwoRoutes

LEMMA PoolNotMade ==
  ASSUME NEW A, NEW B, TwoRoutes(A, B), NEW k \in DOMAIN base.pool
  PROVE  Safe[base.pool[k].id] \notin Made(A, B)
<1>. DEFINE none == ""
            e == <<<<"pool", k>>, Proxy(Safe[base.pool[k].id], base.pool[k].id, none)>>
<1>1. \A C : e \in BaseProxies(shown, base.pool, C)
  BY DEF BaseProxies
<1>2. e[2].name = Safe[base.pool[k].id] /\ \A id : \A j : e[1] # <<"session", id, j>>
  BY DEF Proxy
<1>. HIDE DEF e
<1>3. e \in Conf(A).proxies /\ e \in Conf(B).proxies
  BY <1>1, RenderedParts DEF Conf
<1>. QED
  BY <1>2, <1>3, NotMade

LEMMA CloneNotMade ==
  ASSUME NEW A, NEW B, TwoRoutes(A, B), NEW i \in DOMAIN base.profiles, base.profiles[i].exit = "dynamic",
         LineTarget(base.profiles[i], shown, BaseNames(shown, base, A)) # "",
         NEW k \in OwnNodes(base.profiles[i], base.pool)
  PROVE  CloneOf(base.profiles[i], k, base.pool) \notin Made(A, B)
<1>. DEFINE line == LineTarget(base.profiles[i], shown, BaseNames(shown, base, A))
            name == CloneOf(base.profiles[i], k, base.pool)
            e == <<<<"clone", i, k>>, Proxy(name, base.pool[k].id, line)>>
<1>1. e \in Clones(i, base.profiles[i], line, base.pool)
  BY DEF Clones
<1>2. e \in ClonesOf(shown, base, BaseNames(shown, base, A))
  BY <1>1 DEF ClonesOf
<1>3. e[2].name = name /\ \A id : \A j : e[1] # <<"session", id, j>>
  BY DEF Proxy
<1>. HIDE DEF e
<1>4. e \in ClonesOf(shown, base, BaseNames(shown, base, B))
  BY <1>2, ClonesKept
<1>5. e \in Conf(A).proxies /\ e \in Conf(B).proxies
  BY <1>2, <1>4, ProxiesOf
<1>6. e[2].name \notin Made(A, B)
  BY <1>3, <1>5, NotMade
<1>. QED
  BY <1>3, <1>6

LEMMA SessionNotMade ==
  ASSUME NEW A, NEW B, TwoRoutes(A, B), NEW id \in DOMAIN A, id \notin Moved(A, B),
         NEW k \in DOMAIN A[id].nodes
  PROVE  SessionProxyName(A[id], k) \notin Made(A, B)
<1>. DEFINE e == <<<<"session", A[id].id, k>>, Proxy(SessionProxyName(A[id], k), A[id].nodes[k], A[id].dialer)>>
<1>1. id \in DOMAIN B /\ B[id] = A[id]
  BY Unmoved
<1>2. e \in SessionProxies(A[id])
  BY DEF SessionProxies
<1>3. A[id].id = id
  BY RoutedShape DEF TwoRoutes
<1>4. e[2].name = SessionProxyName(A[id], k) /\ \A m \in Moved(A, B) : \A j : e[1] # <<"session", m, j>>
  BY <1>3 DEF Proxy
<1>. HIDE DEF e
<1>5. e \in BaseProxies(shown, base.pool, A) /\ e \in BaseProxies(shown, base.pool, B)
  BY <1>1, <1>2 DEF BaseProxies
<1>6. e \in Conf(A).proxies /\ e \in Conf(B).proxies
  BY <1>5, RenderedParts DEF Conf
<1>. QED
  BY <1>4, <1>6, NotMade

\* From what is not made of the moved sessions no step leads to what is.
LEMMA ProfileStepKept ==
  ASSUME NEW A, NEW B, TwoRoutes(A, B),
         NEW e \in ProfileGroups(shown, base, BaseNames(shown, base, A)),
         NEW x \in e[2].members \cup {NodeOf(t) : t \in e[2].use}
  PROVE  x \notin Made(A, B)
<1>. DEFINE available == BaseNames(shown, base, A)
<1>1. ASSUME NEW i \in DOMAIN base.profiles
      PROVE  LineTarget(base.profiles[i], shown, available) \in {""} \/
             LineTarget(base.profiles[i], shown, available) \notin Made(A, B)
  <2>1. "REJECT" \notin Made(A, B)
    BY BuiltInNotMade DEF BuiltIn
  <2>2. /\ LineGroupName(base.profiles[i].id) \notin Made(A, B)
        /\ ResolveTarget(base.profiles[i].lineRef, shown).node \notin Made(A, B)
    BY ReferredKept
  <2>. QED
    BY <2>1, <2>2 DEF LineTarget
<1>2. CASE e = <<0, Group("GLOBAL", {"REJECT"})>>
  <2>1. x = "REJECT"
    BY <1>2 DEF Group
  <2>. QED
    BY <2>1, BuiltInNotMade DEF BuiltIn
<1>3. CASE \E i \in DOMAIN base.profiles :
             e = <<2 * i - 1, Filtered(LineGroupName(base.profiles[i].id), ResolveTarget(base.profiles[i].lineRef, shown))>>
  <2>1. PICK i \in DOMAIN base.profiles :
          e = <<2 * i - 1, Filtered(LineGroupName(base.profiles[i].id), ResolveTarget(base.profiles[i].lineRef, shown))>>
    BY <1>3
  <2>2. x = NodeOf(ResolveTarget(base.profiles[i].lineRef, shown))
    BY <2>1 DEF Filtered
  <2>. QED
    BY <2>2, ReferredKept
<1>4. ASSUME NEW i \in DOMAIN base.profiles,
             e[2] = ExitGroup(ProfileGroupName(base.profiles, i), base.profiles[i], shown, available, base.pool)
      PROVE  x \notin Made(A, B)
  <2>. DEFINE p == base.profiles[i]
              name == ProfileGroupName(base.profiles, i)
              line == LineTarget(p, shown, available)
              t == ResolveTarget(p.exitRef, shown)
  <2>0. p.exit \in {"direct", "static", "dynamic"}
    BY SettingsShape DEF TwoRoutes
  <2>1. CASE p.exit = "direct"
    <3>. DEFINE m == IF line = "" THEN "DIRECT" ELSE line
    <3>1. e[2] = Group(name, {m})
      BY <1>4, <2>1 DEF ExitGroup
    <3>2. m \notin Made(A, B)
      BY <1>1, BuiltInNotMade DEF BuiltIn
    <3>. HIDE DEF m
    <3>3. x = m
      BY <3>1 DEF Group
    <3>. QED
      BY <3>2, <3>3
  <2>2. CASE p.exit = "static"
    <3>1. e[2] = StaticExit(name, t, shown, available)
      BY <1>4, <2>2 DEF ExitGroup
    <3>2. x \in {"REJECT", t.node, NodeOf(t)}
      BY <3>1 DEF StaticExit, Group, Filtered
    <3>3. t.node \notin Made(A, B) /\ NodeOf(t) \notin Made(A, B)
      BY ReferredKept
    <3>. QED
      BY <3>2, <3>3, BuiltInNotMade DEF BuiltIn
  <2>3. CASE p.exit = "dynamic"
    <3>0. e[2] = DynamicExit(name, p, line, base.pool)
      BY <1>4, <2>3 DEF ExitGroup
    <3>1. x \in DynamicExit(name, p, line, base.pool).members
      <4>1. DynamicExit(name, p, line, base.pool).use = {}
        BY DEF DynamicExit, Group
      <4>. HIDE DEF p, name, line
      <4>. QED
        BY <3>0, <4>1
    <3>2. CASE OwnNodes(p, base.pool) = {}
      <4>1. x = "REJECT"
        BY <3>1, <3>2 DEF DynamicExit, Group
      <4>. QED
        BY <4>1, BuiltInNotMade DEF BuiltIn
    <3>3. CASE OwnNodes(p, base.pool) # {} /\ line = ""
      <4>1. NoLine(line) /\ OwnNodes(p, base.pool) # {}
        BY <3>3 DEF NoLine
      <4>2. PICK k \in OwnNodes(p, base.pool) : x = Safe[base.pool[k].id]
        <5>. HIDE DEF p, name, line
        <5>. QED
          BY <3>1, <4>1, NodesAreMembers
      <4>. QED
        BY <4>2, PoolNotMade DEF OwnNodes
    <3>4. CASE OwnNodes(p, base.pool) # {} /\ line # ""
      <4>1. ~NoLine(line) /\ OwnNodes(p, base.pool) # {}
        BY <3>4 DEF NoLine
      <4>2. PICK k \in OwnNodes(p, base.pool) : x = CloneOf(p, k, base.pool)
        <5>. HIDE DEF p, name, line
        <5>. QED
          BY <3>1, <4>1, ClonesAreMembers
      <4>. QED
        BY <2>3, <3>4, <4>2, CloneNotMade
    <3>. QED
      BY <3>2, <3>3, <3>4
  <2>. QED
    BY <2>0, <2>1, <2>2, <2>3
<1>. QED
  BY <1>2, <1>3, <1>4 DEF ProfileGroups

LEMMA StepKept ==
  ASSUME NEW A, NEW B, TwoRoutes(A, B), NEW n, n \notin Made(A, B), NEW x \in StepFrom(Conf(A), n)
  PROVE  x \notin Made(A, B)
<1>1. CASE n \notin GroupNames(Conf(A))
  BY <1>1, StepEnd
<1>2. CASE n \in GroupNames(Conf(A))
  <2>1. PICK g \in Conf(A).groups : g.name = n /\ x \in g.members \cup {NodeOf(t) : t \in g.use}
    BY <1>2 DEF StepFrom, GroupNames
  <2>2. Conf(A).groups = FirstOfName(GroupList(shown, base, A))
    BY RenderedParts DEF Conf
  <2>3. PICK e \in GroupList(shown, base, A) : e[2] = g
    <3>. DEFINE list == GroupList(shown, base, A)
    <3>1. g \in FirstOfName(list)
      BY <2>2
    <3>. HIDE DEF list
    <3>2. \E e \in list : e[2] = g
      BY <3>1, FirstIsListed
    <3>. QED
      BY <3>2 DEF list
  <2>4. CASE e \in ProfileGroups(shown, base, BaseNames(shown, base, A))
    BY <2>1, <2>3, <2>4, ProfileStepKept
  <2>5. CASE e \in SessionGroups(base, A)
    <3>1. PICK id \in DOMAIN A : g = SessionGroup(A[id])
      BY <2>3, <2>5 DEF SessionGroups
    <3>2. g.name = SessionGroupName(A[id]) /\ g.use = {}
          /\ g.members = {SessionProxyName(A[id], k) : k \in DOMAIN A[id].nodes}
      BY <3>1 DEF SessionGroup, Group
    <3>3. id \notin Moved(A, B)
      BY <2>1, <3>2, MadeIncludes, MadeOfMoved
    <3>4. PICK k \in DOMAIN A[id].nodes : x = SessionProxyName(A[id], k)
      BY <2>1, <3>2
    <3>. QED
      BY <3>3, <3>4, SessionNotMade
  <2>. QED
    BY <2>4, <2>5 DEF GroupList
<1>. QED
  BY <1>1, <1>2

\* Two configurations in which what is not in M leads alike and to no M.
LEMMA SameLeaves ==
  ASSUME NEW c, NEW d, NEW M,
         \A n : n \notin M => StepFrom(c, n) = StepFrom(d, n),
         \A n : n \notin M => StepFrom(c, n) \cap M = {},
         \A n : n \notin M => LeafOf(c, n) = LeafOf(d, n),
         NEW T, T \notin M
  PROVE  Leaves(c, T) = Leaves(d, T)
<1>1. ASSUME NEW N, N \cap M = {} PROVE Step(c, N) = Step(d, N) /\ Step(c, N) \cap M = {}
  BY <1>1 DEF Step
<1>. DEFINE N1 == Step(c, {T})
            N2 == Step(c, N1)
            N3 == Step(c, N2)
<1>2. N1 = Step(d, {T}) /\ N1 \cap M = {}
  BY <1>1
<1>3. N2 = Step(d, N1) /\ N2 \cap M = {}
  BY <1>1, <1>2
<1>4. N3 = Step(d, N2) /\ N3 \cap M = {}
  BY <1>1, <1>3
<1>5. \A n \in N3 : LeafOf(c, n) = LeafOf(d, n)
  BY <1>4
<1>6. Leaves(c, T) = UNION {LeafOf(c, n) : n \in N3} /\ Leaves(d, T) = UNION {LeafOf(d, n) : n \in N3}
  BY <1>2, <1>3, <1>4 DEF Leaves
<1>. QED
  BY <1>5, <1>6

LEMMA LeavesKept ==
  ASSUME NEW A, NEW B, TwoRoutes(A, B), NEW T, T \notin Made(A, B)
  PROVE  Leaves(Conf(A), T) = Leaves(Conf(B), T)
<1>. DEFINE c == Conf(A)
            d == Conf(B)
            M == Made(A, B)
<1>1. \A n : n \notin M => StepFrom(c, n) = StepFrom(d, n)
  BY SameStep
<1>2. \A n : n \notin M => StepFrom(c, n) \cap M = {}
  BY StepKept
<1>3. \A n : n \notin M => LeafOf(c, n) = LeafOf(d, n)
  BY SameLeaf
<1>. HIDE DEF c, d, M
<1>. QED
  BY <1>1, <1>2, <1>3, SameLeaves DEF c, d, M

\* The rules of a name that no session near a moved one bears.
LEMMA FarUnmoved ==
  ASSUME NEW A, NEW B, NEW u, u \notin Near(A, Moved(A, B)), NEW id \in DOMAIN A, A[id].user = u
  PROVE  /\ id \in DOMAIN B /\ B[id] = A[id]
         /\ \A m \in Moved(A, B) : Safe[m] # Safe[id]
<1>1. \A m \in Moved(A, B) : Safe[m] # Safe[id]
  BY DEF Near
<1>. QED
  BY <1>1, Unmoved

LEMMA RuleKept ==
  ASSUME NEW A, NEW B, NEW u, u \notin Near(A, Moved(A, B)),
         NEW e \in RuleList(base.users, A, base.profiles), e[2].name = u
  PROVE  e \in RuleList(base.users, B, base.profiles)
<1>1. ASSUME NEW id \in DOMAIN A,
             e = <<Place(id), [name |-> A[id].user, target |-> SessionGroupName(A[id])]>>
      PROVE  e \in RuleList(base.users, B, base.profiles)
  <2>1. A[id].user = u
    BY <1>1
  <2>2. id \in DOMAIN B /\ B[id] = A[id]
    BY <2>1, FarUnmoved
  <2>. QED
    BY <1>1, <2>2 DEF RuleList
<1>. QED
  BY <1>1 DEF RuleList

LEMMA SameRules ==
  ASSUME NEW A, NEW B, TwoRoutes(A, B), NEW u, u \notin Near(A, Moved(A, B)) \cup Near(B, Moved(A, B))
  PROVE  {r \in Conf(A).rules : r.name = u} = {r \in Conf(B).rules : r.name = u}
<1>. DEFINE X == RuleList(base.users, A, base.profiles)
            Y == RuleList(base.users, B, base.profiles)
<1>1. Moved(B, A) = Moved(A, B)
  BY Symmetric
<1>2. (\A e \in X : e[2].name = u => e \in Y) /\ (\A e \in Y : e[2].name = u => e \in X)
  BY <1>1, RuleKept
<1>3. Conf(A).rules = FirstOfName(X) /\ Conf(B).rules = FirstOfName(Y)
  BY RenderedParts DEF Conf
<1>. HIDE DEF X, Y
<1>4. \A g : g.name = u => (g \in FirstOfName(X) <=> g \in FirstOfName(Y))
  BY <1>2, FirstKept
<1>. QED
  BY <1>3, <1>4

LEMMA TargetKept ==
  ASSUME NEW A, NEW B, TwoRoutes(A, B), NEW u, u \notin Near(A, Moved(A, B)),
         NEW r \in Conf(A).rules, r.name = u
  PROVE  r.target \notin Made(A, B)
<1>. DEFINE list == RuleList(base.users, A, base.profiles)
<1>1. Conf(A).rules = FirstOfName(list)
  BY RenderedParts DEF Conf
<1>2. PICK e \in list : e[2] = r
  <2>. HIDE DEF list
  <2>1. \E e \in list : e[2] = r
    BY <1>1, FirstIsListed
  <2>. QED
    BY <2>1
<1>3. ASSUME NEW id \in DOMAIN A, r = [name |-> A[id].user, target |-> SessionGroupName(A[id])]
      PROVE  r.target \notin Made(A, B)
  <2>1. A[id].user = u /\ r.target = SessionGroupName(A[id])
    BY <1>3
  <2>2. id \in DOMAIN B /\ B[id] = A[id] /\ \A m \in Moved(A, B) : Safe[m] # Safe[id]
    BY <2>1, FarUnmoved
  <2>3. SessionGroupName(A[id]) \notin Made(A, B)
    BY <2>2, GroupNotMade
  <2>. QED
    BY <2>1, <2>3
<1>4. ASSUME NEW k \in DOMAIN base.users,
             r = [name |-> base.users[k].name, target |-> UserTarget(base.users[k], base.profiles)]
      PROVE  r.target \notin Made(A, B)
  <2>1. r.target \in Referred
    BY <1>4 DEF Referred
  <2>. QED
    BY <2>1 DEF TwoRoutes
<1>5. \/ e \in {<<Place(id), [name |-> A[id].user, target |-> SessionGroupName(A[id])]>> : id \in DOMAIN A}
      \/ e \in {<<Len(SessionOrder) + k, [name |-> base.users[k].name,
                   target |-> UserTarget(base.users[k], base.profiles)]>> : k \in DOMAIN base.users}
  BY DEF RuleList
<1>. QED
  BY <1>2, <1>3, <1>4, <1>5

LEMMA ExitsKept ==
  ASSUME NEW A, NEW B, TwoRoutes(A, B), NEW u, u \notin Near(A, Moved(A, B)) \cup Near(B, Moved(A, B))
  PROVE  ExitsOf(Conf(B), u) = ExitsOf(Conf(A), u)
<1>1. {r \in Conf(A).rules : r.name = u} = {r \in Conf(B).rules : r.name = u}
  BY SameRules
<1>2. \A r \in {q \in Conf(A).rules : q.name = u} : Leaves(Conf(A), r.target) = Leaves(Conf(B), r.target)
  BY TargetKept, LeavesKept
<1>. QED
  BY <1>1, <1>2 DEF ExitsOf

\* With no settings and no routes there is no rule.
LEMMA NoRules ==
  ASSUME base = NoSettings, NEW ss, ss = <<>>
  PROVE  {r.name : r \in Conf(ss).rules} = {}
<1>1. DOMAIN base.users = {} /\ DOMAIN ss = {}
  BY DEF NoSettings
<1>2. RuleList(base.users, ss, base.profiles) = {}
  BY <1>1 DEF RuleList
<1>3. Conf(ss).rules = FirstOfName(RuleList(base.users, ss, base.profiles))
  BY RenderedParts DEF Conf
<1>. QED
  BY <1>2, <1>3 DEF FirstOfName

\* A session route that is put or removed leaves every other user where it
\* was: what a user's rule leads to is rendered alike before and after
\* (dataplane_sessions.go, render_gateway_groups.go).
THEOREM OthersUntouched == RenderSpec => OthersKeepRoute
<1>1. ASSUME RenderInv, RenderInv', [RenderNext]_renderVars, Moved(sessions, sessions') # {}, nodes = shown,
             Made(sessions, sessions') \cap Referred = {},
             NEW u \in {r.name : r \in config.rules},
             u \notin Near(sessions, Moved(sessions, sessions')) \cup Near(sessions', Moved(sessions, sessions'))
      PROVE  ExitsOf(config', u) = ExitsOf(config, u)
  <2>1. sessions' # sessions
    BY <1>1 DEF Moved
  <2>2. PICK b \in Settings : \E ss : RoutesOK(ss) /\ Reconcile(b, ss) /\ (ss # sessions => b = base)
    BY <1>1, <2>1, RouteSteps
  <2>3. base' = base /\ config' = Conf(sessions') /\ Accepts(config')
    BY <1>1, <2>1, <2>2 DEF Reconcile, Conf
  <2>4. RoutesOK(sessions) /\ RoutesOK(sessions') /\ config = Conf(sessions)
        /\ base \in Settings /\ shown \in NodeFiles
    BY <1>1 DEF RenderInv, Conf
  <2>5. CASE Accepts(config)
    <3>1. TwoRoutes(sessions, sessions')
      BY <1>1, <2>3, <2>4, <2>5 DEF TwoRoutes
    <3>2. ExitsOf(Conf(sessions'), u) = ExitsOf(Conf(sessions), u)
      BY <1>1, <3>1, ExitsKept
    <3>. QED
      BY <2>3, <2>4, <3>2
  <2>6. CASE base = NoSettings /\ sessions = <<>>
    <3>1. {r.name : r \in Conf(sessions).rules} = {}
      BY <2>6, NoRules
    <3>. QED
      BY <1>1, <2>4, <3>1
  <2>. QED
    BY <1>1, <2>5, <2>6 DEF RenderInv
<1>2. RenderInv /\ RenderInv' /\ [RenderNext]_renderVars =>
        (Moved(sessions, sessions') # {} /\ nodes = shown /\ Made(sessions, sessions') \cap Referred = {} =>
          \A u \in {r.name : r \in config.rules} \
                (Near(sessions, Moved(sessions, sessions')) \cup Near(sessions', Moved(sessions, sessions'))) :
            ExitsOf(config', u) = ExitsOf(config, u))
  BY <1>1
<1>. QED
  BY <1>2, RenderHolds, PTL DEF RenderSpec, OthersKeepRoute, Moved, Near, Made, MadeBy
=============================================================================
