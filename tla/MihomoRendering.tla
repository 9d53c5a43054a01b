--------------------------- MODULE MihomoRendering ---------------------------
(***************************************************************************)
(* The configuration the driver renders for Mihomo                         *)
(* (internal/sourceplane/mihomo, render_*.go): one proxy per node, a group *)
(* per egress profile and per session route, and a rule per user that      *)
(* leads to one of the groups. MihomoDriver says when a configuration is   *)
(* rendered and applied; here is what it says, and by what each user       *)
(* leaves.                                                                 *)
(*                                                                         *)
(* Groups, proxies and rules refer to each other by name, and names are    *)
(* made of what users and administrators chose. The nodes are read from    *)
(* their file each time, the settings are those applied last, and a        *)
(* session keeps the line it was acquired with: one resolved from what was *)
(* stored, by a request that then waits for the lock of the listeners, so  *)
(* that much may change before its route is put. Health checks, ports and  *)
(* the options of a node are left out, and so are the groups and rules of  *)
(* a nodes' file: the gateway writes none.                                 *)
(***************************************************************************)
EXTENDS Naturals, Sequences, FiniteSets, TLC

CONSTANTS
  NodeFiles,     \* what the nodes' file may hold: [fixed, subs], of [id, name]
  SettingsFiles, \* settings and pool: [profiles, users, pool]
  SessionRoutes, \* sessions providers give: [id, user, password, nodes, profile]
  SessionOrder,  \* their ids as strings are sorted
  Safe,          \* Safe[id] = the id with only letters, digits, "-" and "_"
  BadNode,       \* nodes whose address is not a proxy's
  MaxLeasing     \* BOUND: how many leases get their route at a time

VARIABLES
  saved,     \* the stored nodes
  nodes,     \* the nodes' file
  stored,    \* the stored settings
  base,      \* baseCfg: those the driver was given last
  sessions,  \* the session routes, each with the dialer it was given
  config,    \* what Mihomo runs
  asked,     \* attempts that loaded their settings: [profile, by]
  waiting,   \* those with a line that wait for the lock: [profile, by, from, dialer]
  shown      \* HISTORY: the nodes config was rendered with

attempts == <<asked, waiting>>
renderVars == <<saved, nodes, stored, base, sessions, config, asked, waiting, shown>>

-----------------------------------------------------------------------------
(* References to nodes.                                                   *)

NamedBy(ref, items) == {i \in DOMAIN items : ref.resource \in {items[i].id, items[i].name}}
FirstOf(I) == CHOOSE i \in I : \A j \in I : i <= j

\* A node id is "resource/leaf" or a leaf: the prefix goes if it is known.
LeafName(ref, known) ==
  IF ref.of \in known \cup {""} THEN ref.leaf ELSE ref.of \o "/" \o ref.leaf

\* Fixed proxies first, then subscriptions; a resource that is gone stands
\* for itself.
ResolveTarget(ref, ns) ==
  LET fixed == NamedBy(ref, ns.fixed)
      subs  == NamedBy(ref, ns.subs)
      fix   == ns.fixed[FirstOf(fixed)]
      sub   == ns.subs[FirstOf(subs)]
  IN IF fixed # {} THEN [resource |-> fix.name, node |-> fix.name]
     ELSE IF subs # {} THEN [resource |-> sub.name, node |-> LeafName(ref, {sub.id, sub.name})]
     ELSE [resource |-> ref.resource, node |-> LeafName(ref, {ref.resource})]

Providers(ns) == {ns.subs[i].name : i \in DOMAIN ns.subs}

-----------------------------------------------------------------------------
(* Names. A list is a set of pairs of a place and what is there.          *)

NamesIn(list) == {e[2].name : e \in list}

InternalName(id) == "bvf-profile-" \o id
LineGroupName(id) == InternalName(id) \o "-line"
SessionGroupOfProfile(s) == "bvf-session-" \o s.profile
SessionGroupName(s) == "bvf-session-" \o Safe[s.id]
SessionProxyName(s, k) == Safe[s.id] \o "-" \o Safe[s.nodes[k]] \o "-" \o ToString(k - 1)
ClonedName(id, node, k) == InternalName(id) \o "-dynamic-" \o ToString(k) \o "-" \o Safe[node.id]

\* A profile's group bears its display name, with a number if one before it
\* has the same.
Title(p) == IF p.name = "" THEN p.id ELSE p.name
ProfileGroupName(ps, i) ==
  LET n == Cardinality({j \in 1..(i - 1) : Title(ps[j]) = Title(ps[i])})
  IN IF n = 0 THEN Title(ps[i]) ELSE Title(ps[i]) \o " " \o ToString(n + 1)

\* appendUniqueGroups, and the users and rules: the first of a name counts.
FirstOfName(list) ==
  {e[2] : e \in {d \in list : \A o \in list : o[2].name = d[2].name => d[1] <= o[1]}}

\* Where the session routes, sorted by id, have this one.
Place(id) == CHOOSE k \in DOMAIN SessionOrder : SessionOrder[k] = id

IsList(s) == Len(s) \in Nat /\ DOMAIN s = 1..Len(s)

\* What the settings' validation and the cleaning of ids ensure, and that two
\* names of the same beginning are the same only if the rest is.
ASSUME RenderingAssumption ==
  /\ IsList(SessionOrder)
  /\ \A j, k \in DOMAIN SessionOrder : SessionOrder[j] = SessionOrder[k] => j = k
  /\ \A s \in SessionRoutes :
       /\ \E k \in DOMAIN SessionOrder : SessionOrder[k] = s.id
       /\ IsList(s.nodes) /\ \A k \in DOMAIN s.nodes : SessionProxyName(s, k) # ""
       /\ \A t \in SessionRoutes :
            "bvf-session-" \o Safe[s.id] = "bvf-session-" \o Safe[t.id] => Safe[s.id] = Safe[t.id]
  /\ \A ns \in NodeFiles :
       /\ IsList(ns.fixed) /\ \A i \in DOMAIN ns.fixed : ns.fixed[i].name # ""
       /\ IsList(ns.subs)
  /\ \A b \in SettingsFiles :
       /\ IsList(b.profiles) /\ IsList(b.users) /\ IsList(b.pool)
       /\ \A i \in DOMAIN b.profiles :
            /\ b.profiles[i].line \in {"direct", "node"}
            /\ b.profiles[i].exit \in {"direct", "static", "dynamic"}
            /\ b.profiles[i].exit = "static" => b.profiles[i].line = "direct"
            /\ LineGroupName(b.profiles[i].id) # ""
       /\ \A i, j \in DOMAIN b.users : b.users[i].name = b.users[j].name => i = j
       /\ \A i \in DOMAIN b.pool : Safe[b.pool[i].id] # ""

-----------------------------------------------------------------------------
(* Proxies and groups.                                                    *)

Proxy(name, via, dialer) == [name |-> name, via |-> via, dialer |-> dialer]
Group(name, members) == [name |-> name, members |-> members, use |-> {}]
\* A group of the nodes of a subscription whose name is exactly this one.
Filtered(name, target) == [name |-> name, members |-> {}, use |-> {target}]

SessionProxies(s) ==
  {<<<<"session", s.id, k>>, Proxy(SessionProxyName(s, k), s.nodes[k], s.dialer)>> :
     k \in DOMAIN s.nodes}

BaseProxies(ns, pool, ss) ==
  {<<<<"fixed", i>>, Proxy(ns.fixed[i].name, ns.fixed[i].name, "")>> : i \in DOMAIN ns.fixed}
  \cup {<<<<"pool", i>>, Proxy(Safe[pool[i].id], pool[i].id, "")>> : i \in DOMAIN pool}
  \cup UNION {SessionProxies(ss[id]) : id \in DOMAIN ss}

\* What a profile's line is entered by: "" if it is direct.
LineTarget(p, ns, available) ==
  LET t == ResolveTarget(p.lineRef, ns) IN
  IF p.line = "direct" THEN ""
  ELSE IF t.node \in available THEN t.node
  ELSE IF t.resource \in Providers(ns) THEN LineGroupName(p.id) ELSE "REJECT"

HasLineGroup(p, ns, available) == LineTarget(p, ns, available) = LineGroupName(p.id)

NodesOfProvider(p, pool) ==
  {k \in DOMAIN pool : p.provider \in {"", pool[k].provider}}

OwnNodes(p, pool) ==
  {k \in DOMAIN pool : pool[k].profile = p.id /\ p.provider \in {"", pool[k].provider}}

CloneOf(p, k, pool) ==
  ClonedName(p.id, pool[k], Cardinality({j \in OwnNodes(p, pool) : j < k}))

\* Nodes of the pool are cloned to go through the line.
Clones(i, p, line, pool) ==
  {<<<<"clone", i, k>>, Proxy(CloneOf(p, k, pool), pool[k].id, line)>> :
     k \in {j \in OwnNodes(p, pool) : p.exit = "dynamic" /\ line # ""}}

\* It goes through no line: one would be an error.
StaticExit(name, t, ns, available) ==
  IF t.node \in available THEN Group(name, {t.node})
  ELSE IF t.resource \in Providers(ns) THEN Filtered(name, t) ELSE Group(name, {"REJECT"})

\* Without a node there is no exit; nobody falls back to a direct one.
DynamicExit(name, p, line, pool) ==
  Group(name, IF OwnNodes(p, pool) = {} THEN {"REJECT"}
              ELSE {IF line = "" THEN Safe[pool[k].id] ELSE CloneOf(p, k, pool) :
                      k \in OwnNodes(p, pool)})

ExitGroup(name, p, ns, available, pool) ==
  LET line == LineTarget(p, ns, available) IN
  CASE p.exit = "direct"  -> Group(name, {IF line = "" THEN "DIRECT" ELSE line})
    [] p.exit = "static"  -> StaticExit(name, ResolveTarget(p.exitRef, ns), ns, available)
    [] p.exit = "dynamic" -> DynamicExit(name, p, line, pool)

-----------------------------------------------------------------------------
(* Users, rules, and the whole.                                           *)

UserTarget(u, ps) ==
  LET of == {i \in DOMAIN ps : ps[i].id = u.profile} IN
  IF u.route = "direct" THEN "DIRECT"
  ELSE IF of # {} THEN ProfileGroupName(ps, FirstOf(of)) ELSE InternalName(u.profile)

\* A user comes before a session of its name.
Authentication(users, ss) == FirstOfName(
  {<<i, [name |-> users[i].name, password |-> users[i].password]>> : i \in DOMAIN users}
  \cup {<<Len(users) + Place(id), [name |-> ss[id].user, password |-> ss[id].password]>> :
          id \in DOMAIN ss})

\* A session comes before a user of its name.
RuleList(users, ss, ps) ==
  {<<Place(id), [name |-> ss[id].user, target |-> SessionGroupName(ss[id])]>> : id \in DOMAIN ss}
  \cup {<<Len(SessionOrder) + i, [name |-> users[i].name, target |-> UserTarget(users[i], ps)]>> :
          i \in DOMAIN users}

UserRules(users, ss, ps) == FirstOfName(RuleList(users, ss, ps))

SessionGroup(s) == Group(SessionGroupName(s), {SessionProxyName(s, k) : k \in DOMAIN s.nodes})

\* What the settings make: for each profile the group of its line, if it needs
\* one, and then that of its exit.
ProfileGroups(ns, b, available) ==
  LET ps == b.profiles IN
  {<<0, Group("GLOBAL", {"REJECT"})>>}
  \cup {<<2 * i - 1, Filtered(LineGroupName(ps[i].id), ResolveTarget(ps[i].lineRef, ns))>> :
          i \in {j \in DOMAIN ps : HasLineGroup(ps[j], ns, available)}}
  \cup {<<2 * i, ExitGroup(ProfileGroupName(ps, i), ps[i], ns, available, b.pool)>> :
          i \in DOMAIN ps}

SessionGroups(b, ss) ==
  {<<2 * Len(b.profiles) + Place(id), SessionGroup(ss[id])>> : id \in DOMAIN ss}

BaseNames(ns, b, ss) == NamesIn(BaseProxies(ns, b.pool, ss))

GroupList(ns, b, ss) == ProfileGroups(ns, b, BaseNames(ns, b, ss)) \cup SessionGroups(b, ss)

ClonesOf(ns, b, available) ==
  UNION {Clones(i, b.profiles[i], LineTarget(b.profiles[i], ns, available), b.pool) :
           i \in DOMAIN b.profiles}

Rendered(ns, b, ss) ==
  [proxies |-> BaseProxies(ns, b.pool, ss) \cup ClonesOf(ns, b, BaseNames(ns, b, ss)),
   providers |-> Providers(ns),
   groups |-> FirstOfName(GroupList(ns, b, ss)),
   auth  |-> Authentication(b.users, ss),
   rules |-> UserRules(b.users, ss, b.profiles)]

\* A node whose address is not a proxy's cannot be rendered.
Renderable(b, ss) ==
  /\ \A i \in DOMAIN b.pool : b.pool[i].id \notin BadNode
  /\ \A id \in DOMAIN ss : \A k \in DOMAIN ss[id].nodes : ss[id].nodes[k] \notin BadNode

\* Mihomo (external) takes a configuration in which no name is there twice and
\* every name that is referred to is there; the dialer of a proxy is looked
\* up only when it is used.
BuiltIn == {"DIRECT", "REJECT"}
GroupNames(c) == {g.name : g \in c.groups}
Known(c) == BuiltIn \cup NamesIn(c.proxies) \cup GroupNames(c)

Accepts(c) ==
  /\ \A d, e \in c.proxies : d[2].name = e[2].name => d = e
  /\ NamesIn(c.proxies) \cap (BuiltIn \cup GroupNames(c)) = {} /\ GroupNames(c) \cap BuiltIn = {}
  /\ \A r \in c.rules : r.target \in Known(c)
  /\ \A g \in c.groups :
       /\ g.members \subseteq Known(c) \ {g.name}
       /\ \A t \in g.use : t.resource \in c.providers

-----------------------------------------------------------------------------
(* What changes it.                                                       *)

NoSettings == [profiles |-> <<>>, users |-> <<>>, pool |-> <<>>]

RenderInit ==
  /\ saved \in NodeFiles /\ nodes = saved /\ stored \in SettingsFiles
  /\ base = NoSettings /\ sessions = <<>>
  /\ config = Rendered(nodes, NoSettings, <<>>) /\ shown = nodes
  /\ asked = {} /\ waiting = {}

\* A configuration that is not rendered or not taken leaves all as it was.
Reconcile(b, ss) ==
  LET c == Rendered(nodes, b, ss) IN
  IF Renderable(b, ss) /\ Accepts(c)
  THEN base' = b /\ sessions' = ss /\ config' = c /\ shown' = nodes
  ELSE UNCHANGED <<base, sessions, config, shown>>

\* Updates are stored first and applied later.
SaveNodes ==
  /\ saved' \in NodeFiles \ {saved}
  /\ UNCHANGED <<nodes, stored, base, sessions, config, attempts, shown>>
WriteNodes ==
  /\ nodes' = saved
  /\ UNCHANGED <<saved, stored, base, sessions, config, attempts, shown>>
StoreSettings ==
  /\ stored' \in SettingsFiles \ {stored}
  /\ UNCHANGED <<saved, nodes, base, sessions, config, attempts, shown>>
ApplySettings == Reconcile(stored, sessions) /\ UNCHANGED <<saved, nodes, stored, attempts>>

\* The line of a lease (runtime_lease_line.go) is resolved with the node's id
\* and its leaf as further names of a fixed proxy; it is an error if there is
\* none.
LeaseLine(b, id) ==
  {p \in {b.profiles[i] : i \in DOMAIN b.profiles} :
     p.id = id /\ p.exit = "dynamic" /\ p.line = "node"}

NodeId(ref) == IF ref.of = "" THEN ref.leaf ELSE ref.of \o "/" \o ref.leaf

ExitAsDialer(p) == InternalName(p.id)
LineDialer(p) == LineGroupName(p.id)

\* The subscriptions one of these names is the name or id of.
SubsOf(names, ns) == {i \in DOMAIN ns.subs : {ns.subs[i].id, ns.subs[i].name} \cap names # {}}

DialersOf(p, ns) ==
  LET ref     == p.lineRef
      names   == <<ref.resource, NodeId(ref), LeafName(ref, {ref.resource})>>
      hits(k) == {i \in DOMAIN ns.fixed : names[k] \in {ns.fixed[i].id, ns.fixed[i].name}}
      found   == {k \in DOMAIN names : hits(k) # {}}
  IN IF found # {} THEN {ns.fixed[i].name : i \in hits(FirstOf(found))}
     ELSE {LineDialer(p) : i \in SubsOf({ref.resource, ref.of}, ns)}

DialersIn(b, id, ns) ==
  IF LeaseLine(b, id) = {} THEN {""} ELSE UNION {DialersOf(p, ns) : p \in LeaseLine(b, id)}

Routed(s, dialer) ==
  [id |-> s.id, user |-> s.user, password |-> s.password, nodes |-> s.nodes,
   profile |-> s.profile, dialer |-> dialer]

\* A request or a restore loads the settings, then resolves the line of its
\* profile from the nodes stored by then, and waits for the lock of the
\* listeners.
LoadForLease(id) ==
  /\ Cardinality(asked) + Cardinality(waiting) < MaxLeasing
  /\ asked' = asked \cup {[profile |-> id, by |-> stored]}
  /\ UNCHANGED <<saved, nodes, stored, base, sessions, config, waiting, shown>>

ResolveLine(a) ==
  /\ \E dialer \in DialersIn(a.by, a.profile, saved) :
       waiting' = waiting \cup {[profile |-> a.profile, by |-> a.by, from |-> saved, dialer |-> dialer]}
  /\ asked' = asked \ {a}
  /\ UNCHANGED <<saved, nodes, stored, base, sessions, config, shown>>

\* With the lock the route of its session is put, with the line as it was
\* resolved.
UpsertRoute(w, s) ==
  /\ s.profile = w.profile
  /\ Reconcile(base, [id \in DOMAIN sessions \cup {s.id} |->
                        IF id = s.id THEN Routed(s, w.dialer) ELSE sessions[id]])
  /\ waiting' = waiting \ {w}
  /\ UNCHANGED <<saved, nodes, stored, asked>>

\* There is no line, or no lock, session or listener.
AttemptFails ==
  /\ \/ \E a \in asked : asked' = asked \ {a} /\ UNCHANGED waiting
     \/ \E w \in waiting : waiting' = waiting \ {w} /\ UNCHANGED asked
  /\ UNCHANGED <<saved, nodes, stored, base, sessions, config, shown>>

DeleteRoute(id) ==
  /\ id \in DOMAIN sessions
  /\ Reconcile(base, [x \in DOMAIN sessions \ {id} |-> sessions[x]])
  /\ UNCHANGED <<saved, nodes, stored, attempts>>

RenderNext ==
  \/ SaveNodes \/ WriteNodes \/ StoreSettings \/ ApplySettings
  \/ \E s \in SessionRoutes : LoadForLease(s.profile)
  \/ \E a \in asked : ResolveLine(a)
  \/ \E w \in waiting, s \in SessionRoutes : UpsertRoute(w, s)
  \/ AttemptFails
  \/ \E k \in DOMAIN SessionOrder : DeleteRoute(SessionOrder[k])

RenderSpec == RenderInit /\ [][RenderNext]_renderVars

-----------------------------------------------------------------------------
(* Properties.                                                            *)

NodeOf(t) == t.resource \o "/" \o t.node

\* What a name stands for: the nodes it leads to through the groups, at most
\* two of which follow each other, and what each is dialed by.
StepFrom(c, name) ==
  LET gs == {g \in c.groups : g.name = name} IN
  IF gs = {} THEN {name} ELSE UNION {g.members \cup {NodeOf(t) : t \in g.use} : g \in gs}

Step(c, names) == UNION {StepFrom(c, name) : name \in names}

Leaf(via, dialer) == [via |-> via, dialer |-> dialer]

LeafOf(c, leaf) ==
  LET ps == {e[2] : e \in {d \in c.proxies : d[2].name = leaf}} IN
  IF ps = {} THEN {Leaf(leaf, "")} ELSE {Leaf(p.via, p.dialer) : p \in ps}

Leaves(c, name) == UNION {LeafOf(c, leaf) : leaf \in Step(c, Step(c, Step(c, {name})))}

ExitsOf(c, user) == UNION {Leaves(c, r.target) : r \in {q \in c.rules : q.name = user}}

\* How a reference may be rendered: its node, or a proxy of the same name.
Named(ref) == LET t == ResolveTarget(ref, shown) IN {t.node, NodeOf(t)}

Permitted(p, leaf) ==
  \/ leaf.via = "REJECT"
  \/ p.exit = "direct" /\ p.line = "direct" /\ leaf.via = "DIRECT"
  \/ p.exit = "direct" /\ p.line = "node" /\ leaf.via \in Named(p.lineRef)
  \/ p.exit = "static" /\ leaf.via \in Named(p.exitRef)
  \/ /\ p.exit = "dynamic"
     /\ \E k \in DOMAIN base.pool : base.pool[k].id = leaf.via /\ base.pool[k].profile = p.id
     /\ IF p.line = "direct" THEN leaf.dialer = ""
        ELSE \A hop \in Leaves(config, leaf.dialer) : hop.via \in Named(p.lineRef) \cup {"REJECT"}

\* The names an i-th profile goes by are those of nothing else: no other group
\* is made with the name of its group or of its line's, no other profile has
\* its id, and a proxy of the name of a node it refers to is that node.
OwnNames(i) ==
  LET ps == base.profiles
      groups == {ProfileGroupName(ps, i), LineGroupName(ps[i].id)}
      list == GroupList(shown, base, sessions)
  IN /\ \A d, e \in list : d[2].name = e[2].name /\ d[2].name \in groups => d = e
     /\ \A j \in DOMAIN ps : ps[j].id = ps[i].id => i = j
     /\ \A ref \in {ps[i].lineRef, ps[i].exitRef} :
          LET t == ResolveTarget(ref, shown) IN
          /\ NodeOf(t) \notin Known(config)
          /\ \A e \in config.proxies : e[2].name = t.node => e[2].via = t.node

\* A user leaves only by the exit and the line of the profile it is sent to,
\* or not at all, whatever nodes are gone; except where a session bears the
\* user's name, or something else a name that the profile goes by
\* (render_egress_*.go, render_groups.go).
LeavesByOwnProfile ==
  \A u \in {base.users[k] : k \in DOMAIN base.users}, i \in DOMAIN base.profiles :
    /\ u.route = "profile" /\ base.profiles[i].id = u.profile
    /\ \A id \in DOMAIN sessions : sessions[id].user # u.name
    /\ OwnNames(i)
    => \A leaf \in ExitsOf(config, u.name) : Permitted(base.profiles[i], leaf)

\* The names made of a session's id, and those the settings make or refer to.
MadeNames(s) == {SessionGroupName(s)} \cup {SessionProxyName(s, k) : k \in DOMAIN s.nodes}
Referred ==
  {UserTarget(base.users[k], base.profiles) : k \in DOMAIN base.users}
  \cup UNION {LET p == base.profiles[i] IN
              {LineGroupName(p.id)} \cup Named(p.lineRef) \cup Named(p.exitRef) : i \in DOMAIN base.profiles}

\* Putting or removing a session route changes by what no other user leaves,
\* unless it has the same user name or, once cleaned, the same session id;
\* the settings refer to a name that is made of that id; or the nodes' file
\* has changed meanwhile (dataplane_sessions.go).
OthersKeepRoute ==
  [][LET moved == {id \in DOMAIN sessions \cup DOMAIN sessions' :
                     id \notin DOMAIN sessions \cap DOMAIN sessions' \/ sessions[id] # sessions'[id]}
         near(ss) == {ss[id].user : id \in {x \in DOMAIN ss : \E y \in moved : Safe[x] = Safe[y]}}
         made(ss) == UNION {MadeNames(ss[id]) : id \in moved \cap DOMAIN ss}
         users(c) == {r.name : r \in c.rules}
     IN moved # {} /\ nodes = shown /\ (made(sessions) \cup made(sessions')) \cap Referred = {} =>
          \A u \in users(config) \ (near(sessions) \cup near(sessions')) :
            ExitsOf(config', u) = ExitsOf(config, u)]_renderVars

\* A reference both packages resolve alike: the resource of its node id is the
\* one it names, and no proxy bears the name of its node.
Unambiguous(ref, c) ==
  /\ SubsOf({ref.of}, nodes) \subseteq NamedBy(ref, nodes.subs)
  /\ NamedBy(ref, nodes.fixed) = {} => ResolveTarget(ref, nodes).node \notin NamesIn(c.proxies)

\* The line an attempt resolved for its lease, before it waited for the lock,
\* is there in the configuration that its route brings, if what it resolved it
\* from is what that configuration is made of, whatever was stored, applied
\* and undone meanwhile, and the reference is unambiguous: two packages
\* resolve the same reference (runtime_lease_line.go, render_egress_native.go).
\* Nobody looks again after the wait (provider_account.go:68, :76): where the
\* settings or the nodes are others by then, the dialer may be gone.
LeaseLineExists ==
  [][\A w \in waiting \ waiting', id \in DOMAIN sessions' \ DOMAIN sessions :
       /\ w.by = base /\ w.from = nodes
       /\ \A p \in LeaseLine(w.by, w.profile) : Unambiguous(p.lineRef, config')
       => sessions'[id].dialer \in {""} \cup Known(config')]_renderVars
=============================================================================
