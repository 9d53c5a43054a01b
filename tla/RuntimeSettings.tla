--------------------------- MODULE RuntimeSettings ---------------------------
(***************************************************************************)
(* The settings document of the gateway (internal/app/settings and         *)
(* internal/app/kernel): what an update may contain, what the store keeps, *)
(* which secrets are written on the way, and which users' connections are  *)
(* closed afterwards.                                                      *)
(*                                                                         *)
(* A mutation loads, changes and saves the document under the mutex of the *)
(* store. The document before and after it, from which the users to        *)
(* disconnect are computed, are read outside that mutex. Mihomo's nodes,   *)
(* which profiles refer to, are in NativeSettings.                         *)
(***************************************************************************)
EXTENDS Integers, Sequences, FiniteSets

CONSTANTS
  Updater,          \* requests in progress
  SettingsRequests, \* what they ask for
  ConfigProfiles,   \* profiles named by the proxy users of the configuration
  DynamicKinds,     \* dynamic IP providers that have an adapter
  LookupKinds,      \* kinds of fraud and geo providers that have a plugin
  AnonymousKinds,   \* those that work without a key
  KeyedKinds,       \* those that take keys
  DefaultId,        \* DefaultId[kind] = the id of a provider that gives none
  NumberedId,       \* NumberedId[i] = the id of an i-th rule without id and user:
                    \* its display name, or made of its number
  SessionOf,        \* SessionOf[user] = "x" of a user "name-session-x", or ""
  NoUpdate

\* What messages and documents are made of.
Family == {"fraud", "geo"}
ProfileFields == {"id", "enabled", "line", "lineRef", "exit", "exitRef", "provider",
                  "endpoint", "sticky", "session"}
Profiled(ps) == \A i \in DOMAIN ps : DOMAIN ps[i] = ProfileFields

ASSUME SettingsAssumption ==
  /\ NoUpdate \notin SettingsRequests
  /\ \A r \in SettingsRequests :
       /\ r.api \in {"all", "profiles", "rules", "inUser", "dynamic"} /\ Profiled(r.profiles)
       /\ \A f \in Family : Len(r.keys[f]) \in Nat /\ DOMAIN r.keys[f] = 1..Len(r.keys[f])

VARIABLES
  doc,       \* the stored document
  secrets,   \* the secret store: a function of secret ids
  upd        \* upd[u]: where an update is, what it read and asks for

settingsVars == <<doc, secrets, upd>>

Items(s) == {s[i] : i \in DOMAIN s}
Distinct(s, key(_)) == \A i, j \in DOMAIN s : key(s[i]) = key(s[j]) => i = j
NoToken == <<>>

EmptyDoc == [
  edge     |-> [enabled |-> FALSE, url |-> "", token |-> NoToken],
  keys     |-> [f \in Family |-> <<>>],
  dynamic  |-> <<>>,
  profiles |-> <<>>,
  rules    |-> <<>>]

-----------------------------------------------------------------------------
(* Dynamic IP providers.                                                  *)

NormalProvider(p) == [p EXCEPT !.id = IF @ = "" THEN p.provider ELSE @]
NormalProviders(ps) == [i \in DOMAIN ps |-> NormalProvider(ps[i])]

ProvidersOK(ps) ==
  /\ \A p \in Items(ps) :
       /\ p.id # "" /\ p.provider \in DynamicKinds
       /\ "" \notin Items(p.endpoints)
       /\ Distinct(p.endpoints, LAMBDA e : e)
  /\ Distinct(ps, LAMBDA p : p.id)

-----------------------------------------------------------------------------
(* Egress profiles: a line to leave by and an exit behind it.             *)

NormalProfile(p) == [p EXCEPT !.line = IF @ = "" THEN "direct" ELSE @]
NormalProfiles(ps) == [i \in DOMAIN ps |-> NormalProfile(ps[i])]

\* A reference names a resource, by id or by name, and a node of it: the
\* resource itself, or a leaf of a subscription.
RefOK(ref, resources) == ref.of # "" /\ ref.resource \in resources \ {""}

LineOK(p, resources) ==
  p.line = "direct" \/ (p.line = "node" /\ RefOK(p.lineRef, resources))

\* A static exit needs a direct line: nodes of Mihomo are not cloned. An
\* endpoint needs its provider, and both must be in the same document.
ExitOK(p, resources, dynamic) ==
  \/ p.exit = "direct"
  \/ p.exit = "static" /\ RefOK(p.exitRef, resources) /\ p.line # "node"
  \/ /\ p.exit = "dynamic"
     /\ \/ p.provider = "" /\ p.endpoint = ""
        \/ \E d \in Items(dynamic) :
             d.id = p.provider /\ p.endpoint \in {""} \cup Items(d.endpoints)

ProfilesOK(ps, resources, dynamic) ==
  /\ \A p \in Items(ps) : p.id # "" /\ LineOK(p, resources) /\ ExitOK(p, resources, dynamic)
  /\ Distinct(ps, LAMBDA p : p.id)

EnabledProfiles(ps) == {p.id : p \in {q \in Items(ps) : q.enabled}}

-----------------------------------------------------------------------------
(* Ingress rules: a user and the profile it is sent to.                   *)

NormalRules(rs) ==
  [i \in DOMAIN rs |-> [rs[i] EXCEPT !.id =
     IF @ # "" THEN @ ELSE IF rs[i].user # "" THEN rs[i].user ELSE NumberedId[i]]]

RulesOK(rs, ps) ==
  /\ \A r \in Items(rs) : r.enabled => r.user # "" /\ r.profile \in EnabledProfiles(ps)
  /\ Distinct(rs, LAMBDA r : r.id)
  /\ \A i, j \in DOMAIN rs : rs[i].user = rs[j].user => i = j \/ rs[i].user = ""

NoneOmitted(old, new) == {r.id : r \in Items(old)} \subseteq {r.id : r \in Items(new)}

\* The session of the last rule that has one and leads to a sticky dynamic
\* profile becomes the session of that profile.
WithSessions(ps, rs) ==
  [i \in DOMAIN ps |->
     LET from == {j \in DOMAIN rs : rs[j].profile = ps[i].id /\ SessionOf[rs[j].user] # ""}
     IN IF ps[i].exit = "dynamic" /\ ps[i].sticky /\ from # {}
        THEN [ps[i] EXCEPT !.session =
                SessionOf[rs[CHOOSE j \in from : \A k \in from : k <= j].user]]
        ELSE ps[i]]

-----------------------------------------------------------------------------
(* Providers of fraud and geo lookups, and their keys.                    *)

IdOf(in) == IF in.id = "" THEN DefaultId[in.kind] ELSE in.id

\* The n-th key of a provider is always kept under the same secret id.
SecretId(f, in, n) == <<f, in.kind, IdOf(in), n>>

GivenRefs(f, in) ==
  IF in.refs # {} THEN in.refs ELSE {SecretId(f, in, n) : n \in DOMAIN in.values}

StoredRefs(f, in) ==
  UNION {p.refs : p \in {q \in Items(doc.keys[f]) :
                           q.kind \in LookupKinds /\ q.kind = in.kind /\ q.id = IdOf(in)}}

RefsAsGiven(f, in) == GivenRefs(f, in)

Refs(f, in) ==
  IF GivenRefs(f, in) = {} /\ ~in.clear /\ ~in.anonymous
  THEN StoredRefs(f, in) ELSE GivenRefs(f, in)

LookupOK(f, in) ==
  /\ in.kind \in LookupKinds
  /\ in.anonymous => Refs(f, in) = {} /\ in.kind \in AnonymousKinds
  /\ ~in.anonymous /\ Refs(f, in) # {} => in.kind \in KeyedKinds

\* Where a list is refused: for a provider that is not right or comes twice.
Barred(f, ins) ==
  {i \in DOMAIN ins :
     \/ ~LookupOK(f, ins[i])
     \/ \E j \in 1..(i - 1) : ins[j].kind = ins[i].kind /\ IdOf(ins[j]) = IdOf(ins[i])}

KeysOK(f, ins) == Barred(f, ins) = {}

\* The first of them, or one past the end of the list.
Stop(f, ins) ==
  IF KeysOK(f, ins) THEN Len(ins) + 1
  ELSE CHOOSE i \in Barred(f, ins) : \A j \in Barred(f, ins) : i <= j

NoKeysWritten(f, ins) == <<>>

\* The keys of a provider are written before it is looked at any further: a
\* refused list has written those up to the provider it was refused for.
KeysWritten(f, ins) ==
  LET of(i) == IF i <= Stop(f, ins) /\ ins[i].refs = {}
               THEN {SecretId(f, ins[i], n) : n \in DOMAIN ins[i].values} ELSE {}
      last(s) == CHOOSE i \in DOMAIN ins : s \in of(i) /\ \A j \in DOMAIN ins : s \in of(j) => j <= i
  IN [s \in UNION {of(i) : i \in DOMAIN ins} |-> ins[last(s)].values[s[4]]]

StoredLookups(f, ins) ==
  [i \in DOMAIN ins |-> [kind |-> ins[i].kind, id |-> IdOf(ins[i]),
                         anonymous |-> ins[i].anonymous, refs |-> Refs(f, ins[i])]]

\* The edge canary keeps its token unless a new one is given or it is cleared.
\* (A request always speaks of it here, and gives a token and no reference.)
EdgeToken == <<"edge", "token">>

EdgeFrom(in) ==
  [enabled |-> in.enabled,
   url     |-> IF in.url = "" THEN doc.edge.url ELSE in.url,
   token   |-> IF in.token # "" THEN EdgeToken
               ELSE IF in.clear THEN NoToken ELSE doc.edge.token]

EdgeOK(edge) == edge.enabled => edge.url # ""

-----------------------------------------------------------------------------
(* An update, from the document it finds: [ok, doc, written].             *)

Over(f, g) == [x \in DOMAIN f \cup DOMAIN g |-> IF x \in DOMAIN g THEN g[x] ELSE f[x]]

\* Update: everything is replaced. The checks are made in this order, and
\* the secrets written before the one that fails stay written.
UpdateAll(r, resources) ==
  LET edge     == EdgeFrom(r.edge)
      dynamic  == NormalProviders(r.dynamic)
      profiles == NormalProfiles(r.profiles)
      rules    == NormalRules(r.rules)
      token    == [s \in {x \in {EdgeToken} : r.edge.token # ""} |-> r.edge.token]
      fraud    == KeysWritten("fraud", r.keys["fraud"])
      geo      == KeysWritten("geo", r.keys["geo"])
  IN [ok  |-> /\ EdgeOK(edge)
              /\ KeysOK("fraud", r.keys["fraud"]) /\ KeysOK("geo", r.keys["geo"])
              /\ ProvidersOK(dynamic) /\ ProfilesOK(profiles, resources, dynamic)
              /\ RulesOK(rules, profiles),
      doc |-> [edge |-> edge, dynamic |-> dynamic, profiles |-> profiles, rules |-> rules,
               keys |-> [f \in Family |-> StoredLookups(f, r.keys[f])]],
      written |-> IF ~EdgeOK(edge) THEN token
                  ELSE IF ~KeysOK("fraud", r.keys["fraud"]) THEN Over(token, fraud)
                  ELSE Over(Over(token, fraud), geo)]

\* The rules that stay have to fit the new profiles.
UpdateProfiles(r, resources) ==
  LET profiles == NormalProfiles(r.profiles) IN
  [ok  |-> ProfilesOK(profiles, resources, doc.dynamic) /\ RulesOK(doc.rules, profiles),
   doc |-> [doc EXCEPT !.profiles = WithSessions(profiles, doc.rules)],
   written |-> <<>>]

UpdateRulesAlone(r) ==
  LET rules == NormalRules(r.rules) IN
  [ok  |-> Distinct(rules, LAMBDA q : q.id),
   doc |-> [doc EXCEPT !.rules = rules, !.profiles = WithSessions(doc.profiles, rules)],
   written |-> <<>>]

UpdateRules(r) ==
  LET rules == NormalRules(r.rules) IN
  [ok  |-> RulesOK(rules, doc.profiles),
   doc |-> [doc EXCEPT !.rules = rules, !.profiles = WithSessions(doc.profiles, rules)],
   written |-> <<>>]

\* Profiles and rules at once; a rule may be changed but not left out.
UpdateInUser(r, resources) ==
  LET profiles == NormalProfiles(r.profiles)
      rules    == NormalRules(r.rules)
  IN [ok  |-> /\ ProfilesOK(profiles, resources, doc.dynamic) /\ RulesOK(rules, profiles)
              /\ NoneOmitted(doc.rules, rules),
      doc |-> [doc EXCEPT !.rules = rules, !.profiles = WithSessions(profiles, rules)],
      written |-> <<>>]

\* No profile is looked at: one may name a provider that is gone.
UpdateDynamic(r) ==
  LET dynamic == NormalProviders(r.dynamic) IN
  [ok |-> ProvidersOK(dynamic), doc |-> [doc EXCEPT !.dynamic = dynamic], written |-> <<>>]

Outcome(r, resources) ==
  CASE r.api = "all"      -> UpdateAll(r, resources)
    [] r.api = "profiles" -> UpdateProfiles(r, resources)
    [] r.api = "rules"    -> UpdateRules(r)
    [] r.api = "inUser"   -> UpdateInUser(r, resources)
    [] r.api = "dynamic"  -> UpdateDynamic(r)

-----------------------------------------------------------------------------
(* Users whose route an update changed.                                   *)

ProfileOf(d, id) == {p \in Items(d.profiles) : p.id = id}

RuleItselfChanged(old, new, before, after) ==
  <<old.enabled, old.user, old.password, old.profile>>
    # <<new.enabled, new.user, new.password, new.profile>>

RuleChanged(old, new, before, after) ==
  \/ RuleItselfChanged(old, new, before, after)
  \/ ProfileOf(before, new.profile) # ProfileOf(after, new.profile)

ChangedUsers(before, after) ==
  LET old == Items(before.rules)
      new == Items(after.rules)
      gone    == {r \in old : \A s \in new : s.id # r.id}
      added   == {s \in new : \A r \in old : r.id # s.id}
      changed == {q \in old \X new : q[1].id = q[2].id /\ RuleChanged(q[1], q[2], before, after)}
  IN ({r.user : r \in gone \cup added} \cup {q[1].user : q \in changed}
        \cup {q[2].user : q \in changed}) \ {""}

-----------------------------------------------------------------------------
(* The steps of an update.                                                *)

IdleUpdate == [at |-> "idle", request |-> NoUpdate, before |-> EmptyDoc,
               names |-> {}, alone |-> FALSE]

SettingsInit == upd = [u \in Updater |-> IdleUpdate]

\* The profiles that proxy users of the configuration name must stay.
ProfilesKept(r) ==
  r.api \in {"all", "profiles", "inUser"} => ConfigProfiles \subseteq EnabledProfiles(r.profiles)

\* The document is read before the change, to compare it afterwards. A failed
\* read ends the update, as does a request that drops a profile of the
\* configuration: nothing has changed, and it is as if it had not come.
BeginUpdate(u, r) ==
  /\ upd[u].at = "idle" /\ ProfilesKept(r)
  /\ upd' = [upd EXCEPT ![u] = [IdleUpdate EXCEPT
       !.at = "loaded", !.request = r, !.before = doc, !.alone = TRUE]]
  /\ UNCHANGED <<doc, secrets>>

\* The mutation, under the mutex of the store. The others in progress are not
\* alone any more.
ApplyUpdate(u, resources) ==
  LET out == Outcome(upd[u].request, resources) IN
  /\ upd[u].at = "loaded"
  /\ secrets' = Over(secrets, out.written)
  /\ doc' = IF out.ok THEN out.doc ELSE doc
  /\ upd' = [v \in Updater |->
       IF v = u THEN IF out.ok THEN [upd[u] EXCEPT !.at = "saved"] ELSE IdleUpdate
       ELSE IF out.ok /\ upd[v].at # "idle" THEN [upd[v] EXCEPT !.alone = FALSE] ELSE upd[v]]

\* A secret or the document is not saved. Secrets written before stay; an
\* error of the save itself may come after it was done.
ApplyFails(u, resources) ==
  LET out == Outcome(upd[u].request, resources) IN
  /\ upd[u].at = "loaded"
  /\ \/ /\ \E s \in SUBSET DOMAIN out.written :
             secrets' = Over(secrets, [x \in s |-> out.written[x]])
        /\ UNCHANGED doc
        /\ upd' = [upd EXCEPT ![u] = IdleUpdate]
     \/ /\ out.ok /\ doc' = out.doc /\ secrets' = Over(secrets, out.written)
        /\ upd' = [v \in Updater |-> IF v = u THEN IdleUpdate
                     ELSE IF upd[v].at # "idle" THEN [upd[v] EXCEPT !.alone = FALSE] ELSE upd[v]]

\* The document is read again and compared. Providers alone disconnect nobody.
Compare(u) ==
  /\ upd[u].at = "saved"
  /\ upd' = [upd EXCEPT ![u].at = "compared", ![u].names =
       IF upd[u].request.api = "dynamic" THEN {} ELSE ChangedUsers(upd[u].before, doc)]
  /\ UNCHANGED <<doc, secrets>>

\* If that fails, it is logged and nobody is disconnected.
CompareFails(u) ==
  /\ upd[u].at = "saved"
  /\ upd' = [upd EXCEPT ![u].at = "blind"]
  /\ UNCHANGED <<doc, secrets>>

\* The names are handed to a goroutine that closes their connections, and the
\* request is answered.
Schedule(u) ==
  /\ upd[u].at \in {"compared", "blind"}
  /\ upd' = [upd EXCEPT ![u] = IdleUpdate]
  /\ UNCHANGED <<doc, secrets>>

-----------------------------------------------------------------------------
(* Properties.                                                            *)

SettingsTypeOK ==
  /\ DOMAIN doc = DOMAIN EmptyDoc
  /\ \A u \in Updater : /\ upd[u].at \in {"idle", "loaded", "saved", "compared", "blind"}
                        /\ upd[u].request \in SettingsRequests \cup {NoUpdate}
  /\ \A f \in Family : \A p \in Items(doc.keys[f]) : p.refs \subseteq DOMAIN secrets

\* Whatever mix of updates is applied, each of which checks only what it
\* replaces, every enabled rule leads to an enabled profile and every profile
\* and user name is there once (egress_update.go, in_user.go, update.go).
Resolving(d) == RulesOK(d.rules, d.profiles) /\ Distinct(d.profiles, LAMBDA p : p.id)

RulesResolve == Resolving(doc)

\* What a user's connections go through: nothing, or a password and a profile.
RouteOf(d, user) ==
  {<<r.password, ProfileOf(d, r.profile)>> :
     r \in {s \in Items(d.rules) : s.user = user /\ s.enabled}}

\* An update nobody interferes with disconnects every user whose route it
\* changed, though rules are compared by id and not by user
\* (connection_cleanup.go, update_flow.go).
ChangedRoutesDisconnected ==
  \A u \in Updater :
    upd[u].at = "compared" /\ upd[u].alone /\ upd[u].request.api # "dynamic" =>
      \A user \in DOMAIN SessionOf \ {""} :
        RouteOf(upd[u].before, user) # RouteOf(doc, user) => user \in upd[u].names

\* What is known of the keys of a document: a provider is there once, its keys
\* are kept, and none of them is kept under a secret id of another provider.
OwnSecret(f, kind, id, s) ==
  s[1] \in Family \cup {"edge"} => s[1] = f /\ s[2] = kind /\ s[3] = id

KeysStored(d, kept) ==
  \A f \in Family :
    /\ \A i, j \in DOMAIN d.keys[f] :
         d.keys[f][i].kind = d.keys[f][j].kind /\ d.keys[f][i].id = d.keys[f][j].id => i = j
    /\ \A p \in Items(d.keys[f]) :
         /\ p.kind \in LookupKinds /\ p.refs \subseteq DOMAIN kept
         /\ \A s \in p.refs : OwnSecret(f, p.kind, p.id, s)

\* The keys a stored provider is called with.
KeysOf(f, p) == [s \in p.refs |-> secrets[s]]

\* Keys of a provider never change unless a request names that provider with
\* keys or clears them: an omitted key is kept, and the stable ids of secrets
\* keep providers apart (ip_fraud_request.go, ip_geo_request.go).
Touches(r, f, p) ==
  r.api = "all" /\ \E in \in Items(r.keys[f]) :
    /\ in.kind = p.kind /\ IdOf(in) = p.id
    /\ in.values # <<>> \/ in.refs # {} \/ in.clear \/ in.anonymous

UnnamedKeysKept ==
  [][\A f \in Family : \A p \in Items(doc.keys[f]), q \in Items(doc'.keys[f]) :
       /\ p.kind = q.kind /\ p.id = q.id
       /\ \A u \in Updater : upd[u].at = "loaded" => ~Touches(upd[u].request, f, p)
       => KeysOf(f, p) = [s \in q.refs |-> secrets'[s]]]_<<doc, secrets>>
=============================================================================
