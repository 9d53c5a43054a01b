------------------------------ MODULE LeaseTerms ------------------------------
(***************************************************************************)
(* On which terms a lease is made and comes back (internal/app/lease,      *)
(* internal/provider/accountproxy): the account a request means, the       *)
(* policy of its profile, the time of the provider session and that of the *)
(* slot it counts under, the listener's user and password, and the route   *)
(* that a restart makes again from the record and from the settings of     *)
(* that day. What may fail in between, and the locks, are LeaseLifecycle.  *)
(***************************************************************************)
EXTENDS Integers, Sequences

CONSTANTS
  TermLease,      \* lease ids
  LeaseAsks,      \* the requests: [account, purpose, mode, region, ttl, labels,
                  \* force]; labels are the values of the five labels that may
                  \* name a session, in the order of their rank
  ReleaseAsks,    \* the requests to release: [lease, account, purpose]
  TermSettings,   \* the settings documents that are saved
  GatewayPassword,  \* LocalPassword of the configuration, "" for none
  PlaygroundId, PlaygroundRule, PlaygroundUser,
  Minute,         \* the units of time in a minute
  DefaultSticky,  \* DefaultDynamicIPStickyTTL, in units
  SlotBuffer,     \* providerAccountConcurrencyTTLBuffer, in units
  MaxMinutes,     \* maxStickyMinutes
  LockPatience,   \* how long the provider lock is tried for, in units
  MaxTermClock,   \* BOUND: how far time goes
  NoTerms, NoFlow, NoRoute

ASSUME TermsAssumption ==
  /\ Minute \in Nat \ {0} /\ DefaultSticky \in Nat \ {0} /\ SlotBuffer \in Nat
  /\ MaxMinutes \in Nat \ {0} /\ LockPatience \in Nat /\ MaxTermClock \in Nat \ {0}
  /\ \A a \in LeaseAsks :
       /\ DOMAIN a = {"account", "purpose", "mode", "region", "ttl", "labels", "force"}
       /\ a.ttl \in Int

VARIABLES
  termClock,   \* now
  termsDoc,    \* the stored settings: [profiles, rules, gateways]
  flow,        \* the acquisition under way
  terms,       \* terms[l]: the ACTIVE record of a lease, or NoTerms
  slotEnds,    \* slotEnds[l]: when the slot of lease:l ends, 0 for none
  installed,   \* installed[l]: the session route of a lease
  toRestore,   \* toRestore[l]: the record the restore read at boot, or NoTerms
  mending      \* the restore at work: the lease and the settings it loaded

termVars == <<termClock, termsDoc, flow, terms, slotEnds, installed, toRestore, mending>>

TermsInit ==
  /\ termClock = 1
  /\ termsDoc \in TermSettings
  /\ flow = NoFlow
  /\ terms = [l \in TermLease |-> NoTerms]
  /\ slotEnds = [l \in TermLease |-> 0]
  /\ installed = [l \in TermLease |-> NoRoute]
  /\ toRestore = [l \in TermLease |-> NoTerms]
  /\ mending = NoFlow

-----------------------------------------------------------------------------
(* The request: its account, its policy, what it already has.             *)

\* A request without an account is refused; the purpose has a default.
PrepareAcquireRequest(a) == a.account # ""
Prepared(a) == [a EXCEPT !.purpose = IF @ = "" THEN "general" ELSE @]

\* A request of the contracts' gRPC service: the narrower place becomes the
\* region, a time makes it sticky. It names no account, so it is never served.
ContractPolicy(q) ==
  LET sticky == q.sticky \/ q.ttl > 0 IN
  [mode   |-> IF ~q.policy THEN "" ELSE IF sticky THEN "sticky" ELSE "rotating",
   region |-> IF q.state # "" THEN q.state ELSE q.country,
   ttl    |-> IF sticky THEN q.ttl ELSE 0]

ContractAsk(q) ==
  LET policy == ContractPolicy(q) IN
  [account |-> "", purpose |-> q.purpose, mode |-> policy.mode, region |-> policy.region,
   ttl |-> policy.ttl, labels |-> <<>>, force |-> FALSE]

\* The rules that satisfy Test; the code takes the first.
RulesWith(d, Test(_)) == SelectSeq(d.rules, Test)

ProfileOfId(d, id) == {p \in d.profiles : p.id = id}

\* An account that is no profile may be the user name of a rule.
TermAccount(d, name) ==
  LET rule == RulesWith(d, LAMBDA r : r.on /\ r.user = name /\ r.profile # "")
  IN IF ProfileOfId(d, name) = {} /\ rule # <<>> THEN rule[1].profile ELSE name

\* Every mode but "rotating" is sticky; a sticky policy has a time.
NormalPolicy(q) ==
  LET mode == IF q.mode = "rotating" THEN "rotating" ELSE "sticky" IN
  [mode |-> mode, region |-> q.region,
   ttl |-> IF q.ttl > 0 THEN q.ttl ELSE IF mode = "sticky" THEN DefaultSticky ELSE 0]

TermsRefused(d, account, a) ==
  \/ ProfileOfId(d, account) = {} /\ a.purpose = "in-user-profile"
  \/ \E p \in ProfileOfId(d, account) :
       ~p.on \/ ~p.dynamic \/ p.mode # "sticky" \/ NormalPolicy(a).mode # "sticky"

\* The first label that names a session does; the policy of the profile has a
\* label of the first rank, which the request's replaces.
RequestedSessionID(d, account, a) ==
  LET given == SelectSeq(a.labels, LAMBDA s : s # "")
      own   == {p.session : p \in ProfileOfId(d, account)} \ {""}
  IN IF own # {} /\ (a.labels = <<>> \/ a.labels[1] = "") THEN CHOOSE s \in own : TRUE
     ELSE IF given = <<>> THEN "" ELSE given[1]

\* The policy of the profile, for the time that is asked for.
PolicyFor(d, account, a) ==
  LET ps == ProfileOfId(d, account) IN
  IF ps = {} THEN NormalPolicy(a)
  ELSE [NormalPolicy(CHOOSE p \in ps : TRUE) EXCEPT !.ttl = NormalPolicy(a).ttl]

\* The slot outlasts the session by a buffer.
TimeOf(policy) == IF policy.ttl > 0 THEN policy.ttl ELSE DefaultSticky
SlotTTLBare(policy) == TimeOf(policy)
SlotTTL(policy) == TimeOf(policy) + SlotBuffer

\* The provider session counts in minutes, rounded up and clamped.
SessionMinutes(policy) ==
  LET ceil == (TimeOf(policy) + Minute - 1) \div Minute
  IN IF ceil > MaxMinutes THEN MaxMinutes ELSE ceil

\* The leases a request would reuse or replace.
Held(account, a) ==
  {l \in TermLease : /\ terms[l] # NoTerms /\ terms[l].ends > termClock
                     /\ terms[l].account = account /\ terms[l].purpose = a.purpose
                     /\ RequestedSessionID(termsDoc, account, a) \in {"", terms[l].session.id}}

Replaced(l, account, a) ==
  a.force \/ (account = PlaygroundId /\ terms[l].listener.user # PlaygroundUser)

-----------------------------------------------------------------------------
(* The listener and the route.                                            *)

PlaygroundRuleOf(d, account) ==
  IF account # PlaygroundId THEN <<>>
  ELSE RulesWith(d, LAMBDA r : r.id = PlaygroundRule \/ r.user = PlaygroundUser)

\* The password of the gateway, else that of the profile's first rule that
\* has one; the playground's own comes first.
ListenerPassword(d, account) ==
  LET own   == PlaygroundRuleOf(d, account)
      rule  == RulesWith(d, LAMBDA r : r.on /\ r.profile = account /\ r.pass # "")
      other == IF GatewayPassword # "" THEN GatewayPassword
               ELSE IF rule # <<>> THEN rule[1].pass ELSE ""
  IN IF own # <<>> /\ own[1].pass # "" THEN own[1].pass ELSE other

\* Elsewhere the user is named after the lease.
ListenerOf(d, account) ==
  LET own == PlaygroundRuleOf(d, account)
  IN [user |-> IF own # <<>> THEN own[1].user ELSE "acct", pass |-> ListenerPassword(d, account)]

\* The user name the provider is called with carries the session when it is
\* sticky; the node is the gateway's.
UpstreamUser(session) ==
  IF session.mode = "rotating" THEN <<session.region>>
  ELSE <<session.region, session.id, session.minutes>>

RouteFrom(listener, session, gateway) ==
  [listener |-> listener, id |-> session.id, upstream |-> UpstreamUser(session),
   gateway |-> gateway]

\* The gateways a recorded lease is restored through: the first of its plan's
\* id, or all of them when the settings no longer have it.
Foremost(I) == {i \in I : \A j \in I : i <= j}
AnyGateway(d, plan) == DOMAIN d.gateways
PlanGateways(d, plan) ==
  LET same == {i \in DOMAIN d.gateways : d.gateways[i].id = plan}
  IN IF same # {} THEN Foremost(same) ELSE DOMAIN d.gateways

-----------------------------------------------------------------------------
(* Acquisition.                                                           *)

Unused(l) == terms[l] = NoTerms /\ installed[l] = NoRoute /\ toRestore[l] = NoTerms

Forget(l) ==
  /\ terms' = [terms EXCEPT ![l] = NoTerms]
  /\ slotEnds' = [slotEnds EXCEPT ![l] = 0]
  /\ installed' = [installed EXCEPT ![l] = NoRoute]

\* A lease that is there is reused and its slot refreshed, which may fail, or
\* retired and replaced.
StartTerms(asked) ==
  /\ flow = NoFlow /\ PrepareAcquireRequest(asked)
  /\ LET a == Prepared(asked)
         account == TermAccount(termsDoc, a.account)
         held == Held(account, a)
         begin == flow' = [at |-> "select", ask |-> a, account |-> account, doc |-> termsDoc,
                           policy |-> PolicyFor(termsDoc, account, a)]
     IN /\ ~TermsRefused(termsDoc, account, a)
        /\ \/ \E l \in held :
                /\ ~Replaced(l, account, a)
                /\ \E end \in {slotEnds[l], termClock + SlotTTL(terms[l].session)} :
                     slotEnds' = [slotEnds EXCEPT ![l] = end]
                /\ UNCHANGED <<flow, terms, installed>>
           \/ \E l \in held : Replaced(l, account, a) /\ Forget(l) /\ begin
           \/ held = {} /\ begin /\ UNCHANGED <<terms, slotEnds, installed>>
  /\ UNCHANGED <<termClock, termsDoc, toRestore, mending>>

\* The selection loads the settings anew; the slot is taken before the lock of
\* the provider account is waited for.
SelectTerms ==
  /\ flow # NoFlow /\ flow.at = "select"
  /\ \E l \in TermLease, i \in DOMAIN termsDoc.gateways :
       /\ Unused(l) /\ termsDoc.gateways[i].url # ""
       /\ flow' = [at |-> "wait", ask |-> flow.ask, account |-> flow.account, doc |-> flow.doc,
                   policy |-> flow.policy, lease |-> l, gateway |-> termsDoc.gateways[i],
                   since |-> termClock]
       /\ slotEnds' = [slotEnds EXCEPT ![l] = termClock + SlotTTL(flow.policy)]
  /\ UNCHANGED <<termClock, termsDoc, terms, installed, toRestore, mending>>

\* "new" is a session id drawn at random.
OpenSession ==
  /\ flow # NoFlow /\ flow.at = "wait"
  /\ LET minutes == SessionMinutes(flow.policy)
         named   == RequestedSessionID(flow.doc, flow.account, flow.ask)
     IN flow' = [at |-> "open", ask |-> flow.ask, account |-> flow.account, doc |-> flow.doc,
              policy |-> flow.policy, lease |-> flow.lease, gateway |-> flow.gateway,
              waited |-> termClock - flow.since, ends |-> termClock + minutes * Minute,
              session |-> [id |-> IF named # "" THEN named ELSE "new",
                           mode |-> flow.policy.mode, region |-> flow.policy.region,
                           minutes |-> minutes, ttl |-> minutes * Minute]]
  /\ UNCHANGED <<termClock, termsDoc, terms, slotEnds, installed, toRestore, mending>>

\* The acquisition is given up, or tried again with another selection: the
\* slot is given back.
GiveUp ==
  /\ flow # NoFlow
  /\ slotEnds' = IF flow.at = "select" THEN slotEnds ELSE [slotEnds EXCEPT ![flow.lease] = 0]
  /\ flow' \in {NoFlow, [at |-> "select", ask |-> flow.ask, account |-> flow.account,
                         doc |-> flow.doc, policy |-> flow.policy]}
  /\ UNCHANGED <<termClock, termsDoc, terms, installed, toRestore, mending>>

\* Without a password there is no listener.
ApplyTerms ==
  /\ flow # NoFlow /\ flow.at = "open"
  /\ LET l == flow.lease
         listener == ListenerOf(flow.doc, flow.account)
         made == RouteFrom(listener, flow.session, flow.gateway)
     IN /\ listener.pass # ""
        /\ installed' = [installed EXCEPT ![l] = made]
        /\ terms' = [terms EXCEPT ![l] =
             [account |-> flow.account, purpose |-> flow.ask.purpose, session |-> flow.session,
              listener |-> listener, plan |-> flow.gateway.id, ends |-> flow.ends,
              made |-> made, waited |-> flow.waited]]   \* HISTORY: made, waited
  /\ flow' = NoFlow
  /\ UNCHANGED <<termClock, termsDoc, slotEnds, toRestore, mending>>

\* A release names the lease, and what else it says must be true of it; or it
\* names the account, whose lease in its time comes before one that is over.
LeaseToRelease(r) ==
  LET meant(l) == /\ terms[l] # NoTerms
                  /\ r.account \in {"", terms[l].account}
                  /\ r.purpose \in {"", terms[l].purpose}
      of  == {l \in TermLease : meant(l)}
      now == {l \in of : terms[l].ends > termClock}
  IN IF r.lease # "" THEN of \cap {r.lease}
     ELSE IF r.account = "" THEN {} ELSE IF now # {} THEN now ELSE of

\* The id of a lease that is retired counts as unused again (BOUND).
ReleaseTerms(r) ==
  /\ \E l \in LeaseToRelease(r) : Forget(l)
  /\ UNCHANGED <<termClock, termsDoc, flow, toRestore, mending>>

ExpireTerms(l) ==
  /\ terms[l] # NoTerms /\ terms[l].ends <= termClock /\ Forget(l)
  /\ UNCHANGED <<termClock, termsDoc, flow, toRestore, mending>>

-----------------------------------------------------------------------------
(* A restart and the restore.                                             *)

RestartTerms ==
  /\ \E l \in TermLease : terms[l] # NoTerms
  /\ flow' = NoFlow /\ mending' = NoFlow
  /\ installed' = [l \in TermLease |-> NoRoute]
  /\ toRestore' = [l \in TermLease |->
       IF terms[l] # NoTerms /\ terms[l].ends > termClock THEN terms[l] ELSE NoTerms]
  /\ UNCHANGED <<termClock, termsDoc, terms, slotEnds>>

\* The settings are loaded once for a lease, and its slot is taken again from
\* now on; it may be refused.
BeginRestore(l) ==
  /\ mending = NoFlow /\ toRestore[l] # NoTerms
  /\ \/ /\ mending' = [lease |-> l, doc |-> termsDoc]
        /\ slotEnds' = [slotEnds EXCEPT ![l] = termClock + SlotTTL(toRestore[l].session)]
        /\ UNCHANGED toRestore
     \/ /\ toRestore' = [toRestore EXCEPT ![l] = NoTerms]
        /\ UNCHANGED <<mending, slotEnds>>
  /\ UNCHANGED <<termClock, termsDoc, flow, terms, installed>>

\* The first gateway with an address serves it; with none the slot goes back.
InstallRestored ==
  /\ mending # NoFlow
  /\ LET l == mending.lease
         from == toRestore[l]
         gateways == mending.doc.gateways
         usable == {i \in PlanGateways(mending.doc, from.plan) : gateways[i].url # ""}
     IN /\ toRestore' = [toRestore EXCEPT ![l] = NoTerms]
        /\ \/ \E i \in Foremost(usable) :
                /\ installed' = [installed EXCEPT ![l] =
                     RouteFrom(from.listener, from.session, gateways[i])]
                /\ UNCHANGED slotEnds
           \/ /\ usable = {}
              /\ slotEnds' = [slotEnds EXCEPT ![l] = 0]
              /\ UNCHANGED installed
  /\ mending' = NoFlow
  /\ UNCHANGED <<termClock, termsDoc, flow, terms>>

SaveTerms(d) ==
  /\ d # termsDoc /\ termsDoc' = d
  /\ UNCHANGED <<termClock, flow, terms, slotEnds, installed, toRestore, mending>>

\* The lock of the provider account is not tried for longer than its patience.
PassTerms ==
  /\ termClock < MaxTermClock /\ termClock' = termClock + 1
  /\ ~(flow # NoFlow /\ flow.at = "wait" /\ termClock - flow.since >= LockPatience)
  /\ UNCHANGED <<termsDoc, flow, terms, slotEnds, installed, toRestore, mending>>

TermsNext ==
  \/ \E a \in LeaseAsks : StartTerms(a)
  \/ SelectTerms \/ OpenSession \/ GiveUp \/ ApplyTerms
  \/ \E r \in ReleaseAsks : ReleaseTerms(r)
  \/ \E l \in TermLease : ExpireTerms(l) \/ BeginRestore(l)
  \/ RestartTerms \/ InstallRestored
  \/ \E d \in TermSettings : SaveTerms(d)
  \/ PassTerms

TermsSpec == TermsInit /\ [][TermsNext]_termVars

-----------------------------------------------------------------------------
(* Properties.                                                            *)

TermsTypeOK ==
  /\ termClock \in 1..MaxTermClock /\ termsDoc \in TermSettings
  /\ flow # NoFlow => flow.at \in {"select", "wait", "open"} /\ flow.ask \in {Prepared(a) : a \in LeaseAsks}
  /\ \A l \in TermLease : terms[l] # NoTerms => /\ terms[l].session.minutes \in 1..MaxMinutes
                                                /\ terms[l].listener.pass # ""
  /\ slotEnds \in [TermLease -> Nat]
  /\ mending # NoFlow => toRestore[mending.lease] # NoTerms

\* A lease that is served keeps its slot until its session ends, though the
\* slot is taken before the provider's lock is waited for, the session after
\* it, and the session's minutes are rounded up: as long as the wait leaves
\* the rounding its part of the buffer (acquire_attempt.go:197-229,
\* concurrency.go:43). The lock is waited for up to two minutes, which is all
\* of the buffer, so a longer wait does end a slot early.
SlotCoversLease ==
  \A l \in TermLease :
    /\ terms[l] # NoTerms /\ installed[l] # NoRoute
    /\ terms[l].waited + Minute - 1 <= SlotBuffer
    => slotEnds[l] >= terms[l].ends

\* A lease comes back after a restart as it was made, whatever was saved
\* meanwhile: with the same user and password, the same session at the
\* provider, and the same gateway unless the settings have lost that or its
\* address (restore.go, session_route_proto.go, dynamic/helpers.go).
RestoredAsAcquired ==
  [][\A l \in TermLease :
       terms[l] # NoTerms /\ installed[l] = NoRoute /\ installed'[l] # NoRoute =>
         LET made == terms[l].made
             gateways == mending.doc.gateways
         IN /\ [installed'[l] EXCEPT !.gateway = made.gateway] = made
            /\ (\E i \in DOMAIN gateways : gateways[i].id = made.gateway.id)
                 => installed'[l].gateway.id = made.gateway.id]_termVars
=============================================================================
