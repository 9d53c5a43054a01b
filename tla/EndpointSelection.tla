-------------------------- MODULE EndpointSelection --------------------------
(***************************************************************************)
(* How an endpoint of a dynamic IP provider is chosen                      *)
(* (internal/app/dynamic) and used: by the attempts of one lease           *)
(* acquisition (RunAcquireAttempts) and by the pool of an egress profile   *)
(* (runtime_dynamic_profile.go). Both compete with other users for the     *)
(* slots of the provider accounts.                                         *)
(*                                                                         *)
(* A candidate is an endpoint under a provider account. Candidates are     *)
(* scored by region and by the recent leases on the endpoint; the key of   *)
(* the request picks the account, then one of its best endpoints; later    *)
(* attempts go round both. Where an endpoint is, is in EndpointRegions;    *)
(* the hash of a key is an input.                                          *)
(***************************************************************************)
EXTENDS EndpointRegions

CONSTANTS
  AccountList,   \* the provider accounts, in the order of the store
  InstanceList,  \* the dynamic providers of the settings, in their order
  Supported,     \* the provider ids that have an adapter
  Requests,      \* what callers ask for
  Profile,       \* an egress profile with a dynamic IP exit
  ProfileAsks,   \* and what its policy asks for
  Lease, Other,  \* the lease being acquired; everybody else
  ProbeHolder,   \* who asks for a lease that has no id yet: it holds no slot
  HashOf,        \* HashOf[a] = hash of a request's key with account a
  NoRequest, NoPick, AnyEndpoint,
  MaxFacts       \* BOUND: lease records of an endpoint in the window

AccountIds == {AccountList[i].id : i \in DOMAIN AccountList}
Endpoints  == UNION {{p.endpoints[n] : n \in DOMAIN p.endpoints} :
                       p \in {InstanceList[j] : j \in DOMAIN InstanceList}}
Wildcards  == {"ANY", "GLOBAL", "*"}
PoolHolder == {Lease, Profile, Other}

RequestFields == {"country", "region", "mode", "instance", "endpoint", "seed", "max"}

\* Accounts are kept by their id. Priorities tell candidates apart as long as
\* there are no more instances, and endpoints of one, than their digits hold.
ASSUME SelectionAssumption ==
  /\ Len(AccountList) \in Nat /\ DOMAIN AccountList = 1..Len(AccountList)
  /\ \A i, k \in DOMAIN AccountList : AccountList[i].id = AccountList[k].id => i = k
  /\ DOMAIN InstanceList \subseteq 1..100
  /\ \A j \in DOMAIN InstanceList : DOMAIN InstanceList[j].endpoints \subseteq 1..100
  /\ \A a \in AccountIds : HashOf[a] \in Nat
  /\ \A r \in Requests : DOMAIN r = RequestFields /\ r.seed \in Nat /\ r.max \in Nat
  /\ ProbeHolder \notin PoolHolder
  /\ MaxFacts \in Nat

VARIABLES
  held,      \* held[a] = who holds a slot of account a
  facts,     \* facts[e] = lease records of the last hours: succeeded, failed
  stage,     \* of the acquisition: idle, selecting, chosen, granted, failed
  ask,       \* what it asks for; ask.endpoint is the label a session leaves
  attempt,   \* the number of the attempt
  pick,      \* the candidate chosen last, or NoPick
  offered,   \* HISTORY: the candidates in scope at the last selection
  visited,   \* HISTORY: accounts chosen since the candidates last changed
  rounds     \* HISTORY: and how many selections that was

acquire   == <<stage, ask, attempt, pick>>
history   == <<offered, visited, rounds>>
selection == <<held, facts, stage, ask, attempt, pick, offered, visited, rounds>>

Slots == INSTANCE SlotPool WITH
  Key <- AccountIds, Holder <- PoolHolder, MaxLimit <- 2, held <- held

-----------------------------------------------------------------------------
(* Scores.                                                                *)

MinOf(x, y) == IF x <= y THEN x ELSE y

RegionAsked(r) == r.country # "" \/ r.region # ""

\* The points one code earns: a region's code is taken for a country's first.
Points(code, r, fallback) ==
  LET continent == CountryRegionCode(r.country) IN
  IF code = r.region THEN 700
  ELSE IF r.country # "" /\ NormalizeCountry(code) = r.country THEN 600
  ELSE IF continent # "" /\ CountryRegionCode(code) = continent THEN 450
  ELSE IF continent # "" /\ NormalizeRegion(code) = continent THEN 350
  ELSE IF fallback /\ code \in Wildcards THEN 50 ELSE 0

RegionScore(codes, r, fallback) ==
  Max({0} \cup {Points(code, r, fallback) : code \in codes})

HealthScore(e) == MinOf(20 * facts[e].ok, 120) - MinOf(150 * facts[e].bad, 450)

\* known: the recent leases could be loaded.
Score(e, codes, r, known) ==
  1000 + RegionScore(codes, r, TRUE) + IF known THEN HealthScore(e) ELSE 0

-----------------------------------------------------------------------------
(* Candidates.                                                            *)

LimitOf(p, r) == IF r.mode = "rotating" THEN p.rotating ELSE p.sticky

\* The limiter's answer for a holder, who passes with a slot of its own.
Available(a, holder, limit) == holder \in held[a] \/ Cardinality(held[a]) < limit

\* An account, or a request, may be bound to one of its provider's instances.
OfAccount(account, p, r) ==
  /\ p.provider = account.provider
  /\ account.instance \in {"", p.id}
  /\ r.instance \in {"", p.id}

Matches(account, p, r, holder) ==
  /\ account.usable /\ account.provider \in Supported
  /\ OfAccount(account, p, r)
  /\ Available(account.id, holder, LimitOf(p, r))

EndpointWanted(r, e) == r.endpoint \in {AnyEndpoint, e}

\* An account's candidate is the n-th endpoint of an instance. down: the geo
\* providers that fail meanwhile.
CandidateOf(i, j, n, r, down, known) ==
  LET e     == InstanceList[j].endpoints[n]
      codes == IF RegionAsked(r) THEN EndpointRegionCodes[e, down] ELSE {}
  IN [account  |-> AccountList[i].id,
      endpoint |-> e,
      limit    |-> LimitOf(InstanceList[j], r),
      codes    |-> codes,
      score    |-> Score(e, codes, r, known),
      priority |-> 10000 * (i - 1) + 100 * (j - 1) + n - 1]

Candidates(r, holder, down, known) ==
  UNION {
    {CandidateOf(q[1], q[2], n, r, down, known) :
        n \in {m \in DOMAIN InstanceList[q[2]].endpoints :
                 EndpointWanted(r, InstanceList[q[2]].endpoints[m])}} :
    q \in {q \in (DOMAIN AccountList) \X (DOMAIN InstanceList) :
             Matches(AccountList[q[1]], InstanceList[q[2]], r, holder)}}

Offers(r, holder) ==
  {Candidates(r, holder, down, known) : down \in SUBSET DOMAIN GeoProviders, known \in BOOLEAN}

\* If an endpoint is in the region asked for, the others are not considered.
Scoped(C, r) ==
  LET inside == {c \in C : RegionScore(c.codes, r, FALSE) > 0}
  IN IF RegionAsked(r) /\ inside # {} THEN inside ELSE C

Owners(C) == {c.account : c \in C}
Of(C, a)  == {c \in C : c.account = a}
First(C)  == CHOOSE c \in C : \A d \in C : c.priority <= d.priority

\* Accounts are ordered by the hash of the key with their id, then by their
\* first candidate; candidates by score, then by priority.
Before(a, b, C) ==
  \/ HashOf[a] < HashOf[b]
  \/ HashOf[a] = HashOf[b] /\ First(Of(C, a)).priority < First(Of(C, b)).priority

OwnerAt(C, n) ==
  CHOOSE a \in Owners(C) : Cardinality({b \in Owners(C) : Before(b, a, C)}) = n

Unranked(C) == C
TopOf(C) == {c \in C : \A d \in C : d.score <= c.score}

CandidateAt(C, n) ==
  CHOOSE c \in C : Cardinality({d \in C : d.priority < c.priority}) = n

TurnBySeed(n, seed, try) == seed % n

\* The first attempt takes what the key's hash says, a later one goes round.
Turn(n, seed, try) == IF try > 1 THEN (try - 1) % n ELSE seed % n

Choose(C, r, try) ==
  LET scoped == Scoped(C, r)
      own    == Of(scoped, OwnerAt(scoped, Turn(Cardinality(Owners(scoped)), r.seed, try)))
      best   == TopOf(own)
  IN CandidateAt(best, Turn(Cardinality(best), r.seed, try))

-----------------------------------------------------------------------------
(* The acquisition of a lease.                                            *)

\* Asked for nothing: ten attempts; never more than twenty.
MaxAttempts(r) == IF r.max = 0 THEN 10 ELSE MinOf(r.max, 20)

BeginAcquire ==
  /\ stage = "idle" /\ stage' = "selecting" /\ ask' \in Requests
  /\ UNCHANGED <<held, facts, attempt, pick, history>>

Offer(c) == [account |-> c.account, endpoint |-> c.endpoint, limit |-> c.limit]

\* SelectDynamicIPEndpoint: no candidate fails the attempt.
SelectEndpoint ==
  /\ stage = "selecting"
  /\ \E C \in Offers(ask, ProbeHolder) :
     IF C = {}
     THEN /\ stage' = "failed" /\ UNCHANGED pick
          /\ offered' = {} /\ visited' = {} /\ rounds' = 0
     ELSE /\ pick' = Offer(Choose(C, ask, attempt)) /\ stage' = "chosen"
          /\ offered' = {Offer(c) : c \in Scoped(C, ask)}
          /\ visited' = (IF offered' = offered THEN visited ELSE {}) \cup {pick'.account}
          /\ rounds' = (IF offered' = offered THEN rounds ELSE 0) + 1
  /\ UNCHANGED <<held, facts, ask, attempt>>

\* The slot is asked for again, for the new lease id.
TakeSlot ==
  /\ stage = "chosen"
  /\ \/ Slots!Take(pick.account, Lease, pick.limit) /\ stage' = "granted"
     \/ ~Available(pick.account, Lease, pick.limit) /\ stage' = "failed" /\ UNCHANGED held
  /\ UNCHANGED <<facts, ask, attempt, pick, history>>

RoomForFacts(e) == facts[e].ok + facts[e].bad < MaxFacts

\* The request is answered and gone.
Answered ==
  /\ stage' = "idle" /\ ask' = NoRequest /\ attempt' = 1 /\ pick' = NoPick
  /\ offered' = {} /\ visited' = {} /\ rounds' = 0

\* CreateProviderSession writes the endpoint into the labels of the request
\* before it calls the provider.
Labelled(r, c) == [r EXCEPT !.endpoint = c.endpoint]

\* Session and route succeed, the lease is recorded and its slot is one of the
\* others'; or one fails: the record is a failure and the slot is returned.
AskProvider ==
  /\ stage = "granted" /\ RoomForFacts(pick.endpoint)
  /\ \/ /\ facts' = [facts EXCEPT ![pick.endpoint].ok = @ + 1]
        /\ held' = [held EXCEPT ![pick.account] = (@ \ {Lease}) \cup {Other}]
        /\ Answered
     \/ /\ facts' = [facts EXCEPT ![pick.endpoint].bad = @ + 1]
        /\ held' = [held EXCEPT ![pick.account] = @ \ {Lease}]
        /\ stage' = "failed"
        /\ ask' = Labelled(ask, pick)
        /\ UNCHANGED <<attempt, pick, offered, visited, rounds>>

\* The provider's configuration is not valid: not tried again.
AdapterRefused ==
  /\ stage = "granted" /\ Answered
  /\ held' = [held EXCEPT ![pick.account] = @ \ {Lease}]
  /\ UNCHANGED facts

Retry ==
  /\ stage = "failed"
  /\ \/ /\ attempt < MaxAttempts(ask)
        /\ stage' = "selecting" /\ attempt' = attempt + 1
        /\ UNCHANGED <<ask, pick, history>>
     \/ attempt >= MaxAttempts(ask) /\ Answered
  /\ UNCHANGED <<held, facts>>

-----------------------------------------------------------------------------
(* The pool of a profile, and everybody else.                             *)

\* The reconcile loop chooses as for a first attempt, holding the slots of
\* the profile, takes or extends one and keeps it if the node is fetched. A
\* slot it holds under another account is left to its time.
RefreshPool ==
  /\ \E c \in {Choose(C, ProfileAsks, 1) : C \in Offers(ProfileAsks, Profile) \ {{}}} :
       \/ Slots!Take(c.account, Profile, c.limit)
       \/ /\ Available(c.account, Profile, c.limit)
          /\ held' = [held EXCEPT ![c.account] = @ \ {Profile}]
  /\ UNCHANGED <<facts, acquire, history>>

\* Another lease takes a slot; a slot is given back or lapses.
OtherTakes ==
  /\ \A a \in AccountIds : Other \notin held[a]
  /\ \E i \in DOMAIN AccountList, j \in DOMAIN InstanceList :
       /\ AccountList[i].provider = InstanceList[j].provider
       /\ Slots!Take(AccountList[i].id, Other, InstanceList[j].sticky)
  /\ UNCHANGED <<facts, acquire, history>>

SlotEnds ==
  /\ \E a \in AccountIds : \E h \in held[a] \ {Lease} : held' = [held EXCEPT ![a] = @ \ {h}]
  /\ UNCHANGED <<facts, acquire, history>>

\* The records grow older than the window.
FactsAge ==
  /\ \E e \in Endpoints : facts[e].ok + facts[e].bad > 0
  /\ facts' = [e \in Endpoints |-> [ok |-> 0, bad |-> 0]]
  /\ UNCHANGED <<held, acquire, history>>

SelectionInit ==
  /\ held = [a \in AccountIds |-> {}]
  /\ facts = [e \in Endpoints |-> [ok |-> 0, bad |-> 0]]
  /\ stage = "idle" /\ ask = NoRequest
  /\ attempt = 1 /\ pick = NoPick
  /\ offered = {} /\ visited = {} /\ rounds = 0

SelectionNext ==
  \/ BeginAcquire \/ SelectEndpoint \/ TakeSlot \/ AskProvider \/ AdapterRefused \/ Retry
  \/ RefreshPool \/ OtherTakes \/ SlotEnds \/ FactsAge

SelectionSpec == SelectionInit /\ [][SelectionNext]_selection

-----------------------------------------------------------------------------
(* Properties.                                                            *)

SelectionTypeOK ==
  /\ held \in [AccountIds -> SUBSET PoolHolder]
  /\ \A e \in Endpoints : facts[e].ok \in 0..MaxFacts /\ facts[e].bad \in 0..MaxFacts
  /\ stage \in {"idle", "selecting", "chosen", "granted", "failed"}
  /\ attempt \in 1..20
  /\ visited \subseteq AccountIds

\* The endpoint chosen is one that may be used; it is in the region asked for
\* when any is, as far as the codes found for them say; and no endpoint its
\* account offers in that scope has a better score (candidates.go,
\* ChooseEndpointCandidate).
Good(c, C, r) ==
  LET In(d) == RegionScore(d.codes, r, FALSE) > 0 IN
  /\ (\E d \in C : In(d)) => In(c)
  /\ \A d \in C : d.account = c.account /\ (In(c) => In(d)) => d.score <= c.score

PickIsGood ==
  [][stage' = "chosen" /\ stage = "selecting"
       => \E C \in Offers(ask, ProbeHolder) :
            \E c \in C : Offer(c) = pick' /\ Good(c, C, ask)]_selection

\* While the candidates in scope stay the same, one more attempt than there are
\* accounts has tried each of them: rotation leaves none out.
EveryAccountTried ==
  rounds > Cardinality(Owners(offered)) => Owners(offered) \subseteq visited
=============================================================================
