--------------------------- MODULE LeaseLifecycle ---------------------------
(***************************************************************************)
(* The life of a dynamic proxy lease: how a lease is acquired, released,   *)
(* expired, cleaned up and restored by the processes of one gateway, and   *)
(* what that does to the five things a lease owns:                         *)
(*                                                                         *)
(*   facts     the persisted lease records (PostgreSQL or SQLite),         *)
(*   routes    the session routes of the Mihomo data plane,                *)
(*   sessions  the sessions open at the dynamic-IP provider,               *)
(*   slots     the concurrency slots of the provider accounts (Redis),     *)
(*   locks     account, provider-account and listener-allocation locks.    *)
(*                                                                         *)
(* Every call to one of those stores is a step of its own, so that other   *)
(* processes, a failure or a crash can fall between any two of them.       *)
(* Control is kept; endpoints, credentials, labels and messages are not.   *)
(***************************************************************************)
EXTENDS Naturals, FiniteSets

CONSTANTS
  Account,      \* canonical account ids (one purpose per account)
  Alias,        \* other request ids (ingress user names) of an account
  Resolve,      \* the account an id stands for
  Provider,     \* provider accounts
  Session,      \* provider session ids, under which the routes are kept
  Named,        \* session ids that requests ask for; the others are drawn
  Attempt,      \* lease ids an acquire attempt can draw
  AccountOf,    \* the account an attempt is drawn for
  ProviderOf,   \* the provider account selected for an attempt
  SessionOf,    \* the session of an attempt
  Stateful,     \* attempts whose session is kept by the provider
  Limit,        \* concurrency limit of a provider account
  Client,       \* concurrent RPC handlers
  KeyOf,        \* the account or user name in the requests of a client
  AskOf,        \* the session its requests ask for, or NoSession
  Sweeper,      \* the expiry and cleanup loop
  Restorer,     \* the background restore started at boot
  NoProc,       \* no lock holder
  NoLease,      \* no lease in hand
  NoSession,    \* no session asked for
  Faults,       \* what may go wrong, a subset of FaultKind
  MaxCrashes    \* bound on the number of restarts

FaultKind ==
  { "delete",     \* removing a route from the data plane fails
    "session",    \* the provider refuses to release a session
    "save",       \* a fact is not saved
    "ambiguous",  \* a fact is saved, its writer is told it was not
    "record",     \* the record of a failed acquire is not saved
    "acctLock",   \* the sweep does not obtain an account lock in time
    "provLock",   \* the provider-account lock of a retire is not obtained
    "allocLock",  \* the listener lock is not obtained, or is lost
    "limiter",    \* a slot is not given back
    "lookup",     \* a read of the fact store fails
    "restore" }   \* restoring one lease fails

LockKey == Account \cup Alias
Worker  == Client \cup {Sweeper}
Process == Worker \cup {Restorer}

ASSUME ConstantsAssumption ==
  /\ Resolve \in [LockKey -> Account] /\ \A c \in Account : Resolve[c] = c
  /\ AccountOf \in [Attempt -> Account]
  /\ ProviderOf \in [Attempt -> Provider]
  /\ SessionOf \in [Attempt -> Session]
  /\ Named \subseteq Session /\ NoSession \notin Session
  /\ KeyOf \in [Client -> LockKey] /\ AskOf \in [Client -> Named \cup {NoSession}]
  /\ Stateful \subseteq Attempt
  /\ Faults \subseteq FaultKind
  /\ Limit \in Nat /\ MaxCrashes \in Nat
  /\ NoProc \notin Process
  /\ Sweeper \notin Client /\ Restorer \notin Worker
  /\ NoLease \notin Attempt \X {"lease", "failure"}

(***************************************************************************)
(* The ids under which records are kept: an attempt's own lease id, and    *)
(* the fresh id under which the failure of the attempt is recorded.        *)
(***************************************************************************)
LeaseId    == Attempt \X {"lease", "failure"}
Own(a)     == <<a, "lease">>
Failure(a) == <<a, "failure">>
Owner(l)   == AccountOf[l[1]]
Key(l)     == SessionOf[l[1]]

Status == {"none", "active", "failed", "released", "expired"}
Final  == {"none", "failed", "released", "expired"}

\* The session of a lease, if the provider keeps it
\* (NeedsProviderSessionRelease: a stateless session is not released).
Kept(l) == {Key(l) : a \in {l[1]} \cap Stateful}

\* A record: its status, the two cleanup-pending labels, the final status.
Fact   == [st : Status, route : BOOLEAN, prov : BOOLEAN, final : Final]
NoFact == [st |-> "none", route |-> FALSE, prov |-> FALSE, final |-> "none"]
ActiveFact == [NoFact EXCEPT !.st = "active"]
FailedFact == [NoFact EXCEPT !.st = "failed", !.final = "failed"]

\* MarkCleanupPending, ClearCleanupPending: one label is set or removed.
Marked(f, what) ==
  [f EXCEPT !.route = @ \/ what = "route", !.prov = @ \/ what = "prov"]
Cleared(f, what) ==
  [f EXCEPT !.route = @ /\ what # "route", !.prov = @ /\ what # "prov"]

Pending(f)  == f.route \/ f.prov
Terminal(f) == f.st \in {"released", "expired"}

VARIABLES
  facts,     \* facts[l]: the record saved under id l
  issued,    \* attempts whose id was drawn
  routes,    \* sessions whose route the data plane serves
  sessions,  \* sessions open at the provider
  slots,     \* attempts that hold a concurrency slot
  due,       \* attempts whose session expiry time has passed
  acctLock,  \* acctLock[k]: holder of the lock of account or user name k
  provLock,  \* provLock[v]: holder of the lock of provider account v
  allocLock, \* holder of the session-listener-allocation lock
  pc,        \* pc[p]: the next call of process p
  flow,      \* flow[p]: the operation p executes
  job,       \* job[p]: the lease p works on
  copy,      \* copy[p]: p's in-memory copy of that lease's record
  pass,      \* pass of the sweep: expired leases, then pending cleanups
  sweepList, \* leases listed for this pass and not yet processed
  restoreList, \* leases listed for restore and not yet restored
  crashes    \* restarts so far

proc  == <<pc, flow, job, copy>>
locks == <<acctLock, provLock, allocLock>>
plane == <<issued, routes, sessions, slots, due>>
batch == <<pass, sweepList, restoreList, crashes>>
vars  == <<facts, plane, locks, proc, batch>>

Flow == {"none", "acquire", "abort", "release", "expire", "cleanup"}
Label == { "idle", "lookup", "refresh", "select", "provLock", "create",
           "prepare", "alloc", "upsert", "save", "commit", "undoRoute",
           "undoSession", "record", "giveback", "lock", "read", "dropRoute",
           "sessLock", "dropSession", "pending", "final", "freeSlot",
           "list", "restore", "restoreRoute" }

TypeOK ==
  /\ facts \in [LeaseId -> Fact]
  /\ issued \subseteq Attempt /\ slots \subseteq Attempt /\ due \subseteq Attempt
  /\ routes \subseteq Session /\ sessions \subseteq Session
  /\ acctLock \in [LockKey -> Worker \cup {NoProc}]
  /\ provLock \in [Provider -> Worker \cup {NoProc}]
  /\ allocLock \in Worker \cup {NoProc}
  /\ pc \in [Process -> Label]
  /\ flow \in [Process -> Flow]
  /\ job \in [Process -> LeaseId \cup {NoLease}]
  /\ copy \in [Process -> Fact]
  /\ pass \in {"expire", "cleanup"}
  /\ sweepList \subseteq LeaseId /\ restoreList \subseteq LeaseId
  /\ crashes \in 0 .. MaxCrashes

\* The gateway has booted on an empty store and its first restore is over.
Init ==
  /\ facts = [l \in LeaseId |-> NoFact]
  /\ issued = {} /\ routes = {} /\ sessions = {} /\ slots = {} /\ due = {}
  /\ acctLock = [k \in LockKey |-> NoProc]
  /\ provLock = [v \in Provider |-> NoProc]
  /\ allocLock = NoProc
  /\ pc = [p \in Process |-> "idle"]
  /\ flow = [p \in Process |-> "none"]
  /\ job = [p \in Process |-> NoLease]
  /\ copy = [p \in Process |-> NoFact]
  /\ pass = "cleanup" /\ sweepList = {} /\ restoreList = {}
  /\ crashes = 0

-----------------------------------------------------------------------------
(* Steps shared by the operations.                                         *)

Goto(p, label) == pc' = [pc EXCEPT ![p] = label]

\* Forget the operation in hand; the account lock is kept.
Drop(p, label, op) ==
  /\ Goto(p, label)
  /\ flow' = [flow EXCEPT ![p] = op]
  /\ job' = [job EXCEPT ![p] = NoLease]
  /\ copy' = [copy EXCEPT ![p] = NoFact]

\* Variant with a bug: the lock excludes nobody.
FreeAlways(k) == TRUE

\* A redsync mutex: free, or held by one process.
Free(k) == acctLock[k] = NoProc

Unlocked(lock, p) == [k \in DOMAIN lock |-> IF lock[k] = p THEN NoProc ELSE lock[k]]

\* The operation returns: its account lock is given back.
Return(p) ==
  /\ Drop(p, "idle", "none")
  /\ acctLock' = Unlocked(acctLock, p)

\* The redis script of the limiter: a known holder is refreshed, a new one
\* needs room under the limit.
Room(a) ==
  \/ a \in slots
  \/ Cardinality({b \in slots : ProviderOf[b] = ProviderOf[a]}) < Limit

\* SaveLeaseFact: an upsert by lease id whose answer may be lost.
Saved(l, f)  == facts' = [facts EXCEPT ![l] = f]
NotSaved     == UNCHANGED facts
SaveFails(l, f) ==
  \/ "save" \in Faults /\ NotSaved
  \/ "ambiguous" \in Faults /\ Saved(l, f)

-----------------------------------------------------------------------------
(* AcquireProxyLease.                                                      *)

\* The account lock is taken on the id of the request as it came.
AcquireLock(p) ==
  /\ pc[p] = "idle"
  /\ Free(KeyOf[p])
  /\ acctLock' = [acctLock EXCEPT ![KeyOf[p]] = p]
  /\ Drop(p, "lookup", "acquire")
  /\ UNCHANGED <<facts, plane, provLock, allocLock, batch>>

\* ActiveLeaseFactByAccount, ActiveLeaseFactBySession: active, not past its
\* expiry time and, when a session is asked for, of that session.
Existing(c, ask) ==
  {l \in LeaseId : /\ Owner(l) = c /\ facts[l].st = "active" /\ l[1] \notin due
                   /\ ask \in {NoSession, Key(l)}}

\* HandleExistingActiveLease: none (or a lookup error) starts an attempt, an
\* active lease is reused, or replaced when the request forces a new one.
Lookup(p) ==
  /\ pc[p] = "lookup"
  /\ LET found == Existing(Resolve[KeyOf[p]], AskOf[p]) IN
       \/ /\ found = {} \/ "lookup" \in Faults
          /\ Goto(p, "select") /\ UNCHANGED <<job, copy>>
       \/ \E l \in found, next \in {"refresh", "dropRoute"} :
            /\ job' = [job EXCEPT ![p] = l]
            /\ copy' = [copy EXCEPT ![p] = facts[l]]
            /\ Goto(p, next)
  /\ UNCHANGED <<facts, plane, locks, flow, batch>>

\* RefreshConcurrencySlot of a reused lease; at the limit the request fails.
Refresh(p) ==
  /\ pc[p] = "refresh"
  /\ \/ Room(job[p][1]) /\ slots' = slots \cup {job[p][1]}
     \/ UNCHANGED slots
  /\ Return(p)
  /\ UNCHANGED <<facts, issued, routes, sessions, due, provLock, allocLock, batch>>

\* An endpoint is selected, a fresh lease id drawn and a slot acquired. The
\* session will be the one asked for, or else one no request names.
Select(p) ==
  /\ pc[p] = "select"
  /\ \E a \in Attempt \ issued :
       /\ AccountOf[a] = Resolve[KeyOf[p]]
       /\ AskOf[p] = IF SessionOf[a] \in Named THEN SessionOf[a] ELSE NoSession
       /\ Room(a)
       /\ issued' = issued \cup {a} /\ slots' = slots \cup {a}
       /\ job' = [job EXCEPT ![p] = Own(a)]
       /\ copy' = [copy EXCEPT ![p] = FailedFact]
  /\ Goto(p, "provLock")
  /\ UNCHANGED <<facts, routes, sessions, due, locks, flow, batch>>

\* No candidate, no slot, no attempt left, or the request is cancelled.
GiveUp(p) ==
  /\ pc[p] = "select"
  /\ Return(p)
  /\ UNCHANGED <<facts, plane, provLock, allocLock, batch>>

\* The provider-account lock; not obtained, the request ends.
LockProvider(p) ==
  /\ pc[p] = "provLock"
  /\ LET v == ProviderOf[job[p][1]] IN
       \/ /\ provLock[v] = NoProc
          /\ provLock' = [provLock EXCEPT ![v] = p]
          /\ Goto(p, "create") /\ UNCHANGED flow
       \/ /\ Goto(p, "giveback") /\ flow' = [flow EXCEPT ![p] = "abort"]
          /\ UNCHANGED provLock
  /\ UNCHANGED <<facts, plane, acctLock, allocLock, job, copy, batch>>

CreateSession(p) ==
  /\ pc[p] = "create"
  /\ \/ sessions' = sessions \cup Kept(job[p])
        /\ Goto(p, "prepare")
     \/ UNCHANGED sessions /\ Goto(p, "giveback")
  /\ UNCHANGED <<facts, issued, routes, slots, due, locks, flow, job, copy, batch>>

\* FetchSession and the line binding: a failure is recorded (BeforeRoute).
Prepare(p) ==
  /\ pc[p] = "prepare"
  /\ \/ Goto(p, "alloc")
     \/ Goto(p, "undoSession")
  /\ UNCHANGED <<facts, plane, locks, flow, job, copy, batch>>

\* The listener-allocation lock: a failure is not recorded, nor retried.
LockAllocation(p) ==
  /\ pc[p] = "alloc"
  /\ \/ /\ allocLock = NoProc /\ allocLock' = p
        /\ Goto(p, "upsert") /\ UNCHANGED flow
     \/ /\ "allocLock" \in Faults /\ UNCHANGED allocLock
        /\ Goto(p, "giveback") /\ flow' = [flow EXCEPT ![p] = "abort"]
  /\ UNCHANGED <<facts, plane, acctLock, provLock, job, copy, batch>>

\* The endpoint is materialized and its route applied.
UpsertRoute(p) ==
  /\ pc[p] = "upsert"
  /\ \/ routes' = routes \cup {Key(job[p])} /\ Goto(p, "save")
     \/ UNCHANGED routes /\ Goto(p, "undoSession")
     \/ UNCHANGED routes /\ Goto(p, "undoRoute")
  /\ UNCHANGED <<facts, issued, sessions, slots, due, locks, flow, job, copy, batch>>

\* SaveAcquiredActiveFact; a failure to save ends the request.
SaveActive(p) ==
  /\ pc[p] = "save"
  /\ \/ /\ Saved(job[p], ActiveFact)
        /\ Goto(p, "commit") /\ UNCHANGED flow
     \/ /\ SaveFails(job[p], ActiveFact)
        /\ Goto(p, "undoRoute") /\ flow' = [flow EXCEPT ![p] = "abort"]
  /\ UNCHANGED <<plane, locks, job, copy, batch>>

\* FailedAcquireRecorder.AfterRoute: take the route down again.
UndoRoute(p) ==
  /\ pc[p] = "undoRoute"
  /\ \/ routes' = routes \ {Key(job[p])} /\ UNCHANGED copy
     \/ /\ "delete" \in Faults /\ UNCHANGED routes
        /\ copy' = [copy EXCEPT ![p] = Marked(@, "route")]
  /\ Goto(p, "undoSession")
  /\ UNCHANGED <<facts, issued, sessions, slots, due, locks, flow, job, batch>>

\* AfterRoute and BeforeRoute: release the session.
UndoSession(p) ==
  /\ pc[p] = "undoSession"
  /\ \/ sessions' = sessions \ Kept(job[p]) /\ UNCHANGED copy
     \/ /\ "session" \in Faults /\ job[p][1] \in Stateful /\ UNCHANGED sessions
        /\ copy' = [copy EXCEPT ![p] = Marked(@, "prov")]
  /\ Goto(p, "record")
  /\ UNCHANGED <<facts, issued, routes, slots, due, locks, flow, job, batch>>

\* SaveFailedAcquireFact under a fresh id; a failed save is only logged.
Record(p) ==
  /\ pc[p] = "record"
  /\ \/ Saved(Failure(job[p][1]), copy[p])
     \/ "record" \in Faults /\ NotSaved
  /\ Goto(p, "giveback")
  /\ UNCHANGED <<plane, locks, flow, job, copy, batch>>

\* The failed attempt unlocks and returns its slot; a retryable failure goes
\* on to the next attempt under the same account lock.
Giveback(p) ==
  /\ pc[p] = "giveback"
  /\ provLock' = Unlocked(provLock, p)
  /\ allocLock' = IF allocLock = p THEN NoProc ELSE allocLock
  /\ \/ slots' = slots \ {job[p][1]}
     \/ "limiter" \in Faults /\ UNCHANGED slots
  /\ \/ flow[p] = "acquire" /\ Drop(p, "select", "acquire") /\ UNCHANGED acctLock
     \/ Return(p)
  /\ UNCHANGED <<facts, issued, routes, sessions, due, batch>>

\* The attempt succeeded: unlock and keep the slot, unless the listener lock
\* turns out to have been lost, which fails the attempt.
Commit(p) ==
  /\ pc[p] = "commit"
  /\ \/ /\ provLock' = Unlocked(provLock, p) /\ allocLock' = NoProc
        /\ Return(p)
     \/ /\ "allocLock" \in Faults
        /\ Goto(p, "giveback") /\ flow' = [flow EXCEPT ![p] = "abort"]
        /\ UNCHANGED <<locks, job, copy>>
  /\ UNCHANGED <<facts, plane, batch>>

-----------------------------------------------------------------------------
(* Retiring a lease: ReleaseProxyLease, the replacement of a lease by an   *)
(* acquire, the expiry and the cleanup of the sweep.                       *)

\* The operation starts from a record read without the lock.
Begin(p, l, op) ==
  /\ Goto(p, "lock")
  /\ flow' = [flow EXCEPT ![p] = op]
  /\ job' = [job EXCEPT ![p] = l]
  /\ copy' = [copy EXCEPT ![p] = facts[l]]

ReleaseLookup(p, l) ==
  /\ p \in Client /\ pc[p] = "idle"
  /\ facts[l].st = "active"
  /\ Begin(p, l, "release")
  /\ UNCHANGED <<facts, plane, locks, batch>>

LockAccount(p) ==
  /\ pc[p] = "lock"
  /\ Free(Owner(job[p]))
  /\ acctLock' = [acctLock EXCEPT ![Owner(job[p])] = p]
  /\ Goto(p, "read")
  /\ UNCHANGED <<facts, plane, provLock, allocLock, flow, job, copy, batch>>

\* The lock is not obtained before the context ends.
LockTimeout(p) ==
  /\ pc[p] = "lock"
  /\ p \in Client \/ "acctLock" \in Faults
  /\ Return(p)
  /\ UNCHANGED <<facts, plane, provLock, allocLock, batch>>

\* Variant with a bug: a release trusts the record it read before the lock.
WantedStale(op, l, f) ==
  CASE op = "release" -> TRUE
    [] op = "expire"  -> f.st = "active" /\ l[1] \in due
    [] OTHER          -> Pending(f)

\* Whether the operation still applies to the record read under the lock.
Wanted(op, l, f) ==
  CASE op = "release" -> f.st = "active"
    [] op = "expire"  -> f.st = "active" /\ l[1] \in due
    [] OTHER          -> Pending(f)

\* RefreshReleaseLease and RunCurrentLeaseAction read the record again.
Reread(p) ==
  /\ pc[p] = "read"
  /\ LET f == facts[job[p]] IN
       \/ /\ Wanted(flow[p], job[p], f)
          /\ copy' = [copy EXCEPT ![p] = f]
          /\ Goto(p, IF flow[p] = "cleanup" /\ ~f.route THEN "sessLock"
                                                        ELSE "dropRoute")
          /\ UNCHANGED <<flow, job, acctLock>>
       \/ /\ ~Wanted(flow[p], job[p], f) \/ "lookup" \in Faults
          /\ Return(p)
  /\ UNCHANGED <<facts, plane, provLock, allocLock, batch>>

FinalOf(op, f) ==
  CASE op = "expire"  -> "expired"
    [] op = "cleanup" -> f.final
    [] OTHER          -> "released"

\* Variants with a bug: the other label is set; the status of the record is
\* kept instead of the one it shall end in.
AfterFailureSwapped(op, f, what) ==
  IF op = "cleanup" THEN f
  ELSE [Marked(f, IF what = "route" THEN "prov" ELSE "route")
          EXCEPT !.st = "failed", !.final = FinalOf(op, f)]

AfterFailureNoFinal(op, f, what) ==
  IF op = "cleanup" THEN f
  ELSE [Marked(f, what) EXCEPT !.st = "failed", !.final = f.st]

\* The copy after the retire of its route or its session failed: a cleanup
\* keeps its labels, the others turn the lease into a failed one.
AfterFailure(op, f, what) ==
  IF op = "cleanup" THEN f
  ELSE [Marked(f, what) EXCEPT !.st = "failed", !.final = FinalOf(op, f)]

\* CleanupLeaseRoute.
DropRoute(p) ==
  /\ pc[p] = "dropRoute"
  /\ \/ /\ routes' = routes \ {Key(job[p])}
        /\ copy' = [copy EXCEPT ![p] = Cleared(@, "route")]
        /\ Goto(p, IF flow[p] = "cleanup" /\ ~copy[p].prov THEN "final"
                                                           ELSE "sessLock")
     \/ /\ "delete" \in Faults /\ UNCHANGED routes
        /\ copy' = [copy EXCEPT ![p] = AfterFailure(flow[p], @, "route")]
        /\ Goto(p, "pending")
  /\ UNCHANGED <<facts, issued, sessions, slots, due, locks, flow, job, batch>>

\* ReleaseLeaseProviderSessionWithLock, the lock. A cleanup that does not get
\* it returns at once, the others record the session as pending.
LockSession(p) ==
  /\ pc[p] = "sessLock"
  /\ LET v == ProviderOf[job[p][1]] IN
       \/ /\ provLock[v] = NoProc
          /\ provLock' = [provLock EXCEPT ![v] = p]
          /\ Goto(p, "dropSession")
          /\ UNCHANGED <<acctLock, flow, job, copy>>
       \/ /\ "provLock" \in Faults /\ flow[p] # "cleanup" /\ UNCHANGED provLock
          /\ copy' = [copy EXCEPT ![p] = AfterFailure(flow[p], @, "prov")]
          /\ Goto(p, "pending") /\ UNCHANGED <<acctLock, flow, job>>
       \/ /\ "provLock" \in Faults /\ flow[p] = "cleanup" /\ UNCHANGED provLock
          /\ Return(p)
  /\ UNCHANGED <<facts, plane, allocLock, batch>>

\* ... and the release, skipped for a session the provider does not keep.
DropSession(p) ==
  /\ pc[p] = "dropSession"
  /\ provLock' = Unlocked(provLock, p)
  /\ \/ /\ sessions' = sessions \ Kept(job[p])
        /\ copy' = [copy EXCEPT ![p] = Cleared(@, "prov")]
        /\ Goto(p, "final")
     \/ /\ "session" \in Faults /\ job[p][1] \in Stateful /\ UNCHANGED sessions
        /\ copy' = [copy EXCEPT ![p] = AfterFailure(flow[p], @, "prov")]
        /\ Goto(p, "pending")
  /\ UNCHANGED <<facts, issued, routes, slots, due, acctLock, allocLock, flow, job, batch>>

\* SaveReleaseCleanupFailure, SaveExpiredCleanupFailure, SaveCleanupRetry:
\* what is left to clean up is saved, and the operation returns its error.
SavePending(p) ==
  /\ pc[p] = "pending"
  /\ \/ Saved(job[p], copy[p])
     \/ SaveFails(job[p], copy[p])
  /\ Return(p)
  /\ UNCHANGED <<plane, provLock, allocLock, batch>>

\* SaveReleased, SaveExpired or, for a failed acquire, the bare record.
Finished(op, f) ==
  LET final == FinalOf(op, f) IN
    [f EXCEPT !.st = IF final \in {"released", "expired"} THEN final ELSE @,
              !.route = FALSE, !.prov = FALSE]

SaveFinal(p) ==
  /\ pc[p] = "final"
  /\ LET f == Finished(flow[p], copy[p]) IN
       \/ /\ Saved(job[p], f) /\ Terminal(f)
          /\ Goto(p, "freeSlot") /\ UNCHANGED <<flow, job, copy, acctLock>>
       \/ Saved(job[p], f) /\ ~Terminal(f) /\ Return(p)
       \/ SaveFails(job[p], f) /\ Return(p)
  /\ UNCHANGED <<plane, provLock, allocLock, batch>>

\* releaseFinalLeaseConcurrencySlot: a failure is only logged. An acquire
\* that replaced the lease goes on to its first attempt.
FreeSlot(p) ==
  /\ pc[p] = "freeSlot"
  /\ \/ slots' = slots \ {job[p][1]}
     \/ "limiter" \in Faults /\ UNCHANGED slots
  /\ IF flow[p] = "acquire" THEN Drop(p, "select", "acquire") /\ UNCHANGED acctLock
                            ELSE Return(p)
  /\ UNCHANGED <<facts, issued, routes, sessions, due, provLock, allocLock, batch>>

-----------------------------------------------------------------------------
(* The sweep: list, then every listed lease in turn.                       *)

\* Variants with a bug: leases that are still current; records with both
\* labels only; leases that have expired.
ExpirableCurrent == {l \in LeaseId : facts[l].st = "active" /\ l[1] \notin due}
CleanableBoth ==
  {l \in LeaseId : facts[l].st = "failed" /\ facts[l].route /\ facts[l].prov}
RestorableExpired == {l \in LeaseId : facts[l].st = "active" /\ l[1] \in due}

Expirable == {l \in LeaseId : facts[l].st = "active" /\ l[1] \in due}
Cleanable == {l \in LeaseId : facts[l].st = "failed" /\ Pending(facts[l])}
Restorable == {l \in LeaseId : facts[l].st = "active" /\ l[1] \notin due}

SweepPass ==
  /\ pc[Sweeper] = "idle" /\ sweepList = {}
  /\ pass' = IF pass = "expire" THEN "cleanup" ELSE "expire"
  /\ sweepList' = IF pass' = "expire" THEN Expirable ELSE Cleanable
  /\ UNCHANGED <<facts, plane, locks, proc, restoreList, crashes>>

SweepNext(l) ==
  /\ pc[Sweeper] = "idle" /\ l \in sweepList
  /\ sweepList' = sweepList \ {l}
  /\ Begin(Sweeper, l, pass)
  /\ UNCHANGED <<facts, plane, locks, pass, restoreList, crashes>>

\* The deadline of the batch strikes: the rest of the list is dropped.
SweepTimeout ==
  /\ pc[Sweeper] = "idle" /\ sweepList # {}
  /\ sweepList' = {}
  /\ UNCHANGED <<facts, plane, locks, proc, pass, restoreList, crashes>>

-----------------------------------------------------------------------------
(* Restore at boot: it works from the list it read, takes no account lock  *)
(* and reads no record again.                                              *)

RestoreList ==
  /\ pc[Restorer] = "list"
  /\ restoreList' = Restorable
  /\ Goto(Restorer, "restore")
  /\ UNCHANGED <<facts, plane, locks, flow, job, copy, pass, sweepList, crashes>>

\* acquireRestoreLeaseSlot.
RestoreSlot(l) ==
  /\ pc[Restorer] = "restore" /\ l \in restoreList
  /\ restoreList' = restoreList \ {l}
  /\ \/ /\ Room(l[1]) /\ slots' = slots \cup {l[1]}
        /\ job' = [job EXCEPT ![Restorer] = l] /\ Goto(Restorer, "restoreRoute")
     \/ /\ ~Room(l[1]) \/ "restore" \in Faults
        /\ UNCHANGED <<slots, job, pc>>
  /\ UNCHANGED <<facts, issued, routes, sessions, due, locks, flow, copy, pass, sweepList, crashes>>

\* Fetch the nodes and upsert the route; a failure gives the slot back.
RestoreRoute ==
  /\ pc[Restorer] = "restoreRoute"
  /\ \/ routes' = routes \cup {Key(job[Restorer])} /\ UNCHANGED slots
     \/ /\ "restore" \in Faults /\ UNCHANGED routes
        /\ \/ slots' = slots \ {job[Restorer][1]}
           \/ "limiter" \in Faults /\ UNCHANGED slots
  /\ Goto(Restorer, "restore")
  /\ job' = [job EXCEPT ![Restorer] = NoLease]
  /\ UNCHANGED <<facts, issued, sessions, due, locks, flow, copy, batch>>

RestoreDone ==
  /\ pc[Restorer] = "restore" /\ restoreList = {}
  /\ Goto(Restorer, "idle")
  /\ UNCHANGED <<facts, plane, locks, flow, job, copy, batch>>

-----------------------------------------------------------------------------
(* Time and crashes.                                                       *)

\* The session's expiry time passes.
Deadline(a) ==
  /\ a \in issued \ due
  /\ due' = due \cup {a}
  /\ UNCHANGED <<facts, issued, routes, sessions, slots, locks, proc, batch>>

\* Variant with a bug: the slot's time to live is shorter than the session's.
SlotLapsesEarly(a) ==
  /\ a \in issued \cap slots
  /\ slots' = slots \ {a}
  /\ UNCHANGED <<facts, issued, routes, sessions, due, locks, proc, batch>>

\* The slot's time to live, the session's plus a buffer, has run out.
SlotLapses(a) ==
  /\ a \in due \cap slots
  /\ slots' = slots \ {a}
  /\ UNCHANGED <<facts, issued, routes, sessions, due, locks, proc, batch>>

\* The process dies and is started again: the session routes were in memory,
\* the locks of its handlers lapse, and restore runs in the background.
Crash ==
  /\ crashes < MaxCrashes
  /\ crashes' = crashes + 1
  /\ routes' = {}
  /\ acctLock' = [k \in LockKey |-> NoProc]
  /\ provLock' = [v \in Provider |-> NoProc]
  /\ allocLock' = NoProc
  /\ pc' = [p \in Process |-> IF p = Restorer THEN "list" ELSE "idle"]
  /\ flow' = [p \in Process |-> "none"]
  /\ job' = [p \in Process |-> NoLease]
  /\ copy' = [p \in Process |-> NoFact]
  /\ pass' = "cleanup" /\ sweepList' = {} /\ restoreList' = {}
  /\ UNCHANGED <<facts, issued, sessions, slots, due>>

-----------------------------------------------------------------------------
Acquiring(p) ==
  \/ AcquireLock(p) \/ Lookup(p) \/ Refresh(p) \/ Select(p) \/ GiveUp(p)
  \/ LockProvider(p) \/ CreateSession(p) \/ Prepare(p) \/ LockAllocation(p)
  \/ UpsertRoute(p) \/ SaveActive(p) \/ Commit(p)
  \/ UndoRoute(p) \/ UndoSession(p) \/ Record(p) \/ Giveback(p)

Retiring(p) ==
  \/ \E l \in LeaseId : ReleaseLookup(p, l)
  \/ LockAccount(p) \/ LockTimeout(p) \/ Reread(p) \/ DropRoute(p)
  \/ LockSession(p) \/ DropSession(p) \/ SavePending(p) \/ SaveFinal(p)
  \/ FreeSlot(p)

Sweeping == SweepPass \/ SweepTimeout \/ \E l \in LeaseId : SweepNext(l)

Restoring ==
  \/ RestoreList \/ RestoreRoute \/ RestoreDone
  \/ \E l \in LeaseId : RestoreSlot(l)

Environment == Crash \/ \E a \in Attempt : Deadline(a) \/ SlotLapses(a)

Next ==
  \/ \E p \in Client : Acquiring(p)
  \/ \E p \in Worker : Retiring(p)
  \/ Sweeping \/ Restoring \/ Environment

Spec == Init /\ [][Next]_vars

\* A handler and the sweep go on once started, the sweep starts over for ever.
\* It is not shut out of the locks for ever, its batches do not always end
\* before the same lease, and what fails does not fail for ever.
Running(p) ==
  /\ pc[p] # "idle"
  /\ \/ p \in Client /\ Acquiring(p)
     \/ Retiring(p)
RouteDropped(l) ==
  job[Sweeper] = l /\ DropRoute(Sweeper) /\ pc'[Sweeper] # "pending"
SessionDropped(l) ==
  job[Sweeper] = l /\ DropSession(Sweeper) /\ pc'[Sweeper] # "pending"
FinalSaved(l) ==
  job[Sweeper] = l /\ SaveFinal(Sweeper) /\ facts' # facts

Fairness ==
  /\ \A p \in Worker : WF_vars(Running(p))
  /\ WF_vars(SweepPass)
  /\ SF_vars(LockAccount(Sweeper)) /\ SF_vars(LockSession(Sweeper))
  /\ \A l \in LeaseId : /\ SF_vars(SweepNext(l)) /\ SF_vars(RouteDropped(l))
                        /\ SF_vars(SessionDropped(l)) /\ SF_vars(FinalSaved(l))

FairSpec == Spec /\ Fairness

-----------------------------------------------------------------------------
(* Properties.                                                             *)

\* A worker has the session in hand: it holds the account lock and decides
\* what becomes of the route and the session.
InHand(s, labels) ==
  \E p \in Worker : job[p] # NoLease /\ Key(job[p]) = s /\ pc[p] \in labels

Acquire == {"save", "undoRoute", "undoSession", "record"}
Retire  == {"dropRoute", "sessLock", "dropSession", "pending", "final"}

\* A lease that was released or has expired never changes again, whatever a
\* late cleanup, a second release or a replacing acquire does to it: each of
\* them decides on a record it read under the account lock (RefreshReleaseLease,
\* RunCurrentLeaseAction).
TerminalStays ==
  [][\A l \in LeaseId : Terminal(facts[l]) => facts'[l] = facts[l]]_vars

\* At most one lease of an account is active and current: an acquire reuses
\* or retires the existing one under the lock (HandleExistingActiveLease).
OneActivePerAccount ==
  \A c \in Account : \A l, m \in Existing(c, NoSession) : l = m

\* The route of a session all of whose leases ended is gone (RetireLeaseRoute
\* and ExpireLease save the final status only after the route was deleted).
NoRouteAfterEnd ==
  \A s \in routes : \E a \in issued : SessionOf[a] = s /\ ~Terminal(facts[Own(a)])

\* So is the session at the provider.
NoSessionAfterEnd ==
  \A s \in sessions : \E a \in issued : SessionOf[a] = s /\ ~Terminal(facts[Own(a)])

\* Every route of the data plane is known to a record that leads to its
\* removal, or in the hands of the acquire that is undoing it: none is orphaned.
RouteAccounted ==
  \A s \in routes :
    \/ \E a \in issued : /\ SessionOf[a] = s
                         /\ \/ facts[Own(a)].st = "active"
                            \/ facts[Own(a)].route \/ facts[Failure(a)].route
    \/ InHand(s, Acquire)

\* The same of every session open at a provider.
SessionAccounted ==
  \A s \in sessions :
    \/ \E a \in issued : /\ SessionOf[a] = s
                         /\ \/ facts[Own(a)].st = "active"
                            \/ facts[Own(a)].prov \/ facts[Failure(a)].prov
    \/ InHand(s, Acquire \cup {"prepare", "alloc", "upsert"})

Current(a) == facts[Own(a)].st = "active" /\ a \notin due

\* A served, current lease counts against the limit of its provider account:
\* slots are given back after the final status is saved, never before.
ServedHoldsSlot ==
  \A a \in Attempt : Current(a) /\ SessionOf[a] \in routes => a \in slots

\* A current lease that reads active is served and holds its slot, unless an
\* operation has it in hand or restore has not finished: what an acquire
\* reuses is a working lease.
ActiveIsServed ==
  \A a \in Attempt :
    Current(a) /\ pc[Restorer] = "idle" /\ ~InHand(SessionOf[a], Retire)
      => SessionOf[a] \in routes /\ a \in slots

\* A lease whose session expired ends, or is at least taken out of service:
\* the sweep retires it however often the data plane, the provider or the
\* store fail (ExpireDue).
ExpiredLeaseEnds ==
  \A a \in Attempt :
    facts[Own(a)].st = "active" /\ a \in due ~> facts[Own(a)].st # "active"

\* What a failed release, expiry or acquire left behind is cleaned up at last
\* (CleanupPending): the labels of the record are cleared.
CleanupCompletes ==
  \A l \in LeaseId :
    facts[l].st = "failed" /\ Pending(facts[l]) ~> ~Pending(facts[l])

=============================================================================
