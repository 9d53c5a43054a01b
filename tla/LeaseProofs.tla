----------------------------- MODULE LeaseProofs -----------------------------
(* Leases, for every value of the constants: their types, that a lease that *)
(* ended stays ended, and what a lease owns: an account has one active      *)
(* lease, and no route, no provider session and no slot outlives its lease, *)
(* is forgotten or is missing. All of that rests on the account lock        *)
(* (LockInv).                                                               *)
EXTENDS LeaseLifecycle, TLAPS

USE ConstantsAssumption DEF LockKey, Worker, Process

-----------------------------------------------------------------------------
(* Records.                                                                *)

LEMMA FactTypes ==
  NoFact \in Fact /\ ActiveFact \in Fact /\ FailedFact \in Fact
BY DEF NoFact, ActiveFact, FailedFact, Fact, Status, Final

LEMMA LabelTypes ==
  ASSUME NEW f \in Fact, NEW what
  PROVE  Marked(f, what) \in Fact /\ Cleared(f, what) \in Fact
BY DEF Fact, Marked, Cleared

LEMMA RetireTypes ==
  ASSUME NEW f \in Fact, NEW op \in Flow, NEW what
  PROVE  AfterFailure(op, f, what) \in Fact /\ Finished(op, f) \in Fact
<1>1. FinalOf(op, f) \in Final
  BY DEF Fact, Final, Status, FinalOf
<1>2. Marked(f, what) \in Fact
  BY LabelTypes
<1>. QED
  BY <1>1, <1>2 DEF Fact, Status, Final, AfterFailure, Finished

\* What a lease keeps open at the provider is a session.
LEMMA KeptTypes == ASSUME NEW l \in LeaseId PROVE Kept(l) \subseteq Session
BY DEF LeaseId, Key, Kept

LEMMA IdTypes ==
  /\ \A a \in Attempt : Own(a) \in LeaseId /\ Failure(a) \in LeaseId
  /\ \A l \in LeaseId : /\ l[1] \in Attempt
                        /\ Owner(l) \in Account /\ Key(l) \in Session
  /\ NoLease \notin LeaseId
BY DEF LeaseId, Own, Failure, Owner, Key

-----------------------------------------------------------------------------
(* Type correctness. A process at one of the labels below works on a lease. *)

NoJob == {"idle", "lookup", "select", "list", "restore"}

JobInv == \A p \in Process : pc[p] \notin NoJob => job[p] \in LeaseId

TypeInv == TypeOK /\ JobInv

LEMMA TypeInit == Init => TypeInv
BY FactTypes DEF Init, TypeInv, TypeOK, JobInv, NoJob, Label, Flow

\* What an operation that returns leaves of its process and of the locks.
LEMMA ReturnTypes ==
  ASSUME TypeInv, NEW p \in Worker, Return(p)
  PROVE  /\ acctLock' \in [LockKey -> Worker \cup {NoProc}]
         /\ pc' \in [Process -> Label] /\ flow' \in [Process -> Flow]
         /\ job' \in [Process -> LeaseId \cup {NoLease}]
         /\ copy' \in [Process -> Fact]
         /\ JobInv'
BY FactTypes DEF TypeInv, TypeOK, JobInv, NoJob, Return, Drop, Goto, Unlocked,
                 Label, Flow

LEMMA UnlockedTypes ==
  ASSUME NEW S, NEW lock \in [S -> Worker \cup {NoProc}], NEW p
  PROVE  Unlocked(lock, p) \in [S -> Worker \cup {NoProc}]
BY DEF Unlocked

LEMMA SaveTypes ==
  ASSUME TypeInv, NEW l, NEW f \in Fact, Saved(l, f) \/ SaveFails(l, f)
  PROVE  facts' \in [LeaseId -> Fact]
BY DEF TypeInv, TypeOK, Saved, SaveFails, NotSaved

LEMMA TypeAcquiring ==
  ASSUME TypeInv, NEW p \in Client, Acquiring(p)
  PROVE  TypeInv'
<1> USE DEF TypeInv, TypeOK, JobInv, NoJob, Goto, Drop, Return,
            plane, locks, proc, batch
<1>1. CASE AcquireLock(p)
  BY <1>1, FactTypes DEF AcquireLock, Label, Flow
<1>2. CASE Lookup(p)
  BY <1>2 DEF Lookup, Existing, Label, Flow
<1>3. CASE Refresh(p)
  BY <1>3, FactTypes, IdTypes DEF Refresh, Unlocked, Label, Flow
<1>4. CASE Select(p)
  BY <1>4, FactTypes, IdTypes DEF Select, Label, Flow
<1>5. CASE GiveUp(p)
  BY <1>5, FactTypes DEF GiveUp, Unlocked, Label, Flow
<1>6. CASE LockProvider(p)
  BY <1>6 DEF LockProvider, Label, Flow
<1>7. CASE CreateSession(p)
  BY <1>7, KeptTypes DEF CreateSession, Label, Flow
<1>8. CASE Prepare(p)
  BY <1>8 DEF Prepare, Label, Flow
<1>9. CASE LockAllocation(p)
  BY <1>9 DEF LockAllocation, Label, Flow
<1>10. CASE UpsertRoute(p)
  BY <1>10, IdTypes DEF UpsertRoute, Label, Flow
<1>11. CASE SaveActive(p)
  BY <1>11, FactTypes DEF SaveActive, SaveFails, Saved, NotSaved, Label, Flow
<1>12. CASE Commit(p)
  BY <1>12, FactTypes DEF Commit, Unlocked, Label, Flow
<1>13. CASE UndoRoute(p)
  BY <1>13, LabelTypes DEF UndoRoute, Label, Flow
<1>14. CASE UndoSession(p)
  BY <1>14, LabelTypes DEF UndoSession, Label, Flow
<1>15. CASE Record(p)
  BY <1>15, IdTypes DEF Record, Saved, NotSaved, Label, Flow
<1>16. CASE Giveback(p)
  BY <1>16, FactTypes DEF Giveback, Unlocked, Label, Flow
<1>. QED
  BY <1>1, <1>2, <1>3, <1>4, <1>5, <1>6, <1>7, <1>8, <1>9, <1>10, <1>11,
     <1>12, <1>13, <1>14, <1>15, <1>16 DEF Acquiring

LEMMA TypeRetiring ==
  ASSUME TypeInv, NEW p \in Worker, Retiring(p)
  PROVE  TypeInv'
<1> USE DEF TypeInv, TypeOK, JobInv, NoJob, Goto, Drop, Return,
            plane, locks, proc, batch
<1>1. ASSUME NEW l \in LeaseId, ReleaseLookup(p, l) PROVE TypeInv'
  BY <1>1, FactTypes DEF ReleaseLookup, Begin, Label, Flow
<1>2. CASE LockAccount(p)
  BY <1>2, IdTypes DEF LockAccount, Label, Flow
<1>3. CASE LockTimeout(p)
  BY <1>3, FactTypes DEF LockTimeout, Unlocked, Label, Flow
<1>4. CASE Reread(p)
  BY <1>4, FactTypes DEF Reread, Unlocked, Label, Flow
<1>5. CASE DropRoute(p)
  <2>1. copy' \in [Process -> Fact]
    BY <1>5, LabelTypes, RetireTypes DEF DropRoute
  <2>2. /\ routes' \subseteq Session /\ pc' \in [Process -> Label]
        /\ JobInv'
    BY <1>5 DEF DropRoute, Label
  <2>. QED
    BY <1>5, <2>1, <2>2 DEF DropRoute
<1>6. CASE LockSession(p)
  <2>1. CASE Return(p) /\ UNCHANGED <<facts, plane, provLock, allocLock, batch>>
    BY <2>1, ReturnTypes DEF Return
  <2>2. CASE /\ UNCHANGED <<facts, plane, allocLock, batch, acctLock, flow, job>>
             /\ provLock' = [provLock EXCEPT ![ProviderOf[job[p][1]]] = p]
             /\ Goto(p, "dropSession") /\ UNCHANGED copy
    BY <1>6, <2>2, IdTypes DEF LockSession, Label
  <2>3. CASE /\ UNCHANGED <<facts, plane, locks, batch, flow, job>>
             /\ copy' = [copy EXCEPT ![p] = AfterFailure(flow[p], @, "prov")]
             /\ Goto(p, "pending")
    <3>1. AfterFailure(flow[p], copy[p], "prov") \in Fact
      BY RetireTypes
    <3>. QED
      BY <1>6, <2>3, <3>1 DEF LockSession, Label
  <2>. QED
    BY <1>6, <2>1, <2>2, <2>3 DEF LockSession
<1>7. CASE DropSession(p)
  <2>1. /\ provLock' \in [Provider -> Worker \cup {NoProc}]
        /\ sessions' \subseteq Session
    BY <1>7, UnlockedTypes DEF DropSession
  <2>2. /\ copy' \in [Process -> Fact] /\ pc' \in [Process -> Label]
        /\ JobInv'
    BY <1>7, LabelTypes, RetireTypes DEF DropSession, Label
  <2>. QED
    BY <1>7, <2>1, <2>2 DEF DropSession
<1>8. CASE SavePending(p)
  <2>1. facts' \in [LeaseId -> Fact]
    BY <1>8, SaveTypes DEF SavePending
  <2>. QED
    BY <1>8, <2>1, ReturnTypes DEF SavePending
<1>9. CASE SaveFinal(p)
  <2>1. Finished(flow[p], copy[p]) \in Fact
    BY RetireTypes
  <2>2. facts' \in [LeaseId -> Fact]
    BY <1>9, <2>1, SaveTypes DEF SaveFinal
  <2>3. CASE Return(p)
    BY <1>9, <2>2, <2>3, ReturnTypes DEF SaveFinal
  <2>4. CASE ~Return(p)
    BY <1>9, <2>2, <2>4 DEF SaveFinal, Label
  <2>. QED
    BY <2>3, <2>4
<1>10. CASE FreeSlot(p)
  BY <1>10, FactTypes DEF FreeSlot, Unlocked, Label, Flow
<1>. QED
  BY <1>1, <1>2, <1>3, <1>4, <1>5, <1>6, <1>7, <1>8, <1>9, <1>10 DEF Retiring

LEMMA TypeBackground ==
  ASSUME TypeInv, Sweeping \/ Restoring \/ Environment
  PROVE  TypeInv'
<1> USE DEF TypeInv, TypeOK, JobInv, NoJob, Goto, plane, locks, proc, batch
<1>1. CASE SweepPass
  BY <1>1 DEF SweepPass, Expirable, Cleanable
<1>2. CASE SweepTimeout
  BY <1>2 DEF SweepTimeout
<1>3. ASSUME NEW l \in LeaseId, SweepNext(l) PROVE TypeInv'
  BY <1>3, FactTypes DEF SweepNext, Begin, Label, Flow
<1>4. CASE RestoreList
  BY <1>4 DEF RestoreList, Restorable, Label
<1>5. CASE RestoreRoute
  BY <1>5, IdTypes DEF RestoreRoute, Label
<1>6. CASE RestoreDone
  BY <1>6 DEF RestoreDone, Label
<1>7. ASSUME NEW l \in LeaseId, RestoreSlot(l) PROVE TypeInv'
  BY <1>7, IdTypes DEF RestoreSlot, Label
<1>8. CASE Crash
  BY <1>8, FactTypes DEF Crash, Label, Flow
<1>9. ASSUME NEW a \in Attempt, Deadline(a) \/ SlotLapses(a) PROVE TypeInv'
  BY <1>9 DEF Deadline, SlotLapses
<1>. QED
  BY <1>1, <1>2, <1>3, <1>4, <1>5, <1>6, <1>7, <1>8, <1>9
     DEF Sweeping, Restoring, Environment

LEMMA TypeStep == TypeInv /\ [Next]_vars => TypeInv'
<1>1. ASSUME TypeInv, UNCHANGED vars PROVE TypeInv'
  BY <1>1 DEF TypeInv, TypeOK, JobInv, NoJob, vars, plane, locks, proc, batch
<1>. QED
  BY <1>1, TypeAcquiring, TypeRetiring, TypeBackground DEF Next

\* In every reachable state every variable has its type, for any number of
\* accounts, providers, attempts, handlers and restarts and any faults.
THEOREM TypeCorrect == Spec => []TypeOK
<1>1. TypeInv => TypeOK
  BY DEF TypeInv
<1>. QED
  BY <1>1, TypeInit, TypeStep, PTL DEF Spec

-----------------------------------------------------------------------------
(* A lease that was released or has expired never changes again. The        *)
(* argument: a worker writes a record only while it holds the account lock  *)
(* of that record, and only if, under the lock, it had found the record     *)
(* active or failed; nobody else can have changed it since.                 *)

\* Requests name an account by its canonical id.
Canonical == KeyOf \in [Client -> Account]

-----------------------------------------------------------------------------
(* The invariant.                                                           *)

Unsaved == {"provLock", "create", "prepare", "alloc", "upsert", "save"}
Trying  == Unsaved \cup {"undoRoute", "undoSession", "record"}

\* The labels at which a worker holds the account lock of its lease.
Busy == Trying \cup Retire \cup {"refresh", "commit", "giveback", "read", "freeSlot"}

LockInv(p) ==
  /\ flow[p] \in {"acquire", "abort"} => p \in Client /\ acctLock[KeyOf[p]] = p
  /\ pc[p] \in {"lookup", "select"} => flow[p] = "acquire"
  /\ pc[p] \in Trying \cup {"commit"} => flow[p] \in {"acquire", "abort"}
  /\ pc[p] \in Busy => acctLock[Owner(job[p])] = p

\* A lease id not drawn has no record; what is left to clean up has failed.
FactInv ==
  /\ \A l \in LeaseId : l[1] \notin issued => facts[l].st = "none"
  /\ \A l \in LeaseId : Pending(facts[l]) => facts[l].st = "failed"

\* An attempt writes records that do not exist yet.
TryInv(p) ==
  pc[p] \in Trying =>
    /\ job[p] = Own(job[p][1]) /\ job[p][1] \in issued
    /\ copy[p].st = "failed" /\ facts[Failure(job[p][1])].st = "none"
    /\ pc[p] \in Unsaved => facts[job[p]].st = "none"

\* A retire writes a record that is active or failed.
RetireInv(p) ==
  pc[p] \in Retire =>
    /\ facts[job[p]].st \in {"active", "failed"}
    /\ flow[p] = "cleanup" \/ pc[p] = "pending" => copy[p].st = "failed"

WorkerInv(p) == LockInv(p) /\ TryInv(p) /\ RetireInv(p)

LifeInv == TypeInv /\ FactInv /\ \A p \in Worker : WorkerInv(p)

Step(p) == (p \in Client /\ Acquiring(p)) \/ Retiring(p)

LEMMA LifeInit == Init => LifeInv
BY TypeInit DEF Init, LifeInv, FactInv, WorkerInv, LockInv, TryInv, RetireInv,
   NoFact, Pending, Busy, Trying, Unsaved, Retire

-----------------------------------------------------------------------------
(* A step of one worker leaves the others what they have.                   *)

LEMMA OthersAcquiring ==
  ASSUME TypeInv, NEW p \in Client, Acquiring(p), NEW q \in Worker, q # p
  PROVE  /\ pc'[q] = pc[q] /\ flow'[q] = flow[q]
         /\ job'[q] = job[q] /\ copy'[q] = copy[q]
         /\ \A k \in LockKey : acctLock[k] = q => acctLock'[k] = q
<1> USE DEF TypeInv, TypeOK, Goto, Drop, Return, Free, Unlocked, locks
<1>1. CASE AcquireLock(p) \/ Lookup(p) \/ Refresh(p) \/ Select(p) \/ GiveUp(p)
  BY <1>1 DEF AcquireLock, Lookup, Refresh, Select, GiveUp
<1>2. CASE LockProvider(p) \/ CreateSession(p) \/ Prepare(p) \/ LockAllocation(p)
  BY <1>2 DEF LockProvider, CreateSession, Prepare, LockAllocation
<1>3. CASE UpsertRoute(p) \/ SaveActive(p) \/ Commit(p)
  BY <1>3 DEF UpsertRoute, SaveActive, Commit
<1>4. CASE UndoRoute(p) \/ UndoSession(p) \/ Record(p) \/ Giveback(p)
  BY <1>4 DEF UndoRoute, UndoSession, Record, Giveback
<1>. QED
  BY <1>1, <1>2, <1>3, <1>4 DEF Acquiring

LEMMA OthersRetiring ==
  ASSUME TypeInv, NEW p \in Worker, Retiring(p), NEW q \in Worker, q # p
  PROVE  /\ pc'[q] = pc[q] /\ flow'[q] = flow[q]
         /\ job'[q] = job[q] /\ copy'[q] = copy[q]
         /\ \A k \in LockKey : acctLock[k] = q => acctLock'[k] = q
<1> USE DEF TypeInv, TypeOK, Goto, Drop, Return, Free, Unlocked, locks
<1>1. CASE (\E l \in LeaseId : ReleaseLookup(p, l)) \/ LockAccount(p) \/ LockTimeout(p)
  BY <1>1 DEF ReleaseLookup, Begin, LockAccount, LockTimeout
<1>2. CASE Reread(p) \/ DropRoute(p)
  BY <1>2 DEF Reread, DropRoute
<1>3. CASE LockSession(p) \/ DropSession(p)
  BY <1>3 DEF LockSession, DropSession
<1>4. CASE SavePending(p) \/ SaveFinal(p) \/ FreeSlot(p)
  BY <1>4 DEF SavePending, SaveFinal, FreeSlot
<1>. QED
  BY <1>1, <1>2, <1>3, <1>4 DEF Retiring

LEMMA Others ==
  ASSUME TypeInv, NEW p \in Worker, Step(p), NEW q \in Worker, q # p
  PROVE  /\ pc'[q] = pc[q] /\ flow'[q] = flow[q]
         /\ job'[q] = job[q] /\ copy'[q] = copy[q]
         /\ \A k \in LockKey : acctLock[k] = q => acctLock'[k] = q
BY OthersAcquiring, OthersRetiring DEF Step

-----------------------------------------------------------------------------
(* What a step of a worker writes.                                          *)

\* One record, of an account whose lock the worker holds, that has not ended.
Writes(p) ==
  \E l \in LeaseId, f \in Fact :
    /\ facts' = [facts EXCEPT ![l] = f]
    /\ pc[p] \in Busy /\ Owner(l) = Owner(job[p])
    /\ l[1] \in issued /\ ~Terminal(facts[l])
    /\ Pending(f) => f.st = "failed"

LEMMA WritesAcquiring ==
  ASSUME TypeInv, NEW p \in Client, WorkerInv(p), Acquiring(p)
  PROVE  UNCHANGED facts \/ Writes(p)
<1> USE DEF TypeInv, TypeOK
<1>1. CASE AcquireLock(p) \/ Lookup(p) \/ Refresh(p) \/ Select(p) \/ GiveUp(p)
  BY <1>1 DEF AcquireLock, Lookup, Refresh, Select, GiveUp
<1>2. CASE LockProvider(p) \/ CreateSession(p) \/ Prepare(p) \/ LockAllocation(p)
  BY <1>2 DEF LockProvider, CreateSession, Prepare, LockAllocation
<1>3. CASE UpsertRoute(p) \/ Commit(p) \/ UndoRoute(p) \/ UndoSession(p) \/ Giveback(p)
  BY <1>3 DEF UpsertRoute, Commit, UndoRoute, UndoSession, Giveback
<1>4. CASE SaveActive(p)
  <2>1. /\ job[p] \in LeaseId /\ job[p][1] \in issued
        /\ facts[job[p]].st = "none" /\ pc[p] \in Busy
    BY <1>4 DEF SaveActive, WorkerInv, TryInv, JobInv, NoJob, Busy, Trying, Unsaved
  <2>2. ActiveFact \in Fact /\ ~Pending(ActiveFact)
    BY FactTypes DEF ActiveFact, NoFact, Pending
  <2>3. UNCHANGED facts \/ facts' = [facts EXCEPT ![job[p]] = ActiveFact]
    BY <1>4 DEF SaveActive, SaveFails, Saved, NotSaved
  <2>. QED
    BY <2>1, <2>2, <2>3 DEF Writes, Terminal
<1>5. CASE Record(p)
  <2>1. /\ job[p] \in LeaseId /\ job[p][1] \in issued
        /\ facts[Failure(job[p][1])].st = "none" /\ pc[p] \in Busy
        /\ copy[p] \in Fact /\ copy[p].st = "failed"
    BY <1>5 DEF Record, WorkerInv, TryInv, JobInv, NoJob, Busy, Trying, Unsaved
  <2>2. Failure(job[p][1]) \in LeaseId /\ Failure(job[p][1])[1] = job[p][1]
        /\ Owner(Failure(job[p][1])) = Owner(job[p])
    BY <2>1, IdTypes DEF Failure, Owner
  <2>3. UNCHANGED facts \/ facts' = [facts EXCEPT ![Failure(job[p][1])] = copy[p]]
    BY <1>5 DEF Record, Saved, NotSaved
  <2>. QED
    BY <2>1, <2>2, <2>3 DEF Writes, Terminal
<1>. QED
  BY <1>1, <1>2, <1>3, <1>4, <1>5 DEF Acquiring

LEMMA WritesRetiring ==
  ASSUME TypeInv, FactInv, NEW p \in Worker, WorkerInv(p), Retiring(p)
  PROVE  UNCHANGED facts \/ Writes(p)
<1> USE DEF TypeInv, TypeOK
<1>1. CASE (\E l \in LeaseId : ReleaseLookup(p, l)) \/ LockAccount(p) \/ LockTimeout(p)
  BY <1>1 DEF ReleaseLookup, LockAccount, LockTimeout
<1>2. CASE Reread(p) \/ DropRoute(p) \/ LockSession(p) \/ DropSession(p) \/ FreeSlot(p)
  BY <1>2 DEF Reread, DropRoute, LockSession, DropSession, FreeSlot
<1>3. ASSUME pc[p] \in Retire
      PROVE  /\ job[p] \in LeaseId /\ job[p][1] \in issued
             /\ ~Terminal(facts[job[p]]) /\ pc[p] \in Busy
  BY <1>3, IdTypes DEF WorkerInv, RetireInv, FactInv, JobInv, NoJob, Busy, Retire, Terminal
<1>4. CASE SavePending(p)
  <2>1. pc[p] \in Retire /\ copy[p] \in Fact /\ copy[p].st = "failed"
    BY <1>4 DEF SavePending, WorkerInv, RetireInv, Retire
  <2>2. UNCHANGED facts \/ facts' = [facts EXCEPT ![job[p]] = copy[p]]
    BY <1>4 DEF SavePending, SaveFails, Saved, NotSaved
  <2>. QED
    BY <1>3, <2>1, <2>2 DEF Writes
<1>5. CASE SaveFinal(p)
  <2> DEFINE f == Finished(flow[p], copy[p])
  <2>1. pc[p] \in Retire /\ f \in Fact
    BY <1>5, RetireTypes DEF SaveFinal, Retire
  <2>2. ~Pending(f)
    BY DEF Finished, Pending, Fact
  <2>3. UNCHANGED facts \/ facts' = [facts EXCEPT ![job[p]] = f]
    BY <1>5 DEF SaveFinal, SaveFails, Saved, NotSaved
  <2>. QED
    BY <1>3, <2>1, <2>2, <2>3 DEF Writes
<1>. QED
  BY <1>1, <1>2, <1>4, <1>5 DEF Retiring

LEMMA StepWrites ==
  ASSUME TypeInv, FactInv, NEW p \in Worker, WorkerInv(p), Step(p)
  PROVE  UNCHANGED facts \/ Writes(p)
BY WritesAcquiring, WritesRetiring DEF Step

LEMMA IssuedGrows ==
  ASSUME TypeInv, NEW p \in Worker, Step(p)
  PROVE  issued \subseteq issued'
<1>1. CASE p \in Client /\ Acquiring(p)
  BY <1>1 DEF Acquiring, AcquireLock, Lookup, Refresh, Select, GiveUp,
     LockProvider, CreateSession, Prepare, LockAllocation, UpsertRoute,
     SaveActive, Commit, UndoRoute, UndoSession, Record, Giveback, plane
<1>2. CASE Retiring(p)
  BY <1>2 DEF Retiring, ReleaseLookup, LockAccount, LockTimeout, Reread,
     DropRoute, LockSession, DropSession, SavePending, SaveFinal, FreeSlot, plane
<1>. QED
  BY <1>1, <1>2 DEF Step

LEMMA FactStep ==
  ASSUME TypeInv, FactInv, NEW p \in Worker, WorkerInv(p), Step(p)
  PROVE  FactInv'
BY StepWrites, IssuedGrows DEF Writes, FactInv, TypeInv, TypeOK, Pending

\* Nobody else changes the records of an account whose lease is in hand.
LEMMA OthersRecord ==
  ASSUME TypeInv, FactInv, NEW p \in Worker, WorkerInv(p), Step(p),
         NEW q \in Worker, q # p, WorkerInv(q), pc[q] \in Busy,
         NEW m \in LeaseId, Owner(m) = Owner(job[q])
  PROVE  facts'[m] = facts[m]
<1>1. /\ acctLock[Owner(job[q])] = q
      /\ pc[p] \in Busy => acctLock[Owner(job[p])] = p
  BY DEF WorkerInv, LockInv
<1>. QED
  BY <1>1, StepWrites DEF Writes, TypeInv, TypeOK

LEMMA OthersStep ==
  ASSUME TypeInv, FactInv, NEW p \in Worker, WorkerInv(p), Step(p),
         NEW q \in Worker, q # p, WorkerInv(q)
  PROVE  WorkerInv(q)'
<1> USE DEF TypeInv, TypeOK, WorkerInv
<1>1. LockInv(q)'
  <2>1. q \in Client => KeyOf[q] \in LockKey
    OBVIOUS
  <2>2. pc[q] \in Busy => job[q] \in LeaseId /\ Owner(job[q]) \in LockKey
    BY IdTypes DEF JobInv, NoJob, Busy, Trying, Unsaved, Retire
  <2>. QED
    BY <2>1, <2>2, Others DEF LockInv
<1>2. ASSUME pc[q] \in Trying \cup Retire, NEW m \in LeaseId, Owner(m) = Owner(job[q])
      PROVE  facts'[m] = facts[m]
  BY <1>2, OthersRecord DEF Busy
<1>3. TryInv(q)'
  <2>1. pc[q] \in Trying =>
          /\ job[q] \in LeaseId /\ Failure(job[q][1]) \in LeaseId
          /\ Owner(Failure(job[q][1])) = Owner(job[q])
    BY IdTypes DEF JobInv, NoJob, Trying, Unsaved, Failure, Owner
  <2>. QED
    BY <1>2, <2>1, Others, IssuedGrows DEF TryInv
<1>4. RetireInv(q)'
  <2>1. pc[q] \in Retire => job[q] \in LeaseId
    BY DEF JobInv, NoJob, Retire
  <2>. QED
    BY <1>2, <2>1, Others DEF RetireInv
<1>. QED
  BY <1>1, <1>3, <1>4

-----------------------------------------------------------------------------
(* The worker that takes the step.                                          *)

LEMMA LabelStatus ==
  ASSUME NEW f \in Fact, NEW what
  PROVE  Marked(f, what).st = f.st /\ Cleared(f, what).st = f.st
BY DEF Fact, Marked, Cleared

LEMMA FailureStatus ==
  ASSUME NEW f \in Fact, NEW op, NEW what
  PROVE  /\ op = "cleanup" => AfterFailure(op, f, what) = f
         /\ op # "cleanup" => AfterFailure(op, f, what).st = "failed"
BY DEF Fact, Marked, AfterFailure

\* An operation that returned holds nothing and writes nothing.
LEMMA ReturnInv ==
  ASSUME TypeInv, NEW p \in Worker, Return(p)
  PROVE  WorkerInv(p)'
<1>1. pc'[p] = "idle" /\ flow'[p] = "none"
  BY DEF TypeInv, TypeOK, Return, Drop, Goto
<1>. QED
  BY <1>1 DEF WorkerInv, LockInv, TryInv, RetireInv, Busy, Trying, Unsaved, Retire

\* A step on the same lease that touches neither its record nor the account lock.
LEMMA SameJob ==
  ASSUME NEW p \in Worker, WorkerInv(p),
         UNCHANGED <<facts, issued, acctLock>>, job'[p] = job[p],
         \/ flow'[p] = flow[p]
         \/ pc[p] \in Trying \cup {"commit"} /\ flow'[p] = "abort",
         pc[p] \in Busy, pc'[p] \notin {"lookup", "select", "commit"},
         pc'[p] \in Unsaved => pc[p] \in Unsaved,
         pc'[p] \in Trying => pc[p] \in Trying /\ copy'[p].st = "failed",
         pc'[p] \in Retire =>
           /\ pc[p] \in Retire
           /\ flow[p] = "cleanup" \/ pc'[p] = "pending" => copy'[p].st = "failed"
  PROVE  WorkerInv(p)'
BY DEF WorkerInv, LockInv, TryInv, RetireInv, Failure

LEMMA OwnAcquiring ==
  ASSUME Canonical, TypeInv, FactInv, NEW p \in Client, WorkerInv(p), Acquiring(p)
  PROVE  WorkerInv(p)'
<1> USE DEF TypeInv, TypeOK, WorkerInv, LockInv, TryInv, RetireInv, Canonical,
            Busy, Trying, Unsaved, Retire, Goto
<1>1. CASE AcquireLock(p)
  BY <1>1 DEF AcquireLock, Drop
<1>2. CASE Lookup(p)
  BY <1>2 DEF Lookup, Existing, locks
<1>3. CASE Refresh(p) \/ GiveUp(p)
  BY <1>3 DEF Refresh, GiveUp, Return, Drop
<1>4. CASE Select(p)
  <2>1. PICK a \in Attempt \ issued :
          /\ AccountOf[a] = Resolve[KeyOf[p]]
          /\ issued' = issued \cup {a}
          /\ job' = [job EXCEPT ![p] = Own(a)]
          /\ copy' = [copy EXCEPT ![p] = FailedFact]
    BY <1>4 DEF Select
  <2>2. Own(a)[1] = a /\ Failure(a)[1] = a /\ Owner(Own(a)) = KeyOf[p]
    BY <2>1 DEF Own, Failure, Owner
  <2>3. facts[Own(a)].st = "none" /\ facts[Failure(a)].st = "none"
    BY <2>1, <2>2, IdTypes DEF FactInv
  <2>. QED
    BY <1>4, <2>1, <2>2, <2>3 DEF Select, locks, FailedFact, NoFact
<1>5. CASE LockProvider(p)
  <2>1. /\ pc[p] = "provLock" /\ pc'[p] \in {"create", "giveback"}
        /\ flow'[p] \in {flow[p], "abort"}
    BY <1>5 DEF LockProvider
  <2>. QED
    BY <1>5, <2>1, SameJob DEF LockProvider, plane
<1>6. CASE CreateSession(p)
  BY <1>6, SameJob DEF CreateSession, locks
<1>7. CASE Prepare(p)
  BY <1>7, SameJob DEF Prepare, plane, locks
<1>8. CASE LockAllocation(p)
  <2>1. /\ pc[p] = "alloc" /\ pc'[p] \in {"upsert", "giveback"}
        /\ flow'[p] \in {flow[p], "abort"}
    BY <1>8 DEF LockAllocation
  <2>. QED
    BY <1>8, <2>1, SameJob DEF LockAllocation, plane
<1>9. CASE UpsertRoute(p)
  BY <1>9, SameJob DEF UpsertRoute, locks
<1>10. CASE SaveActive(p)
  <2>1. job[p] # Failure(job[p][1]) /\ Failure(job[p][1]) \in LeaseId
    BY <1>10, IdTypes DEF SaveActive, Own, Failure, JobInv, NoJob
  <2>2. facts'[Failure(job[p][1])] = facts[Failure(job[p][1])]
    BY <1>10, <2>1 DEF SaveActive, SaveFails, Saved, NotSaved
  <2>3. /\ pc[p] = "save" /\ pc'[p] \in {"commit", "undoRoute"}
        /\ flow'[p] \in {flow[p], "abort"}
        /\ UNCHANGED <<job, copy, acctLock, issued>>
    BY <1>10 DEF SaveActive, plane, locks
  <2>. QED
    BY <2>2, <2>3
<1>11. CASE Commit(p)
  <2>1. CASE Return(p)
    BY <2>1, ReturnInv
  <2>2. CASE /\ Goto(p, "giveback") /\ flow' = [flow EXCEPT ![p] = "abort"]
             /\ UNCHANGED <<locks, job, copy, facts, plane>>
    BY <1>11, <2>2, SameJob DEF Commit, plane, locks
  <2>. QED
    BY <1>11, <2>1, <2>2 DEF Commit
<1>12. CASE UndoRoute(p)
  <2>1. pc[p] = "undoRoute" /\ pc'[p] = "undoSession" /\ copy[p].st = "failed"
    BY <1>12 DEF UndoRoute
  <2>2. copy'[p] \in {copy[p], Marked(copy[p], "route")}
    BY <1>12 DEF UndoRoute
  <2>3. copy[p] \in Fact
    OBVIOUS
  <2>4. Marked(copy[p], "route").st = "failed"
    BY <2>1, <2>3, LabelStatus
  <2>5. copy'[p].st = "failed"
    BY <2>1, <2>2, <2>4
  <2>. QED
    BY <1>12, <2>1, <2>5, SameJob DEF UndoRoute, locks
<1>13. CASE UndoSession(p)
  <2>1. pc[p] = "undoSession" /\ pc'[p] = "record" /\ copy[p].st = "failed"
    BY <1>13 DEF UndoSession
  <2>2. copy'[p] \in {copy[p], Marked(copy[p], "prov")}
    BY <1>13 DEF UndoSession
  <2>3. copy[p] \in Fact
    OBVIOUS
  <2>4. Marked(copy[p], "prov").st = "failed"
    BY <2>1, <2>3, LabelStatus
  <2>5. copy'[p].st = "failed"
    BY <2>1, <2>2, <2>4
  <2>. QED
    BY <1>13, <2>1, <2>5, SameJob DEF UndoSession, locks
<1>14. CASE Record(p)
  BY <1>14 DEF Record, locks
<1>15. CASE Giveback(p)
  BY <1>15 DEF Giveback, Return, Drop
<1>. QED
  BY <1>1, <1>2, <1>3, <1>4, <1>5, <1>6, <1>7, <1>8, <1>9, <1>10, <1>11,
     <1>12, <1>13, <1>14, <1>15 DEF Acquiring

LEMMA OwnRetiring ==
  ASSUME TypeInv, FactInv, NEW p \in Worker, WorkerInv(p), Retiring(p)
  PROVE  WorkerInv(p)'
<1> USE DEF TypeInv, TypeOK, WorkerInv, LockInv, TryInv, RetireInv,
            Busy, Trying, Unsaved, Retire, Goto
<1>1. ASSUME NEW l \in LeaseId, ReleaseLookup(p, l) PROVE WorkerInv(p)'
  BY <1>1 DEF ReleaseLookup, Begin, locks
<1>2. CASE LockAccount(p)
  BY <1>2, IdTypes DEF LockAccount, JobInv, NoJob, Free
<1>3. CASE LockTimeout(p)
  BY <1>3 DEF LockTimeout, Return, Drop
<1>4. CASE Reread(p)
  <2>1. job[p] \in LeaseId
    BY <1>4 DEF Reread, JobInv, NoJob
  <2>2. CASE Wanted(flow[p], job[p], facts[job[p]]) /\ UNCHANGED <<flow, job, acctLock>>
    <3>1. /\ facts[job[p]].st \in {"active", "failed"}
          /\ flow[p] = "cleanup" => facts[job[p]].st = "failed"
      BY <2>1, <2>2 DEF Wanted, FactInv
    <3>2. /\ copy'[p] = facts[job[p]] \/ Return(p)
          /\ pc'[p] \in {"sessLock", "dropRoute", "idle"} /\ UNCHANGED facts
          /\ pc[p] = "read"
      BY <1>4 DEF Reread, Return, Drop
    <3>3. CASE Return(p)
      BY <3>3, ReturnInv
    <3>. QED
      BY <2>2, <3>1, <3>2, <3>3
  <2>3. CASE Return(p)
    BY <2>3, ReturnInv
  <2>. QED
    BY <1>4, <2>2, <2>3 DEF Reread
<1>5. CASE DropRoute(p)
  <2>1. /\ pc[p] = "dropRoute" /\ pc'[p] \in {"final", "sessLock", "pending"}
        /\ flow[p] = "cleanup" => copy[p].st = "failed"
    BY <1>5 DEF DropRoute
  <2>2. \/ copy'[p] = Cleared(copy[p], "route") /\ pc'[p] # "pending"
        \/ copy'[p] = AfterFailure(flow[p], copy[p], "route")
    BY <1>5 DEF DropRoute
  <2>3. copy[p] \in Fact
    OBVIOUS
  <2>4. /\ Cleared(copy[p], "route").st = copy[p].st
        /\ AfterFailure(flow[p], copy[p], "route").st = "failed"
    BY <2>1, <2>3, LabelStatus, FailureStatus
  <2>5. flow[p] = "cleanup" \/ pc'[p] = "pending" => copy'[p].st = "failed"
    BY <2>1, <2>2, <2>4
  <2>. QED
    BY <1>5, <2>1, <2>5, SameJob DEF DropRoute, locks
<1>6. CASE LockSession(p)
  <2>1. CASE Return(p)
    BY <2>1, ReturnInv
  <2>2. CASE /\ UNCHANGED <<acctLock, flow, job, copy>>
             /\ Goto(p, "dropSession")
    BY <1>6, <2>2, SameJob DEF LockSession, plane
  <2>3. CASE /\ UNCHANGED <<acctLock, flow, job>>
             /\ copy' = [copy EXCEPT ![p] = AfterFailure(flow[p], @, "prov")]
             /\ Goto(p, "pending") /\ flow[p] # "cleanup"
    <3>1. copy'[p].st = "failed"
      BY <2>3, FailureStatus
    <3>. QED
      BY <1>6, <2>3, <3>1, SameJob DEF LockSession, plane
  <2>. QED
    BY <1>6, <2>1, <2>2, <2>3 DEF LockSession
<1>7. CASE DropSession(p)
  <2>1. /\ pc[p] = "dropSession" /\ pc'[p] \in {"final", "pending"}
        /\ flow[p] = "cleanup" => copy[p].st = "failed"
    BY <1>7 DEF DropSession
  <2>2. \/ copy'[p] = Cleared(copy[p], "prov") /\ pc'[p] # "pending"
        \/ copy'[p] = AfterFailure(flow[p], copy[p], "prov")
    BY <1>7 DEF DropSession
  <2>3. copy[p] \in Fact
    OBVIOUS
  <2>4. /\ Cleared(copy[p], "prov").st = copy[p].st
        /\ AfterFailure(flow[p], copy[p], "prov").st = "failed"
    BY <2>1, <2>3, LabelStatus, FailureStatus
  <2>5. flow[p] = "cleanup" \/ pc'[p] = "pending" => copy'[p].st = "failed"
    BY <2>1, <2>2, <2>4
  <2>. QED
    BY <1>7, <2>1, <2>5, SameJob DEF DropSession
<1>8. CASE SavePending(p)
  BY <1>8 DEF SavePending, Return, Drop
<1>9. CASE SaveFinal(p)
  BY <1>9 DEF SaveFinal, Return, Drop
<1>10. CASE FreeSlot(p)
  BY <1>10 DEF FreeSlot, Return, Drop
<1>. QED
  BY <1>1, <1>2, <1>3, <1>4, <1>5, <1>6, <1>7, <1>8, <1>9, <1>10 DEF Retiring

LEMMA WorkerStep ==
  ASSUME Canonical, LifeInv, NEW p \in Worker, Step(p)
  PROVE  LifeInv'
<1>1. TypeInv'
  BY TypeAcquiring, TypeRetiring DEF LifeInv, Step
<1>2. FactInv'
  BY FactStep DEF LifeInv
<1>3. ASSUME NEW q \in Worker PROVE WorkerInv(q)'
  BY OwnAcquiring, OwnRetiring, OthersStep DEF LifeInv, Step
<1>. QED
  BY <1>1, <1>2, <1>3 DEF LifeInv

\* What changes none of the variables of the invariant preserves it.
LEMMA Untouched ==
  ASSUME LifeInv, TypeInv', UNCHANGED <<facts, issued, acctLock>>,
         \A q \in Worker : /\ pc'[q] = pc[q] /\ flow'[q] = flow[q]
                           /\ job'[q] = job[q] /\ copy'[q] = copy[q]
  PROVE  LifeInv'
BY DEF LifeInv, FactInv, WorkerInv, LockInv, TryInv, RetireInv

LEMMA BackgroundStep ==
  ASSUME LifeInv, Sweeping \/ Restoring \/ Environment
  PROVE  LifeInv' /\ UNCHANGED facts
<1>0. TypeInv /\ TypeInv'
  BY TypeBackground DEF LifeInv
<1>1. CASE SweepPass \/ SweepTimeout
  BY <1>0, <1>1, Untouched DEF SweepPass, SweepTimeout, plane, locks, proc
<1>2. ASSUME NEW l \in LeaseId, SweepNext(l) PROVE LifeInv' /\ UNCHANGED facts
  <2>1. UNCHANGED <<facts, issued, acctLock>>
    BY <1>2 DEF SweepNext, plane, locks
  <2>2. pc'[Sweeper] = "lock" /\ flow'[Sweeper] \in {"expire", "cleanup"}
    BY <1>0, <1>2 DEF SweepNext, Begin, Goto, TypeInv, TypeOK
  <2>3. WorkerInv(Sweeper)'
    BY <2>2 DEF WorkerInv, LockInv, TryInv, RetireInv, Busy, Trying, Unsaved, Retire
  <2>4. ASSUME NEW q \in Client PROVE WorkerInv(q)'
    <3>1. /\ pc'[q] = pc[q] /\ flow'[q] = flow[q]
          /\ job'[q] = job[q] /\ copy'[q] = copy[q]
      BY <1>0, <1>2 DEF SweepNext, Begin, Goto, TypeInv, TypeOK
    <3>. QED
      BY <2>1, <3>1 DEF LifeInv, WorkerInv, LockInv, TryInv, RetireInv
  <2>. QED
    BY <1>0, <2>1, <2>3, <2>4 DEF LifeInv, FactInv
<1>3. CASE RestoreList \/ RestoreRoute \/ RestoreDone
  BY <1>0, <1>3, Untouched DEF RestoreList, RestoreRoute, RestoreDone, Goto,
     TypeInv, TypeOK, plane, locks
<1>4. ASSUME NEW l \in LeaseId, RestoreSlot(l) PROVE LifeInv' /\ UNCHANGED facts
  BY <1>0, <1>4, Untouched DEF RestoreSlot, Goto, TypeInv, TypeOK, locks
<1>5. CASE Crash
  <2>1. ASSUME NEW q \in Worker PROVE WorkerInv(q)'
    BY <1>5 DEF Crash, WorkerInv, LockInv, TryInv, RetireInv, Busy, Trying,
       Unsaved, Retire
  <2>. QED
    BY <1>0, <1>5, <2>1 DEF Crash, LifeInv, FactInv
<1>6. ASSUME NEW a \in Attempt, Deadline(a) \/ SlotLapses(a)
      PROVE  LifeInv' /\ UNCHANGED facts
  BY <1>0, <1>6, Untouched DEF Deadline, SlotLapses, locks, proc
<1>. QED
  BY <1>1, <1>2, <1>3, <1>4, <1>5, <1>6 DEF Sweeping, Restoring, Environment

LEMMA LifeStep == ASSUME Canonical PROVE LifeInv /\ [Next]_vars => LifeInv'
<1>1. ASSUME LifeInv, UNCHANGED vars PROVE LifeInv'
  <2>1. TypeInv'
    BY <1>1, TypeStep DEF LifeInv
  <2>. QED
    BY <1>1, <2>1 DEF LifeInv, FactInv, WorkerInv, LockInv, TryInv, RetireInv,
       vars, plane, locks, proc
<1>2. ASSUME LifeInv, Next PROVE LifeInv'
  BY <1>2, WorkerStep, BackgroundStep DEF Next, Step
<1>. QED
  BY <1>1, <1>2

LEMMA TerminalStep ==
  ASSUME LifeInv, [Next]_vars, NEW l \in LeaseId, Terminal(facts[l])
  PROVE  facts'[l] = facts[l]
<1>1. UNCHANGED facts \/ \E p \in Worker : Writes(p)
  BY StepWrites, BackgroundStep DEF Next, Step, vars, LifeInv
<1>. QED
  BY <1>1 DEF Writes, LifeInv, TypeInv, TypeOK

\* A released or expired lease never changes again: no release, expiry, late
\* cleanup, replacing acquire or restart brings it back or rewrites it, for any
\* number of accounts, leases and processes, under every fault and restart,
\* when requests name accounts canonically (else the acquire of an alias and
\* the retire of the account's lease hold different locks).
THEOREM TerminalFixed == ASSUME Canonical PROVE Spec => TerminalStays
<1>1. LifeInv /\ [Next]_vars => LifeInv'
  BY LifeStep
<1>2. LifeInv /\ [Next]_vars
        => [\A l \in LeaseId : Terminal(facts[l]) => facts'[l] = facts[l]]_vars
  BY TerminalStep
<1>. QED
  BY <1>1, <1>2, LifeInit, PTL DEF Spec, TerminalStays

-----------------------------------------------------------------------------
(* What the steps of a worker change.                                       *)

LEMMA AcquiringEffects ==
  ASSUME TypeInv, NEW p \in Client, Acquiring(p)
  PROVE  /\ UNCHANGED <<due, batch>>
         /\ pc'[Restorer] = pc[Restorer] /\ job'[Restorer] = job[Restorer]
         /\ UpsertRoute(p) \/ UndoRoute(p) \/ UNCHANGED routes
         /\ CreateSession(p) \/ UndoSession(p) \/ UNCHANGED sessions
         /\ SaveActive(p) \/ Record(p) \/ UNCHANGED facts
         /\ Giveback(p) \/ slots \subseteq slots'
<1> USE DEF TypeInv, TypeOK, Goto, Drop, Return, plane, batch
<1>1. CASE AcquireLock(p) \/ Lookup(p) \/ Refresh(p) \/ Select(p) \/ GiveUp(p)
  BY <1>1 DEF AcquireLock, Lookup, Refresh, Select, GiveUp
<1>2. CASE LockProvider(p) \/ CreateSession(p) \/ Prepare(p) \/ LockAllocation(p)
  BY <1>2 DEF LockProvider, CreateSession, Prepare, LockAllocation
<1>3. CASE UpsertRoute(p) \/ SaveActive(p) \/ Commit(p)
  BY <1>3 DEF UpsertRoute, SaveActive, Commit
<1>4. CASE UndoRoute(p) \/ UndoSession(p) \/ Record(p) \/ Giveback(p)
  BY <1>4 DEF UndoRoute, UndoSession, Record, Giveback
<1>. QED
  BY <1>1, <1>2, <1>3, <1>4 DEF Acquiring

LEMMA RetiringEffects ==
  ASSUME TypeInv, NEW p \in Worker, Retiring(p)
  PROVE  /\ UNCHANGED <<due, issued, batch>>
         /\ pc'[Restorer] = pc[Restorer] /\ job'[Restorer] = job[Restorer]
         /\ DropRoute(p) \/ UNCHANGED routes
         /\ DropSession(p) \/ UNCHANGED sessions
         /\ SavePending(p) \/ SaveFinal(p) \/ UNCHANGED facts
         /\ FreeSlot(p) \/ UNCHANGED slots
<1> USE DEF TypeInv, TypeOK, Goto, Drop, Return, plane, batch
<1>1. CASE (\E l \in LeaseId : ReleaseLookup(p, l)) \/ LockAccount(p) \/ LockTimeout(p)
  BY <1>1 DEF ReleaseLookup, Begin, LockAccount, LockTimeout
<1>2. CASE Reread(p) \/ DropRoute(p)
  BY <1>2 DEF Reread, DropRoute
<1>3. CASE LockSession(p) \/ DropSession(p)
  BY <1>3 DEF LockSession, DropSession
<1>4. CASE SavePending(p) \/ SaveFinal(p) \/ FreeSlot(p)
  BY <1>4 DEF SavePending, SaveFinal, FreeSlot
<1>. QED
  BY <1>1, <1>2, <1>3, <1>4 DEF Retiring

LEMMA BackgroundEffects ==
  ASSUME TypeInv, Sweeping \/ Restoring \/ Environment
  PROVE  /\ UNCHANGED <<issued, sessions>> /\ due \subseteq due'
         /\ \A q \in Worker :
              \/ /\ pc'[q] = pc[q] /\ flow'[q] = flow[q]
                 /\ job'[q] = job[q] /\ copy'[q] = copy[q]
              \/ pc'[q] \in {"idle", "lock"} /\ flow'[q] \notin {"acquire", "abort"}
<1> USE DEF TypeInv, TypeOK, Goto, plane, locks, proc, batch
<1>1. CASE SweepPass \/ SweepTimeout
  BY <1>1 DEF SweepPass, SweepTimeout
<1>2. ASSUME NEW l \in LeaseId, SweepNext(l)
      PROVE  /\ UNCHANGED <<issued, sessions, due>>
             /\ pc'[Sweeper] = "lock" /\ flow'[Sweeper] \in {"expire", "cleanup"}
             /\ \A q \in Client : /\ pc'[q] = pc[q] /\ flow'[q] = flow[q]
                                  /\ job'[q] = job[q] /\ copy'[q] = copy[q]
  BY <1>2 DEF SweepNext, Begin
<1>3. CASE RestoreList \/ RestoreRoute \/ RestoreDone
  BY <1>3 DEF RestoreList, RestoreRoute, RestoreDone
<1>4. ASSUME NEW l \in LeaseId, RestoreSlot(l)
      PROVE  /\ UNCHANGED <<issued, sessions, due>>
             /\ \A q \in Worker : /\ pc'[q] = pc[q] /\ flow'[q] = flow[q]
                                  /\ job'[q] = job[q] /\ copy'[q] = copy[q]
  BY <1>4 DEF RestoreSlot
<1>5. CASE Crash
  BY <1>5 DEF Crash
<1>6. ASSUME NEW a \in Attempt, Deadline(a) \/ SlotLapses(a)
      PROVE  /\ UNCHANGED <<issued, sessions, proc>> /\ due \subseteq due'
  BY <1>6 DEF Deadline, SlotLapses
<1>. QED
  BY <1>1, <1>2, <1>3, <1>4, <1>5, <1>6 DEF Sweeping, Restoring, Environment

\* Only the save of an acquire makes a record active.
LEMMA NewActive ==
  ASSUME TypeInv, NEW p \in Worker, WorkerInv(p), Step(p),
         NEW l \in LeaseId, facts'[l].st = "active"
  PROVE  facts[l].st = "active" \/ (SaveActive(p) /\ l = job[p])
<1> USE DEF TypeInv, TypeOK
<1>1. CASE SaveActive(p)
  BY <1>1 DEF SaveActive, SaveFails, Saved, NotSaved
<1>2. CASE Record(p)
  <2>1. copy[p].st = "failed"
    BY <1>2 DEF Record, WorkerInv, TryInv, Trying
  <2>. QED
    BY <1>2, <2>1 DEF Record, Saved, NotSaved
<1>3. CASE SavePending(p)
  <2>1. copy[p].st = "failed"
    BY <1>3 DEF SavePending, WorkerInv, RetireInv, Retire
  <2>. QED
    BY <1>3, <2>1 DEF SavePending, SaveFails, Saved, NotSaved
<1>4. CASE SaveFinal(p)
  <2> DEFINE f == Finished(flow[p], copy[p])
  <2>1. f.st # "active"
    <3>1. copy[p] \in Fact /\ (flow[p] = "cleanup" => copy[p].st = "failed")
      BY <1>4 DEF SaveFinal, WorkerInv, RetireInv, Retire
    <3>. QED
      BY <3>1 DEF Finished, FinalOf, Fact
  <2>2. UNCHANGED facts \/ facts' = [facts EXCEPT ![job[p]] = f]
    BY <1>4 DEF SaveFinal, SaveFails, Saved, NotSaved
  <2>. QED
    BY <2>1, <2>2
<1>5. CASE UNCHANGED facts
  BY <1>5
<1>. QED
  BY <1>1, <1>2, <1>3, <1>4, <1>5, AcquiringEffects, RetiringEffects DEF Step

\* The record of a failed acquire is never an active one.
FailureInv == \A a \in Attempt : facts[Failure(a)].st # "active"

LEMMA FailureInit == Init => FailureInv
BY IdTypes DEF Init, FailureInv, NoFact

LEMMA FailureStep == ASSUME LifeInv, FailureInv, [Next]_vars PROVE FailureInv'
<1>1. CASE UNCHANGED facts
  BY <1>1 DEF FailureInv
<1>2. ASSUME NEW p \in Worker, Step(p) PROVE FailureInv'
  <2>. SUFFICES ASSUME NEW a \in Attempt, facts'[Failure(a)].st = "active"
                PROVE  FALSE
    BY DEF FailureInv
  <2>1. SaveActive(p) /\ Failure(a) = job[p]
    BY <1>2, IdTypes, NewActive DEF FailureInv, LifeInv
  <2>2. job[p] = Own(job[p][1])
    BY <2>1 DEF SaveActive, LifeInv, WorkerInv, TryInv, Trying, Unsaved
  <2>. QED
    BY <2>1, <2>2 DEF Own, Failure
<1>. QED
  BY <1>1, <1>2, BackgroundStep DEF Next, Step, vars

-----------------------------------------------------------------------------
(* One active lease of an account.                                          *)

\* All requests for an account ask for the same session, or all for none.
OneAsk == \A p, q \in Client : KeyOf[p] = KeyOf[q] => AskOf[p] = AskOf[q]

\* An acquire that attempts a new lease has found none, under the lock it
\* still holds, or holds the only one and is retiring it.
FreshInv(p) ==
  /\ pc[p] \in {"lock", "read"} => flow[p] \notin {"acquire", "abort"}
  /\ pc[p] \in Unsaved => flow[p] = "acquire"
  /\ flow[p] \in {"acquire", "abort"} /\ pc[p] \in Busy => Owner(job[p]) = KeyOf[p]
  /\ flow[p] = "acquire" /\ pc[p] \in {"select", "freeSlot", "giveback"} \cup Trying
       => Existing(KeyOf[p], NoSession) = {}
  /\ flow[p] = "acquire" /\ pc[p] \in Retire
       => Existing(KeyOf[p], NoSession) \subseteq {job[p]}

\* The leases of an account are of the session its requests ask for, so that
\* the lookup of that session finds them all.
NamedInv ==
  \A a \in issued, p \in Client :
    KeyOf[p] = AccountOf[a] /\ AskOf[p] # NoSession => SessionOf[a] = AskOf[p]

OneInv == LifeInv /\ OneActivePerAccount /\ NamedInv /\ \A p \in Worker : FreshInv(p)

LEMMA OneInit == Init => OneInv
BY LifeInit DEF Init, OneInv, OneActivePerAccount, Existing, NamedInv, FreshInv,
   NoFact, Busy, Trying, Unsaved, Retire

\* No step but the save of an acquire adds to the current leases of an account.
LEMMA ExistingShrinks ==
  ASSUME TypeInv, NEW p \in Worker, WorkerInv(p), Step(p), NEW c,
         SaveActive(p) => Owner(job[p]) # c
  PROVE  Existing(c, NoSession)' \subseteq Existing(c, NoSession)
<1>1. UNCHANGED due
  BY AcquiringEffects, RetiringEffects DEF Step
<1>. QED
  BY <1>1, NewActive DEF Existing

LEMMA FreshOthers ==
  ASSUME Canonical, LifeInv, NEW p \in Worker, Step(p),
         NEW q \in Worker, q # p, FreshInv(q)
  PROVE  FreshInv(q)'
<1>1. /\ pc'[q] = pc[q] /\ flow'[q] = flow[q] /\ job'[q] = job[q]
  BY Others DEF LifeInv
<1>2. ASSUME flow[q] = "acquire"
      PROVE  Existing(KeyOf[q], NoSession)' \subseteq Existing(KeyOf[q], NoSession)
  <2>1. q \in Client /\ acctLock[KeyOf[q]] = q
    BY <1>2 DEF LifeInv, WorkerInv, LockInv
  <2>2. SaveActive(p) => acctLock[Owner(job[p])] = p
    BY DEF LifeInv, WorkerInv, LockInv, SaveActive, Busy, Trying, Unsaved
  <2>. QED
    BY <2>1, <2>2, ExistingShrinks DEF LifeInv
<1>. QED
  BY <1>1, <1>2 DEF FreshInv

\* A step of an acquire on the same lease that saves nothing.
LEMMA FreshSame ==
  ASSUME NEW p \in Client, FreshInv(p), UNCHANGED <<facts, due>>, job'[p] = job[p],
         flow'[p] \in {flow[p], "abort"}, pc[p] \in Busy, pc[p] # "read",
         flow'[p] = "abort" => pc[p] \in Trying \cup {"commit"},
         flow[p] \in {"acquire", "abort"},
         pc'[p] \in Trying \cup {"giveback"},
         pc'[p] \in Unsaved => pc[p] \in Unsaved /\ flow'[p] = flow[p],
         flow'[p] = "acquire" => pc[p] \in Trying
  PROVE  FreshInv(p)'
BY DEF FreshInv, Existing, Trying, Unsaved, Retire

LEMMA FreshAcquiring ==
  ASSUME Canonical, "lookup" \notin Faults, LifeInv, OneActivePerAccount, NamedInv,
         NEW p \in Client, FreshInv(p), Acquiring(p)
  PROVE  FreshInv(p)'
<1> USE DEF TypeInv, TypeOK, LifeInv, WorkerInv, LockInv, Canonical, Goto, plane
<1>0. /\ UNCHANGED due
      /\ Resolve[KeyOf[p]] = KeyOf[p]
  BY AcquiringEffects
<1>1. CASE AcquireLock(p)
  BY <1>1 DEF AcquireLock, Drop, FreshInv, Busy, Trying, Unsaved, Retire
<1>2. CASE Lookup(p)
  <2> DEFINE found == Existing(Resolve[KeyOf[p]], AskOf[p])
  <2>1. Existing(KeyOf[p], NoSession) = found
    <3>1. ASSUME NEW l \in LeaseId, Owner(l) = KeyOf[p], facts[l].st = "active",
                 AskOf[p] # NoSession
          PROVE  Key(l) = AskOf[p]
      <4>1. l[1] \in issued /\ l[1] \in Attempt
        BY <3>1, IdTypes DEF FactInv
      <4>. QED
        BY <3>1, <4>1 DEF NamedInv, Owner, Key
    <3>. QED
      BY <1>0, <3>1 DEF Existing
  <2>2. flow[p] = "acquire" /\ UNCHANGED <<facts, flow>>
    BY <1>2 DEF Lookup
  <2>3. UNCHANGED Existing(KeyOf[p], NoSession)
    BY <1>0, <2>2 DEF Existing
  <2>4. CASE pc'[p] = "select"
    <3>1. found = {}
      BY <1>2, <2>4 DEF Lookup
    <3>. QED
      BY <2>1, <2>2, <2>3, <2>4, <3>1 DEF FreshInv, Busy, Trying, Unsaved, Retire
  <2>5. CASE pc'[p] # "select"
    <3>1. PICK l \in found : job'[p] = l /\ pc'[p] \in {"refresh", "dropRoute"}
      BY <1>2, <2>5 DEF Lookup
    <3>2. Owner(l) = KeyOf[p] /\ found = {l}
      <4>1. l \in Existing(KeyOf[p], NoSession) /\ KeyOf[p] \in Account
        BY <2>1, <3>1
      <4>. QED
        BY <2>1, <4>1 DEF OneActivePerAccount, Existing
    <3>. QED
      BY <2>1, <2>2, <2>3, <3>1, <3>2 DEF FreshInv, Busy, Trying, Unsaved, Retire
  <2>. QED
    BY <2>4, <2>5
<1>3. CASE Return(p)
  BY <1>3 DEF Return, Drop, FreshInv, Busy, Trying, Unsaved, Retire
<1>4. CASE Select(p)
  <2>1. PICK a \in Attempt \ issued :
          AccountOf[a] = Resolve[KeyOf[p]] /\ job' = [job EXCEPT ![p] = Own(a)]
    BY <1>4 DEF Select
  <2>2. Owner(job'[p]) = KeyOf[p]
    BY <1>0, <2>1 DEF Own, Owner
  <2>3. /\ pc'[p] = "provLock" /\ flow'[p] = "acquire" /\ UNCHANGED facts
        /\ Existing(KeyOf[p], NoSession) = {}
    BY <1>4 DEF Select, FreshInv, locks
  <2>4. UNCHANGED Existing(KeyOf[p], NoSession)
    BY <1>0, <2>3 DEF Existing
  <2>. QED
    BY <2>2, <2>3, <2>4 DEF FreshInv, Busy, Trying, Unsaved, Retire
<1>5. CASE LockProvider(p) \/ CreateSession(p) \/ Prepare(p) \/ LockAllocation(p)
  BY <1>0, <1>5, FreshSame DEF LockProvider, CreateSession, Prepare, LockAllocation,
     Busy, Trying, Unsaved, locks
<1>6. CASE UpsertRoute(p) \/ UndoRoute(p) \/ UndoSession(p)
  BY <1>0, <1>6, FreshSame DEF UpsertRoute, UndoRoute, UndoSession,
     Busy, Trying, Unsaved, locks
<1>7. CASE SaveActive(p)
  BY <1>7 DEF SaveActive, FreshInv, Busy, Trying, Unsaved, Retire
<1>8. CASE Commit(p) /\ ~Return(p)
  BY <1>8 DEF Commit, FreshInv, Busy, Trying, Unsaved, Retire, locks
<1>9. CASE Record(p)
  <2>1. Existing(KeyOf[p], NoSession)' \subseteq Existing(KeyOf[p], NoSession)
    BY <1>9, ExistingShrinks DEF Record, SaveActive, Step
  <2>. QED
    BY <1>9, <2>1 DEF Record, FreshInv, Busy, Trying, Unsaved, Retire, locks
<1>10. CASE Giveback(p) /\ ~Return(p)
  <2>1. /\ flow[p] = "acquire" /\ pc'[p] = "select" /\ UNCHANGED facts
        /\ Existing(KeyOf[p], NoSession) = {}
    BY <1>10 DEF Giveback, Drop, FreshInv
  <2>2. UNCHANGED Existing(KeyOf[p], NoSession)
    BY <1>0, <2>1 DEF Existing
  <2>. QED
    BY <2>1, <2>2 DEF FreshInv, Busy, Trying, Unsaved, Retire
<1>. QED
  BY <1>1, <1>2, <1>3, <1>4, <1>5, <1>6, <1>7, <1>8, <1>9, <1>10
     DEF Acquiring, Refresh, GiveUp

LEMMA FreshRetiring ==
  ASSUME LifeInv, NEW p \in Worker, FreshInv(p), Retiring(p)
  PROVE  FreshInv(p)'
<1> USE DEF TypeInv, TypeOK, LifeInv, WorkerInv, LockInv, Goto
<1>0. Existing(KeyOf[p], NoSession)' \subseteq Existing(KeyOf[p], NoSession)
  <2>1. ~SaveActive(p)
    BY DEF Retiring, SaveActive, ReleaseLookup, LockAccount, LockTimeout, Reread,
       DropRoute, LockSession, DropSession, SavePending, SaveFinal, FreeSlot
  <2>. QED
    BY <2>1, ExistingShrinks DEF Step
<1>1. CASE Return(p)
  BY <1>1 DEF Return, Drop, FreshInv, Busy, Trying, Unsaved, Retire
<1>2. ASSUME NEW l \in LeaseId, ReleaseLookup(p, l) PROVE FreshInv(p)'
  BY <1>2 DEF ReleaseLookup, Begin, FreshInv, Busy, Trying, Unsaved, Retire
<1>3. CASE LockAccount(p)
  BY <1>3 DEF LockAccount, FreshInv, Busy, Trying, Unsaved, Retire
<1>4. CASE Reread(p) /\ ~Return(p)
  BY <1>4 DEF Reread, FreshInv, Busy, Trying, Unsaved, Retire
<1>5. CASE (DropRoute(p) \/ LockSession(p) \/ DropSession(p)) /\ ~Return(p)
  <2>1. /\ pc[p] \in Retire /\ pc'[p] \in Retire
        /\ flow'[p] = flow[p] /\ job'[p] = job[p]
    BY <1>5 DEF DropRoute, LockSession, DropSession, Retire, locks
  <2>. QED
    BY <1>0, <2>1 DEF FreshInv, Busy, Trying, Unsaved, Retire
<1>6. CASE SaveFinal(p) /\ ~Return(p)
  <2>1. /\ pc[p] \in Retire /\ pc'[p] = "freeSlot"
        /\ flow'[p] = flow[p] /\ job'[p] = job[p]
        /\ Terminal(facts'[job[p]])
    <3>1. job[p] \in LeaseId
      BY <1>6 DEF SaveFinal, JobInv, NoJob
    <3>. QED
      BY <1>6, <3>1 DEF SaveFinal, Saved, SaveFails, Retire
  <2>2. job[p] \notin Existing(KeyOf[p], NoSession)'
    BY <2>1 DEF Existing, Terminal
  <2>. QED
    BY <1>0, <2>1, <2>2 DEF FreshInv, Busy, Trying, Unsaved, Retire
<1>7. CASE FreeSlot(p) /\ ~Return(p)
  <2>1. flow[p] = "acquire" /\ pc[p] = "freeSlot" /\ pc'[p] = "select"
    BY <1>7 DEF FreeSlot, Drop
  <2>. QED
    BY <1>0, <2>1 DEF FreshInv, Busy, Trying, Unsaved, Retire
<1>. QED
  BY <1>1, <1>2, <1>3, <1>4, <1>5, <1>6, <1>7
     DEF Retiring, LockTimeout, SavePending

LEMMA NamedStep ==
  ASSUME Canonical, OneAsk, TypeInv, NamedInv, NEW p \in Worker, Step(p)
  PROVE  NamedInv'
<1>1. CASE UNCHANGED issued
  BY <1>1 DEF NamedInv
<1>2. CASE p \in Client /\ Select(p)
  <2>1. PICK a \in Attempt \ issued :
          /\ AccountOf[a] = Resolve[KeyOf[p]] /\ issued' = issued \cup {a}
          /\ AskOf[p] = IF SessionOf[a] \in Named THEN SessionOf[a] ELSE NoSession
    BY <1>2 DEF Select
  <2>. QED
    BY <1>2, <2>1 DEF NamedInv, OneAsk, Canonical
<1>. QED
  BY <1>1, <1>2, RetiringEffects DEF Step, Acquiring, AcquireLock, Lookup, Refresh,
     GiveUp, LockProvider, CreateSession, Prepare, LockAllocation, UpsertRoute,
     SaveActive, Commit, UndoRoute, UndoSession, Record, Giveback, plane

LEMMA OneWorkerStep ==
  ASSUME Canonical, OneAsk, "lookup" \notin Faults, OneInv, NEW p \in Worker, Step(p)
  PROVE  OneInv'
<1> USE DEF OneInv
<1>1. LifeInv'
  BY WorkerStep
<1>2. OneActivePerAccount'
  <2>. SUFFICES ASSUME NEW c \in Account,
                       NEW l \in Existing(c, NoSession)',
                       NEW m \in Existing(c, NoSession)'
                PROVE  l = m
    BY DEF OneActivePerAccount
  <2>1. CASE SaveActive(p) /\ Owner(job[p]) = c
    <3>1. Existing(c, NoSession) = {}
      BY <2>1 DEF FreshInv, SaveActive, LifeInv, WorkerInv, LockInv, Busy, Trying, Unsaved
    <3>2. ASSUME NEW k \in Existing(c, NoSession)' PROVE k = job[p]
      <4>1. /\ k \in LeaseId /\ facts'[k].st = "active" /\ UNCHANGED due
            /\ Owner(k) = c /\ k[1] \notin due'
        BY <3>2, AcquiringEffects, RetiringEffects DEF Existing, Step, LifeInv
      <4>. QED
        BY <3>1, <4>1, NewActive DEF Existing, LifeInv
    <3>. QED
      BY <3>2
  <2>2. CASE ~(SaveActive(p) /\ Owner(job[p]) = c)
    BY <2>2, ExistingShrinks DEF OneActivePerAccount, LifeInv
  <2>. QED
    BY <2>1, <2>2
<1>3. NamedInv'
  BY NamedStep DEF LifeInv
<1>4. ASSUME NEW q \in Worker PROVE FreshInv(q)'
  BY FreshOthers, FreshAcquiring, FreshRetiring DEF Step
<1>. QED
  BY <1>1, <1>2, <1>3, <1>4

LEMMA OneBackgroundStep ==
  ASSUME OneInv, Sweeping \/ Restoring \/ Environment
  PROVE  OneInv'
<1> USE DEF OneInv
<1>1. LifeInv' /\ UNCHANGED facts
  BY BackgroundStep
<1>2. /\ UNCHANGED issued /\ due \subseteq due'
      /\ \A q \in Worker :
           \/ /\ pc'[q] = pc[q] /\ flow'[q] = flow[q] /\ job'[q] = job[q]
           \/ pc'[q] \in {"idle", "lock"} /\ flow'[q] \notin {"acquire", "abort"}
  BY BackgroundEffects DEF LifeInv
<1>3. ASSUME NEW c PROVE Existing(c, NoSession)' \subseteq Existing(c, NoSession)
  BY <1>1, <1>2 DEF Existing
<1>4. OneActivePerAccount' /\ NamedInv'
  BY <1>2, <1>3 DEF OneActivePerAccount, NamedInv
<1>5. ASSUME NEW q \in Worker PROVE FreshInv(q)'
  <2>1. CASE pc'[q] = pc[q] /\ flow'[q] = flow[q] /\ job'[q] = job[q]
    BY <1>3, <2>1 DEF FreshInv
  <2>2. CASE pc'[q] \in {"idle", "lock"} /\ flow'[q] \notin {"acquire", "abort"}
    BY <2>2 DEF FreshInv, Busy, Trying, Unsaved, Retire
  <2>. QED
    BY <1>2, <2>1, <2>2
<1>. QED
  BY <1>1, <1>4, <1>5

\* An account never has two leases that are active and current, whatever
\* handlers, the sweep and restore do at once, under every fault but one and
\* any number of restarts: an acquire looks for one, retires it or gives up,
\* and saves its own, all under the account lock (HandleExistingActiveLease).
\* The fault left out is a lookup that fails, which the code takes for "none".
\* Two requests of one account for different sessions get a lease each.
THEOREM OneLeasePerAccount ==
  ASSUME Canonical, OneAsk, "lookup" \notin Faults
  PROVE  Spec => []OneActivePerAccount
<1>1. OneInv /\ [Next]_vars => OneInv'
  <2>1. ASSUME OneInv, UNCHANGED vars PROVE OneInv'
    <3>1. LifeInv'
      BY <2>1, LifeStep DEF OneInv
    <3>. QED
      BY <2>1, <3>1 DEF OneInv, OneActivePerAccount, Existing, NamedInv, FreshInv,
         vars, plane, proc
  <2>. QED
    BY <2>1, OneWorkerStep, OneBackgroundStep DEF Next, Step
<1>2. OneInv => OneActivePerAccount
  BY DEF OneInv
<1>. QED
  BY <1>1, <1>2, OneInit, PTL DEF Spec

-----------------------------------------------------------------------------
(* Routes.                                                                  *)

\* A retire of lease l is past its route: it ends without touching it again.
PastRoute(p, l) ==
  /\ job[p] = l
  /\ \/ pc[p] \in {"sessLock", "dropSession", "final"}
     \/ pc[p] = "pending" /\ ~copy[p].route

\* The record leads to the removal of the route, and nobody is past that.
LeadsToRoute(l) ==
  /\ facts[l].st = "active" \/ facts[l].route
  /\ \A p \in Worker : ~PastRoute(p, l)

\* A failed acquire is going to delete its route, or to record that it could not.
UndoesRoute(p, l) ==
  /\ job[p] = l
  /\ \/ pc[p] \in {"save", "undoRoute"}
     \/ pc[p] \in {"undoSession", "record"} /\ copy[p].route

\* A cleanup that goes to the data plane has the label of the route.
CleanupRouteInv(p) == flow[p] = "cleanup" /\ pc[p] = "dropRoute" => copy[p].route

RouteEndInv ==
  \A s \in routes : \E a \in issued :
    SessionOf[a] = s /\ (facts[Own(a)].st = "none" \/ LeadsToRoute(Own(a)))

RouteKnownInv ==
  \A s \in routes : \E a \in issued :
    /\ SessionOf[a] = s
    /\ \/ LeadsToRoute(Own(a)) \/ LeadsToRoute(Failure(a))
       \/ \E p \in Worker : UndoesRoute(p, Own(a))

\* Before the first restart, that is, while restore is not running.
RouteInv ==
  /\ LifeInv
  /\ crashes = 0 => /\ pc[Restorer] = "idle"
                    /\ \A p \in Worker : CleanupRouteInv(p)

LEMMA RouteInit == Init => RouteInv /\ RouteEndInv /\ RouteKnownInv
BY LifeInit DEF Init, RouteInv, CleanupRouteInv, RouteEndInv, RouteKnownInv

\* The labels of a record in hand: each retire of a route or a session that
\* fails leaves its label.
LEMMA LabelsMarked ==
  ASSUME NEW f \in Fact
  PROVE  /\ Marked(f, "route").route /\ Marked(f, "prov").prov
         /\ f.route => Marked(f, "prov").route
         /\ f.prov => Marked(f, "route").prov
         /\ ~Cleared(f, "route").route /\ Cleared(f, "route").prov = f.prov
         /\ ~Cleared(f, "prov").prov /\ Cleared(f, "prov").route = f.route
BY DEF Fact, Marked, Cleared

LEMMA FailureMarked ==
  ASSUME NEW f \in Fact, NEW op, NEW what \in {"route", "prov"}
  PROVE  /\ op = "cleanup" => AfterFailure(op, f, what) = f
         /\ op # "cleanup" => /\ what = "route" => AfterFailure(op, f, what).route
                              /\ what = "prov" => AfterFailure(op, f, what).prov
BY DEF Fact, Marked, AfterFailure

LEMMA CleanupRouteStep ==
  ASSUME LifeInv, NEW p \in Worker, CleanupRouteInv(p), Step(p)
  PROVE  CleanupRouteInv(p)'
<1> USE DEF LifeInv, TypeInv, TypeOK, Goto
<1>. SUFFICES ASSUME flow'[p] = "cleanup", pc'[p] = "dropRoute"
              PROVE  copy'[p].route
  BY DEF CleanupRouteInv
<1>1. ~Return(p)
  BY DEF Return, Drop
<1>2. CASE Reread(p)
  BY <1>1, <1>2 DEF Reread
<1>3. CASE Lookup(p)
  BY <1>3 DEF Lookup, WorkerInv, LockInv
<1>. QED
  BY <1>1, <1>2, <1>3 DEF Step, Acquiring, Retiring, AcquireLock, Refresh, Select,
     GiveUp, LockProvider, CreateSession, Prepare, LockAllocation, UpsertRoute,
     SaveActive, Commit, UndoRoute, UndoSession, Record, Giveback, Drop,
     ReleaseLookup, Begin, LockAccount, LockTimeout, DropRoute, LockSession,
     DropSession, SavePending, SaveFinal, FreeSlot

\* Who gets past a route has deleted it, or there was none to delete.
LEMMA PastRouteStep ==
  ASSUME LifeInv, NEW p \in Worker, CleanupRouteInv(p), Step(p),
         NEW l \in LeaseId, PastRoute(p, l)', ~PastRoute(p, l)
  PROVE  \/ Key(l) \notin routes'
         \/ facts[l].st # "active" /\ ~facts[l].route
<1> USE DEF LifeInv, TypeInv, TypeOK, Goto
<1>0. /\ job'[p] = l
      /\ \/ pc'[p] \in {"sessLock", "dropSession", "final"}
         \/ pc'[p] = "pending" /\ ~copy'[p].route
  BY DEF PastRoute
<1>1. ~Return(p)
  BY <1>0 DEF Return, Drop
<1>2. CASE Reread(p)
  BY <1>0, <1>1, <1>2 DEF Reread, Wanted, Pending, FactInv
<1>3. CASE DropRoute(p)
  <2>1. CASE routes' = routes \ {Key(job[p])}
    BY <1>0, <1>3, <2>1 DEF DropRoute
  <2>2. CASE copy'[p] = AfterFailure(flow[p], copy[p], "route") /\ pc'[p] = "pending"
    <3>1. copy[p] \in Fact /\ (flow[p] = "cleanup" => copy[p].route)
      BY <1>3 DEF DropRoute, CleanupRouteInv
    <3>2. copy'[p].route
      BY <2>2, <3>1, FailureMarked
    <3>. QED
      BY <1>0, <2>2, <3>2
  <2>. QED
    BY <1>3, <2>1, <2>2 DEF DropRoute
<1>4. CASE LockSession(p) \/ DropSession(p)
  <2>1. pc[p] \in {"sessLock", "dropSession"} /\ job[p] = l
    BY <1>0, <1>1, <1>4 DEF LockSession, DropSession
  <2>. QED
    BY <2>1 DEF PastRoute
<1>. QED
  BY <1>0, <1>1, <1>2, <1>3, <1>4 DEF Step, Acquiring, Retiring, AcquireLock, Lookup,
     Refresh, Select, GiveUp, LockProvider, CreateSession, Prepare, LockAllocation,
     UpsertRoute, SaveActive, Commit, UndoRoute, UndoSession, Record, Giveback, Drop,
     ReleaseLookup, Begin, LockAccount, LockTimeout, SavePending, SaveFinal, FreeSlot

\* A record that leads to the removal of a route goes on doing so while the
\* route is there.
LEMMA LeadsToRouteStep ==
  ASSUME LifeInv, NEW p \in Worker, CleanupRouteInv(p), Step(p),
         NEW l \in LeaseId, LeadsToRoute(l), Key(l) \in routes'
  PROVE  LeadsToRoute(l)'
<1> USE DEF LifeInv, TypeInv, TypeOK
<1>1. ASSUME NEW q \in Worker PROVE ~PastRoute(q, l)'
  <2>1. CASE q = p
    BY <2>1, PastRouteStep DEF LeadsToRoute
  <2>2. CASE q # p
    BY <2>2, Others DEF LeadsToRoute, PastRoute
  <2>. QED
    BY <2>1, <2>2
<1>2. facts'[l].st = "active" \/ facts'[l].route
  <2>1. facts[l].st # "none"
    BY DEF LeadsToRoute, FactInv, Pending
  <2>2. CASE UNCHANGED facts
    BY <2>2 DEF LeadsToRoute
  <2>3. CASE SaveActive(p)
    BY <2>1, <2>3 DEF SaveActive, SaveFails, Saved, NotSaved, LeadsToRoute,
       WorkerInv, TryInv, Trying, Unsaved
  <2>4. CASE Record(p)
    BY <2>1, <2>4 DEF Record, Saved, NotSaved, LeadsToRoute, WorkerInv, TryInv, Trying
  <2>5. CASE SavePending(p)
    BY <2>5 DEF SavePending, SaveFails, Saved, NotSaved, LeadsToRoute, PastRoute
  <2>6. CASE SaveFinal(p)
    BY <2>6 DEF SaveFinal, SaveFails, Saved, NotSaved, LeadsToRoute, PastRoute
  <2>. QED
    BY <2>2, <2>3, <2>4, <2>5, <2>6, AcquiringEffects, RetiringEffects DEF Step
<1>. QED
  BY <1>1, <1>2 DEF LeadsToRoute

\* From its first to its last call an attempt takes the steps in their order.
LEMMA AttemptOrder ==
  ASSUME NEW p \in Worker, Step(p)
  PROVE  /\ pc[p] = "prepare" => Prepare(p)
         /\ pc[p] = "alloc" => LockAllocation(p)
         /\ pc[p] = "upsert" => UpsertRoute(p)
         /\ pc[p] = "save" => SaveActive(p)
         /\ pc[p] = "undoRoute" => UndoRoute(p)
         /\ pc[p] = "undoSession" => UndoSession(p)
         /\ pc[p] = "record" => Record(p)
BY DEF Step, Acquiring, Retiring, AcquireLock, Lookup, Refresh, Select, GiveUp,
   LockProvider, CreateSession, Prepare, LockAllocation, UpsertRoute, SaveActive,
   Commit, UndoRoute, UndoSession, Record, Giveback, ReleaseLookup, LockAccount,
   LockTimeout, Reread, DropRoute, LockSession, DropSession, SavePending, SaveFinal,
   FreeSlot

\* A record that does not exist is in nobody's hand but an attempt's.
LEMMA NoneInHand ==
  ASSUME LifeInv, NEW l \in LeaseId, facts[l].st = "none",
         NEW q \in Worker, job[q] = l
  PROVE  pc[q] \notin Retire
BY DEF LifeInv, WorkerInv, RetireInv

\* The record of a lease comes to be by the save of its attempt.
LEMMA NoneStep ==
  ASSUME LifeInv, NEW p \in Worker, Step(p), NEW a \in Attempt, facts[Own(a)].st = "none"
  PROVE  \/ facts'[Own(a)].st = "none"
         \/ /\ SaveActive(p) /\ job[p] = Own(a)
            /\ facts' = [facts EXCEPT ![Own(a)] = ActiveFact]
<1> USE DEF LifeInv, TypeInv, TypeOK
<1>0. Own(a) \in LeaseId /\ \A b : Failure(b) # Own(a)
  BY IdTypes DEF Own, Failure
<1>1. CASE UNCHANGED facts
  BY <1>1
<1>2. CASE SaveActive(p)
  BY <1>0, <1>2 DEF SaveActive, SaveFails, Saved, NotSaved
<1>3. CASE Record(p)
  BY <1>0, <1>3 DEF Record, Saved, NotSaved
<1>4. CASE SavePending(p) \/ SaveFinal(p)
  <2>1. job[p] # Own(a)
    BY <1>0, <1>4, NoneInHand DEF SavePending, SaveFinal, Retire
  <2>. QED
    BY <1>0, <1>4, <2>1 DEF SavePending, SaveFinal, SaveFails, Saved, NotSaved
<1>. QED
  BY <1>1, <1>2, <1>3, <1>4, AcquiringEffects, RetiringEffects DEF Step

\* An attempt writes under ids of its own.
LEMMA AttemptIds ==
  ASSUME LifeInv, NEW p \in Worker, pc[p] \in Trying
  PROVE  /\ job[p][1] \in issued /\ job[p][1] \in Attempt
         /\ job[p] = Own(job[p][1]) /\ job[p] \in LeaseId
         /\ Key(job[p]) = SessionOf[job[p][1]]
         /\ Failure(job[p][1]) \in LeaseId /\ facts[Failure(job[p][1])].st = "none"
         /\ pc[p] \in Unsaved => facts[job[p]].st = "none"
BY IdTypes DEF LifeInv, TypeInv, JobInv, NoJob, WorkerInv, TryInv, Trying, Unsaved, Key

\* What an attempt saves for the first time is in no retire's hand.
LEMMA FirstSave ==
  ASSUME LifeInv, NEW p \in Worker, SaveActive(p) \/ Record(p),
         NEW l \in LeaseId, facts[l].st = "none"
  PROVE  \A q \in Worker : job'[q] = l => pc'[q] \notin Retire
<1> USE DEF LifeInv, TypeInv, TypeOK
<1>1. /\ pc[p] \in Trying /\ pc'[p] \in {"commit", "undoRoute", "giveback"}
  BY DEF SaveActive, Record, Unsaved, Trying, Goto
<1>2. Step(p)
  BY <1>1 DEF WorkerInv, LockInv, Step, Acquiring
<1>3. ASSUME NEW q \in Worker, job'[q] = l PROVE pc'[q] \notin Retire
  <2>1. CASE q = p
    BY <1>1, <2>1 DEF Retire
  <2>2. CASE q # p
    BY <1>2, <1>3, <2>2, Others, NoneInHand
  <2>. QED
    BY <2>1, <2>2
<1>. QED
  BY <1>3

LEMMA SavedLeads ==
  ASSUME LifeInv, NEW p \in Worker, SaveActive(p), NEW l, l = job[p],
         facts' = [facts EXCEPT ![l] = ActiveFact]
  PROVE  LeadsToRoute(l)'
<1>1. l \in LeaseId /\ facts[l].st = "none"
  BY AttemptIds DEF SaveActive, Trying, Unsaved
<1>2. facts'[l].st = "active"
  BY <1>1 DEF LifeInv, TypeInv, TypeOK, ActiveFact, NoFact
<1>. QED
  BY <1>1, <1>2, FirstSave DEF LeadsToRoute, PastRoute, Retire

\* What a step of a worker adds to the routes.
LEMMA NewRoute ==
  ASSUME TypeInv, NEW p \in Worker, Step(p), NEW s \in routes', s \notin routes
  PROVE  UpsertRoute(p) /\ s = Key(job[p]) /\ pc'[p] = "save" /\ UNCHANGED <<facts, job, issued>>
BY AcquiringEffects, RetiringEffects
   DEF Step, UpsertRoute, UndoRoute, DropRoute, Goto, TypeInv, TypeOK

LEMMA RouteEndStep ==
  ASSUME LifeInv, NEW p \in Worker, CleanupRouteInv(p), Step(p), RouteEndInv
  PROVE  RouteEndInv'
<1> USE DEF LifeInv
<1>. SUFFICES ASSUME NEW s \in routes'
              PROVE  \E a \in issued' : /\ SessionOf[a] = s
                                        /\ \/ facts'[Own(a)].st = "none"
                                           \/ LeadsToRoute(Own(a))'
  BY DEF RouteEndInv
<1>1. CASE s \notin routes
  <2>1. UpsertRoute(p) /\ s = Key(job[p]) /\ UNCHANGED <<facts, issued>>
    BY <1>1, NewRoute
  <2>2. /\ job[p][1] \in issued /\ SessionOf[job[p][1]] = s
        /\ facts[Own(job[p][1])].st = "none"
    BY <2>1, AttemptIds DEF UpsertRoute, Trying, Unsaved
  <2>. QED
    BY <2>1, <2>2
<1>2. CASE s \in routes
  <2>1. PICK a \in issued : /\ SessionOf[a] = s
                            /\ facts[Own(a)].st = "none" \/ LeadsToRoute(Own(a))
    BY <1>2 DEF RouteEndInv
  <2>2. /\ a \in issued' /\ a \in Attempt /\ Own(a) \in LeaseId /\ Key(Own(a)) = s
    BY <2>1, IssuedGrows, IdTypes DEF TypeInv, TypeOK, Own, Key
  <2>3. CASE facts[Own(a)].st = "none"
    BY <2>1, <2>2, <2>3, NoneStep, SavedLeads
  <2>4. CASE LeadsToRoute(Own(a))
    BY <2>1, <2>2, <2>4, LeadsToRouteStep
  <2>. QED
    BY <2>1, <2>3, <2>4
<1>. QED
  BY <1>1, <1>2

\* Until the first restart nothing but the workers' steps touches the routes.
LEMMA BeforeRestart ==
  ASSUME RouteInv, Sweeping \/ Restoring \/ Environment, crashes' = 0
  PROVE  /\ crashes = 0 /\ UNCHANGED routes /\ pc'[Restorer] = "idle"
         /\ \A q \in Worker :
              \/ /\ pc'[q] = pc[q] /\ flow'[q] = flow[q]
                 /\ job'[q] = job[q] /\ copy'[q] = copy[q]
              \/ pc[q] = "idle" /\ pc'[q] = "lock"
<1> USE DEF RouteInv, LifeInv, TypeInv, TypeOK, Goto, plane, locks, proc, batch
<1>1. CASE SweepPass \/ SweepTimeout
  BY <1>1 DEF SweepPass, SweepTimeout
<1>2. ASSUME NEW l \in LeaseId, SweepNext(l)
      PROVE  /\ UNCHANGED <<routes, crashes>> /\ pc'[Restorer] = pc[Restorer]
             /\ pc[Sweeper] = "idle" /\ pc'[Sweeper] = "lock"
             /\ \A q \in Client : /\ pc'[q] = pc[q] /\ flow'[q] = flow[q]
                                  /\ job'[q] = job[q] /\ copy'[q] = copy[q]
  BY <1>2 DEF SweepNext, Begin
<1>3. CASE Restoring \/ Crash
  <2>1. crashes = 0 => ~Restoring
    BY DEF Restoring, RestoreList, RestoreRoute, RestoreDone, RestoreSlot
  <2>2. Restoring => UNCHANGED crashes
    BY DEF Restoring, RestoreList, RestoreRoute, RestoreDone, RestoreSlot
  <2>3. ~Crash
    BY DEF Crash
  <2>. QED
    BY <1>3, <2>1, <2>2, <2>3
<1>4. ASSUME NEW a \in Attempt, Deadline(a) \/ SlotLapses(a)
      PROVE  UNCHANGED <<routes, crashes, proc>>
  BY <1>4 DEF Deadline, SlotLapses
<1>. QED
  BY <1>1, <1>2, <1>3, <1>4 DEF Sweeping, Environment

LEMMA RouteWorkerStep ==
  ASSUME Canonical, RouteInv, NEW p \in Worker, Step(p)
  PROVE  RouteInv'
<1>1. UNCHANGED crashes /\ pc'[Restorer] = pc[Restorer]
  BY AcquiringEffects, RetiringEffects DEF Step, batch, RouteInv, LifeInv
<1>2. ASSUME crashes = 0, NEW q \in Worker PROVE CleanupRouteInv(q)'
  <2>1. CASE q = p
    BY <1>2, <2>1, CleanupRouteStep DEF RouteInv
  <2>2. CASE q # p
    BY <1>2, <2>2, Others DEF RouteInv, CleanupRouteInv, LifeInv
  <2>. QED
    BY <2>1, <2>2
<1>. QED
  BY <1>1, <1>2, WorkerStep DEF RouteInv

\* What a step that leaves the hands of the workers alone leaves of the rest.
LEMMA RouteBackgroundStep ==
  ASSUME RouteInv, Sweeping \/ Restoring \/ Environment, crashes' = 0
  PROVE  /\ RouteInv'
         /\ RouteEndInv => RouteEndInv'
         /\ RouteKnownInv => RouteKnownInv'
<1>1. LifeInv' /\ UNCHANGED <<facts, issued, routes>>
  BY BackgroundStep, BackgroundEffects, BeforeRestart DEF RouteInv, LifeInv
<1>2. ASSUME NEW q \in Worker PROVE CleanupRouteInv(q)'
  BY BeforeRestart DEF RouteInv, CleanupRouteInv
<1>3. ASSUME NEW l PROVE LeadsToRoute(l) => LeadsToRoute(l)'
  BY <1>1, BeforeRestart DEF LeadsToRoute, PastRoute
<1>4. ASSUME NEW l, NEW q \in Worker PROVE UndoesRoute(q, l) => UndoesRoute(q, l)'
  BY BeforeRestart DEF UndoesRoute
<1>. QED
  BY <1>1, <1>2, <1>3, <1>4, BeforeRestart DEF RouteInv, RouteEndInv, RouteKnownInv

LEMMA RouteUnchanged ==
  ASSUME RouteInv, UNCHANGED vars, Canonical
  PROVE  /\ RouteInv'
         /\ RouteEndInv => RouteEndInv'
         /\ RouteKnownInv => RouteKnownInv'
<1>1. LifeInv'
  BY LifeStep DEF RouteInv
<1>2. UNCHANGED <<facts, issued, routes, crashes, pc, flow, job, copy>>
  BY DEF vars, plane, proc, batch
<1>3. ASSUME NEW l PROVE UNCHANGED LeadsToRoute(l)
  BY <1>2 DEF LeadsToRoute, PastRoute
<1>4. ASSUME NEW l, NEW q PROVE UNCHANGED UndoesRoute(q, l)
  BY <1>2 DEF UndoesRoute
<1>. QED
  BY <1>1, <1>2, <1>3, <1>4 DEF RouteInv, CleanupRouteInv, RouteEndInv, RouteKnownInv

\* A restart begins another life: what follows is about the first one.
LEMMA RouteStep ==
  ASSUME Canonical, RouteInv, Next, crashes' # 0
  PROVE  RouteInv'
<1>1. LifeInv'
  BY LifeStep DEF RouteInv
<1>. QED
  BY <1>1 DEF RouteInv

\* Until a restart no route outlives its lease: a release, an expiry, a cleanup
\* or a replacement saves the final status only when the route is deleted, and
\* nobody else upserts the route of a lease in their hands. Every fault may
\* happen. After a restart the restore takes no lock, and the run RestoreRace
\* shows that the promise is broken then.
THEOREM NoRouteOutlivesLease ==
  ASSUME Canonical
  PROVE  Spec => [](crashes = 0 => NoRouteAfterEnd)
<1> DEFINE Inv == RouteInv /\ (crashes = 0 => RouteEndInv)
<1>1. Init => Inv
  BY RouteInit
<1>2. Inv /\ [Next]_vars => Inv'
  <2>. SUFFICES ASSUME Inv, [Next]_vars PROVE Inv'
    OBVIOUS
  <2>1. CASE UNCHANGED vars
    BY <2>1, RouteUnchanged DEF vars, batch
  <2>2. ASSUME NEW p \in Worker, Step(p) PROVE Inv'
    <3>1. UNCHANGED crashes
      BY <2>2, AcquiringEffects, RetiringEffects DEF Step, batch, RouteInv, LifeInv
    <3>. QED
      BY <2>2, <3>1, RouteWorkerStep, RouteEndStep DEF RouteInv
  <2>3. CASE Sweeping \/ Restoring \/ Environment
    BY <2>3, RouteBackgroundStep, RouteStep, BeforeRestart DEF Next
  <2>. QED
    BY <2>1, <2>2, <2>3 DEF Next, Step
<1>3. Inv => (crashes = 0 => NoRouteAfterEnd)
  <2>1. ASSUME Inv, NEW a \in issued, LeadsToRoute(Own(a)) PROVE ~Terminal(facts[Own(a)])
    BY <2>1, IdTypes DEF LeadsToRoute, Terminal, Pending, RouteInv, LifeInv, FactInv,
       TypeInv, TypeOK
  <2>. QED
    BY <2>1 DEF RouteEndInv, NoRouteAfterEnd, Terminal
<1>. QED
  BY <1>1, <1>2, <1>3, PTL DEF Spec

\* A failed acquire that recorded its route leaves a record that leads to it.
LEMMA RecordedLeads ==
  ASSUME LifeInv, NEW p \in Worker, Record(p), NEW l, l = Failure(job[p][1]),
         facts' = [facts EXCEPT ![l] = copy[p]], copy[p].route
  PROVE  LeadsToRoute(l)'
<1>1. l \in LeaseId /\ facts[l].st = "none"
  BY AttemptIds DEF Record, Trying, Unsaved
<1>2. facts'[l].route
  BY <1>1 DEF LifeInv, TypeInv, TypeOK
<1>. QED
  BY <1>1, <1>2, FirstSave DEF LeadsToRoute, PastRoute, Retire

\* A failed acquire that has its route to undo deletes it, leaves a record of
\* it, or still has it to undo.
LEMMA UndoesRouteStep ==
  ASSUME LifeInv, "record" \notin Faults, NEW p \in Worker, Step(p),
         NEW a \in Attempt, UndoesRoute(p, Own(a)), SessionOf[a] \in routes'
  PROVE  \/ UndoesRoute(p, Own(a))'
         \/ LeadsToRoute(Own(a))' \/ LeadsToRoute(Failure(a))'
<1> USE DEF LifeInv, TypeInv, TypeOK, Goto
<1>0. job[p] = Own(a) /\ job[p][1] = a /\ Key(job[p]) = SessionOf[a] /\ copy[p] \in Fact
  BY DEF UndoesRoute, Own, Key
<1>1. CASE pc[p] = "save"
  <2>1. SaveActive(p)
    BY <1>1, AttemptOrder
  <2>2. CASE facts' = [facts EXCEPT ![Own(a)] = ActiveFact]
    BY <1>0, <2>1, <2>2, SavedLeads
  <2>3. CASE facts' # [facts EXCEPT ![Own(a)] = ActiveFact]
    BY <1>0, <2>1, <2>3 DEF SaveActive, Saved, UndoesRoute
  <2>. QED
    BY <2>2, <2>3
<1>2. CASE pc[p] = "undoRoute"
  <2>1. UndoRoute(p)
    BY <1>2, AttemptOrder
  <2>2. copy'[p] = Marked(copy[p], "route") /\ pc'[p] = "undoSession" /\ job'[p] = job[p]
    BY <1>0, <2>1 DEF UndoRoute
  <2>3. copy'[p].route
    BY <1>0, <2>2, LabelsMarked
  <2>. QED
    BY <1>0, <2>2, <2>3 DEF UndoesRoute
<1>3. CASE pc[p] = "undoSession"
  <2>1. UndoSession(p) /\ copy[p].route
    BY <1>3, AttemptOrder DEF UndoesRoute
  <2>2. /\ copy'[p] \in {copy[p], Marked(copy[p], "prov")}
        /\ pc'[p] = "record" /\ job'[p] = job[p]
    BY <2>1 DEF UndoSession
  <2>3. copy'[p].route
    BY <1>0, <2>1, <2>2, LabelsMarked
  <2>. QED
    BY <1>0, <2>2, <2>3 DEF UndoesRoute
<1>4. CASE pc[p] = "record"
  <2>1. Record(p) /\ copy[p].route
    BY <1>4, AttemptOrder DEF UndoesRoute
  <2>2. facts' = [facts EXCEPT ![Failure(a)] = copy[p]]
    BY <1>0, <2>1 DEF Record, Saved
  <2>. QED
    BY <1>0, <2>1, <2>2, RecordedLeads
<1>. QED
  BY <1>1, <1>2, <1>3, <1>4 DEF UndoesRoute

LEMMA RouteKnownStep ==
  ASSUME LifeInv, "record" \notin Faults,
         NEW p \in Worker, CleanupRouteInv(p), Step(p), RouteKnownInv
  PROVE  RouteKnownInv'
<1> USE DEF LifeInv
<1>. SUFFICES ASSUME NEW s \in routes'
              PROVE  \E a \in issued' :
                       /\ SessionOf[a] = s
                       /\ \/ LeadsToRoute(Own(a))' \/ LeadsToRoute(Failure(a))'
                          \/ \E q \in Worker : UndoesRoute(q, Own(a))'
  BY DEF RouteKnownInv
<1>1. CASE s \notin routes
  <2>1. UpsertRoute(p) /\ s = Key(job[p]) /\ pc'[p] = "save" /\ UNCHANGED <<job, issued>>
    BY <1>1, NewRoute
  <2>2. /\ job[p][1] \in issued /\ SessionOf[job[p][1]] = s
        /\ job[p] = Own(job[p][1])
    BY <2>1, AttemptIds DEF UpsertRoute, Trying, Unsaved
  <2>3. UndoesRoute(p, Own(job[p][1]))'
    BY <2>1, <2>2 DEF UndoesRoute
  <2>. QED
    BY <2>1, <2>2, <2>3
<1>2. CASE s \in routes
  <2>1. PICK a \in issued :
          /\ SessionOf[a] = s
          /\ \/ LeadsToRoute(Own(a)) \/ LeadsToRoute(Failure(a))
             \/ \E q \in Worker : UndoesRoute(q, Own(a))
    BY <1>2 DEF RouteKnownInv
  <2>2. /\ a \in issued' /\ a \in Attempt
        /\ Own(a) \in LeaseId /\ Key(Own(a)) = s
        /\ Failure(a) \in LeaseId /\ Key(Failure(a)) = s
    BY <2>1, IssuedGrows, IdTypes DEF TypeInv, TypeOK, Own, Failure, Key
  <2>3. CASE LeadsToRoute(Own(a)) \/ LeadsToRoute(Failure(a))
    BY <2>1, <2>2, <2>3, LeadsToRouteStep
  <2>4. ASSUME NEW q \in Worker, UndoesRoute(q, Own(a))
        PROVE  \/ LeadsToRoute(Own(a))' \/ LeadsToRoute(Failure(a))'
               \/ UndoesRoute(q, Own(a))'
    <3>1. CASE q = p
      BY <2>1, <2>2, <2>4, <3>1, UndoesRouteStep
    <3>2. CASE q # p
      BY <2>4, <3>2, Others DEF UndoesRoute
    <3>. QED
      BY <3>1, <3>2
  <2>. QED
    BY <2>1, <2>2, <2>3, <2>4
<1>. QED
  BY <1>1, <1>2

\* Until a restart every route is known to a record that leads to its removal
\* or in the hands of the acquire that is undoing it, under every fault but
\* one. The fault left out is a record of a failed acquire that is not saved:
\* the code only logs that (FailedAcquireRecorder.save), and the route is forgotten.
THEOREM NoRouteForgotten ==
  ASSUME Canonical, "record" \notin Faults
  PROVE  Spec => [](crashes = 0 => RouteAccounted)
<1> DEFINE Inv == RouteInv /\ FailureInv /\ (crashes = 0 => RouteKnownInv)
<1>1. Init => Inv
  BY RouteInit, FailureInit
<1>2. Inv /\ [Next]_vars => Inv'
  <2>. SUFFICES ASSUME Inv, [Next]_vars PROVE Inv'
    OBVIOUS
  <2>0. FailureInv'
    BY FailureStep DEF RouteInv
  <2>1. CASE UNCHANGED vars
    BY <2>0, <2>1, RouteUnchanged DEF vars, batch
  <2>2. ASSUME NEW p \in Worker, Step(p) PROVE Inv'
    <3>1. UNCHANGED crashes
      BY <2>2, AcquiringEffects, RetiringEffects DEF Step, batch, RouteInv, LifeInv
    <3>. QED
      BY <2>0, <2>2, <3>1, RouteWorkerStep, RouteKnownStep DEF RouteInv
  <2>3. CASE Sweeping \/ Restoring \/ Environment
    BY <2>0, <2>3, RouteBackgroundStep, RouteStep, BeforeRestart DEF Next
  <2>. QED
    BY <2>1, <2>2, <2>3 DEF Next, Step
<1>3. Inv => (crashes = 0 => RouteAccounted)
  <2>1. ASSUME Inv, NEW a \in issued, NEW q \in Worker, UndoesRoute(q, Own(a))
        PROVE  InHand(SessionOf[a], Acquire)
    <3>1. job[q] = Own(a) /\ job[q] # NoLease /\ Key(job[q]) = SessionOf[a]
      BY <2>1, IdTypes DEF UndoesRoute, Own, Key, RouteInv, LifeInv, TypeInv, TypeOK
    <3>. QED
      BY <2>1, <3>1 DEF UndoesRoute, InHand, Acquire
  <2>2. Inv => \A a \in issued : LeadsToRoute(Failure(a)) => facts[Failure(a)].route
    BY DEF LeadsToRoute, FailureInv, RouteInv, LifeInv, TypeInv, TypeOK
  <2>. QED
    BY <2>1, <2>2 DEF RouteKnownInv, RouteAccounted, LeadsToRoute
<1>. QED
  BY <1>1, <1>2, <1>3, PTL DEF Spec

-----------------------------------------------------------------------------
(* Sessions at the provider.                                                *)

\* A retire of lease l is past its session: it ends without releasing it again.
PastSession(p, l) ==
  /\ job[p] = l
  /\ pc[p] = "final" \/ (pc[p] = "pending" /\ ~copy[p].prov)

LeadsToSession(l) ==
  /\ facts[l].st = "active" \/ facts[l].prov
  /\ \A p \in Worker : ~PastSession(p, l)

\* An attempt has its session still to release, or to record that it could not.
UndoesSession(p, l) ==
  /\ job[p] = l
  /\ \/ pc[p] \in {"prepare", "alloc", "upsert", "save", "undoRoute", "undoSession"}
     \/ pc[p] = "record" /\ copy[p].prov

\* A cleanup goes to the provider when the saved record has the label of the
\* session, and only then.
CleanupSessionInv(p) ==
  flow[p] = "cleanup" =>
    /\ pc[p] \in {"sessLock", "dropSession"} => copy[p].prov
    /\ pc[p] = "dropRoute" => /\ copy[p].prov = facts[job[p]].prov
                              /\ facts[job[p]].st = "failed"

SessionEndInv ==
  \A s \in sessions : \E a \in issued \cap Stateful :
    SessionOf[a] = s /\ (facts[Own(a)].st = "none" \/ LeadsToSession(Own(a)))

SessionKnownInv ==
  \A s \in sessions : \E a \in issued \cap Stateful :
    /\ SessionOf[a] = s
    /\ \/ LeadsToSession(Own(a)) \/ LeadsToSession(Failure(a))
       \/ \E p \in Worker : UndoesSession(p, Own(a))

SessionInv == LifeInv /\ \A p \in Worker : CleanupSessionInv(p)

LEMMA SessionInit == Init => SessionInv /\ SessionEndInv /\ SessionKnownInv
BY LifeInit DEF Init, SessionInv, CleanupSessionInv, SessionEndInv, SessionKnownInv

LEMMA KeptSession ==
  ASSUME NEW l \in LeaseId
  PROVE  /\ l[1] \in Stateful => Kept(l) = {Key(l)}
         /\ l[1] \notin Stateful => Kept(l) = {}
BY DEF Kept

LEMMA CleanupSessionStep ==
  ASSUME LifeInv, NEW p \in Worker, CleanupSessionInv(p), Step(p)
  PROVE  CleanupSessionInv(p)'
<1> USE DEF LifeInv, TypeInv, TypeOK, Goto
<1>. SUFFICES ASSUME flow'[p] = "cleanup", pc'[p] \in {"dropRoute", "sessLock", "dropSession"}
              PROVE  /\ pc'[p] \in {"sessLock", "dropSession"} => copy'[p].prov
                     /\ pc'[p] = "dropRoute" => /\ copy'[p].prov = facts'[job'[p]].prov
                                                /\ facts'[job'[p]].st = "failed"
  BY DEF CleanupSessionInv
<1>1. ~Return(p)
  BY DEF Return, Drop
<1>2. CASE Reread(p)
  <2>1. /\ job[p] \in LeaseId /\ flow[p] = "cleanup" /\ UNCHANGED <<facts, job>>
        /\ copy'[p] = facts[job[p]] /\ Pending(facts[job[p]])
        /\ pc'[p] = IF facts[job[p]].route THEN "dropRoute" ELSE "sessLock"
    BY <1>1, <1>2 DEF Reread, Wanted, JobInv, NoJob
  <2>. QED
    BY <2>1 DEF FactInv, Pending
<1>3. CASE Lookup(p)
  BY <1>3 DEF Lookup, WorkerInv, LockInv
<1>4. CASE DropRoute(p)
  <2>1. /\ copy[p].prov /\ flow[p] = "cleanup" /\ pc'[p] = "sessLock"
        /\ copy'[p] = Cleared(copy[p], "route") /\ copy[p] \in Fact
    BY <1>4 DEF DropRoute
  <2>. QED
    BY <2>1, LabelsMarked
<1>5. CASE LockSession(p)
  BY <1>1, <1>5 DEF LockSession, CleanupSessionInv
<1>. QED
  BY <1>1, <1>2, <1>3, <1>4, <1>5 DEF Step, Acquiring, Retiring, AcquireLock, Refresh,
     Select, GiveUp, LockProvider, CreateSession, Prepare, LockAllocation, UpsertRoute,
     SaveActive, Commit, UndoRoute, UndoSession, Record, Giveback, Drop,
     ReleaseLookup, Begin, LockAccount, LockTimeout, DropSession, SavePending,
     SaveFinal, FreeSlot

LEMMA SessionWorkerStep ==
  ASSUME Canonical, SessionInv, NEW p \in Worker, Step(p)
  PROVE  SessionInv'
<1> USE DEF SessionInv
<1>1. ASSUME NEW q \in Worker PROVE CleanupSessionInv(q)'
  <2>1. CASE q = p
    BY <2>1, CleanupSessionStep
  <2>2. CASE q # p
    <3>1. pc[q] = "dropRoute" => facts'[job[q]] = facts[job[q]]
      BY <2>2, OthersRecord DEF LifeInv, TypeInv, JobInv, NoJob, Busy, Retire
    <3>. QED
      BY <2>2, <3>1, Others DEF CleanupSessionInv, LifeInv
  <2>. QED
    BY <2>1, <2>2
<1>. QED
  BY <1>1, WorkerStep

\* Who gets past a session has released it, or there was none to release: no
\* route whose deletion fails stands in between (finding SessionLeak).
LEMMA PastSessionStep ==
  ASSUME LifeInv, "delete" \notin Faults, NEW p \in Worker, CleanupSessionInv(p), Step(p),
         NEW l \in LeaseId, l[1] \in Stateful, PastSession(p, l)', ~PastSession(p, l)
  PROVE  \/ Key(l) \notin sessions'
         \/ facts[l].st # "active" /\ ~facts[l].prov
<1> USE DEF LifeInv, TypeInv, TypeOK, Goto
<1>0. /\ job'[p] = l
      /\ pc'[p] = "final" \/ (pc'[p] = "pending" /\ ~copy'[p].prov)
  BY DEF PastSession
<1>1. ~Return(p)
  BY <1>0 DEF Return, Drop
<1>2. CASE DropRoute(p)
  <2>1. /\ flow[p] = "cleanup" /\ ~copy[p].prov /\ pc[p] = "dropRoute" /\ job[p] = l
    BY <1>0, <1>2 DEF DropRoute
  <2>. QED
    BY <2>1 DEF CleanupSessionInv
<1>3. CASE LockSession(p)
  <2>1. /\ flow[p] # "cleanup" /\ copy'[p] = AfterFailure(flow[p], copy[p], "prov")
        /\ copy[p] \in Fact
    BY <1>0, <1>1, <1>3 DEF LockSession
  <2>2. copy'[p].prov
    BY <2>1, FailureMarked
  <2>. QED
    BY <1>0, <1>1, <1>3, <2>2 DEF LockSession
<1>4. CASE DropSession(p)
  <2>1. CASE sessions' = sessions \ Kept(job[p])
    BY <1>0, <1>4, <2>1, KeptSession DEF DropSession
  <2>2. CASE copy'[p] = AfterFailure(flow[p], copy[p], "prov") /\ pc'[p] = "pending"
    <3>1. copy[p] \in Fact /\ (flow[p] = "cleanup" => copy[p].prov)
      BY <1>4 DEF DropSession, CleanupSessionInv
    <3>2. copy'[p].prov
      BY <2>2, <3>1, FailureMarked
    <3>. QED
      BY <1>0, <2>2, <3>2
  <2>. QED
    BY <1>4, <2>1, <2>2 DEF DropSession
<1>. QED
  BY <1>0, <1>1, <1>2, <1>3, <1>4 DEF Step, Acquiring, Retiring, AcquireLock, Lookup,
     Refresh, Select, GiveUp, LockProvider, CreateSession, Prepare, LockAllocation,
     UpsertRoute, SaveActive, Commit, UndoRoute, UndoSession, Record, Giveback, Drop,
     ReleaseLookup, Begin, LockAccount, LockTimeout, Reread, SavePending, SaveFinal,
     FreeSlot

LEMMA LeadsToSessionStep ==
  ASSUME LifeInv, "delete" \notin Faults, NEW p \in Worker, CleanupSessionInv(p), Step(p),
         NEW l \in LeaseId, l[1] \in Stateful, LeadsToSession(l), Key(l) \in sessions'
  PROVE  LeadsToSession(l)'
<1> USE DEF LifeInv, TypeInv, TypeOK
<1>1. ASSUME NEW q \in Worker PROVE ~PastSession(q, l)'
  <2>1. CASE q = p
    BY <2>1, PastSessionStep DEF LeadsToSession
  <2>2. CASE q # p
    BY <2>2, Others DEF LeadsToSession, PastSession
  <2>. QED
    BY <2>1, <2>2
<1>2. facts'[l].st = "active" \/ facts'[l].prov
  <2>1. facts[l].st # "none"
    BY DEF LeadsToSession, FactInv, Pending
  <2>2. CASE UNCHANGED facts
    BY <2>2 DEF LeadsToSession
  <2>3. CASE SaveActive(p)
    BY <2>1, <2>3 DEF SaveActive, SaveFails, Saved, NotSaved, LeadsToSession,
       WorkerInv, TryInv, Trying, Unsaved
  <2>4. CASE Record(p)
    BY <2>1, <2>4 DEF Record, Saved, NotSaved, LeadsToSession, WorkerInv, TryInv, Trying
  <2>5. CASE SavePending(p)
    BY <2>5 DEF SavePending, SaveFails, Saved, NotSaved, LeadsToSession, PastSession
  <2>6. CASE SaveFinal(p)
    BY <2>6 DEF SaveFinal, SaveFails, Saved, NotSaved, LeadsToSession, PastSession
  <2>. QED
    BY <2>2, <2>3, <2>4, <2>5, <2>6, AcquiringEffects, RetiringEffects DEF Step
<1>. QED
  BY <1>1, <1>2 DEF LeadsToSession

LEMMA SavedLeadsToSession ==
  ASSUME LifeInv, NEW p \in Worker, SaveActive(p), NEW l, l = job[p],
         facts' = [facts EXCEPT ![l] = ActiveFact]
  PROVE  LeadsToSession(l)'
<1>1. l \in LeaseId /\ facts[l].st = "none"
  BY AttemptIds DEF SaveActive, Trying, Unsaved
<1>2. facts'[l].st = "active"
  BY <1>1 DEF LifeInv, TypeInv, TypeOK, ActiveFact, NoFact
<1>. QED
  BY <1>1, <1>2, FirstSave DEF LeadsToSession, PastSession, Retire

LEMMA RecordedLeadsToSession ==
  ASSUME LifeInv, NEW p \in Worker, Record(p), NEW l, l = Failure(job[p][1]),
         facts' = [facts EXCEPT ![l] = copy[p]], copy[p].prov
  PROVE  LeadsToSession(l)'
<1>1. l \in LeaseId /\ facts[l].st = "none"
  BY AttemptIds DEF Record, Trying, Unsaved
<1>2. facts'[l].prov
  BY <1>1 DEF LifeInv, TypeInv, TypeOK
<1>. QED
  BY <1>1, <1>2, FirstSave DEF LeadsToSession, PastSession, Retire

LEMMA NewSession ==
  ASSUME TypeInv, NEW p \in Worker, Step(p), NEW s \in sessions', s \notin sessions
  PROVE  /\ CreateSession(p) /\ s = Key(job[p]) /\ job[p][1] \in Stateful
         /\ pc'[p] = "prepare" /\ UNCHANGED <<facts, job, issued>>
<1>1. CreateSession(p) /\ s \in Kept(job[p]) /\ pc'[p] = "prepare"
  BY AcquiringEffects, RetiringEffects
     DEF Step, CreateSession, UndoSession, DropSession, Goto, TypeInv, TypeOK
<1>. QED
  BY <1>1 DEF CreateSession, Kept

LEMMA SessionEndStep ==
  ASSUME LifeInv, "delete" \notin Faults,
         NEW p \in Worker, CleanupSessionInv(p), Step(p), SessionEndInv
  PROVE  SessionEndInv'
<1> USE DEF LifeInv
<1>. SUFFICES ASSUME NEW s \in sessions'
              PROVE  \E a \in issued' \cap Stateful :
                       /\ SessionOf[a] = s
                       /\ facts'[Own(a)].st = "none" \/ LeadsToSession(Own(a))'
  BY DEF SessionEndInv
<1>1. CASE s \notin sessions
  <2>1. /\ CreateSession(p) /\ s = Key(job[p]) /\ UNCHANGED <<facts, issued>>
        /\ job[p][1] \in Stateful
    BY <1>1, NewSession
  <2>2. /\ job[p][1] \in issued /\ SessionOf[job[p][1]] = s
        /\ facts[Own(job[p][1])].st = "none"
    BY <2>1, AttemptIds DEF CreateSession, Trying, Unsaved
  <2>. QED
    BY <2>1, <2>2
<1>2. CASE s \in sessions
  <2>1. PICK a \in issued \cap Stateful :
          SessionOf[a] = s /\ (facts[Own(a)].st = "none" \/ LeadsToSession(Own(a)))
    BY <1>2 DEF SessionEndInv
  <2>2. /\ a \in issued' /\ a \in Attempt /\ Own(a) \in LeaseId
        /\ Key(Own(a)) = s /\ Own(a)[1] \in Stateful
    BY <2>1, IssuedGrows, IdTypes DEF TypeInv, TypeOK, Own, Key
  <2>3. CASE facts[Own(a)].st = "none"
    BY <2>1, <2>2, <2>3, NoneStep, SavedLeadsToSession
  <2>4. CASE LeadsToSession(Own(a))
    BY <2>1, <2>2, <2>4, LeadsToSessionStep
  <2>. QED
    BY <2>1, <2>2, <2>3, <2>4
<1>. QED
  BY <1>1, <1>2

\* A restart takes what workers have in hand; what records lead to remains.
LEMMA SessionBackgroundStep ==
  ASSUME SessionInv, Sweeping \/ Restoring \/ Environment
  PROVE  /\ SessionInv' /\ (SessionEndInv => SessionEndInv')
         /\ \A l : LeadsToSession(l) => LeadsToSession(l)'
<1>1. LifeInv' /\ UNCHANGED <<facts, issued, sessions>>
  BY BackgroundStep, BackgroundEffects DEF SessionInv, LifeInv
<1>2. ASSUME NEW q \in Worker
      PROVE  \/ /\ pc'[q] = pc[q] /\ flow'[q] = flow[q]
                /\ job'[q] = job[q] /\ copy'[q] = copy[q]
             \/ pc'[q] \in {"idle", "lock"}
  BY BackgroundEffects DEF SessionInv, LifeInv
<1>3. ASSUME NEW q \in Worker PROVE CleanupSessionInv(q)'
  BY <1>1, <1>2 DEF SessionInv, CleanupSessionInv
<1>4. ASSUME NEW l, LeadsToSession(l) PROVE LeadsToSession(l)'
  <2>1. ASSUME NEW q \in Worker PROVE ~PastSession(q, l)'
    BY <1>2, <1>4 DEF LeadsToSession, PastSession
  <2>. QED
    BY <1>1, <1>4, <2>1 DEF LeadsToSession
<1>. QED
  BY <1>1, <1>3, <1>4 DEF SessionInv, SessionEndInv

LEMMA SessionUnchanged ==
  ASSUME Canonical, SessionInv, UNCHANGED vars
  PROVE  /\ SessionInv'
         /\ SessionEndInv => SessionEndInv'
         /\ SessionKnownInv => SessionKnownInv'
<1>1. LifeInv'
  BY LifeStep DEF SessionInv
<1>2. UNCHANGED <<facts, issued, sessions, pc, flow, job, copy>>
  BY DEF vars, plane, proc
<1>3. ASSUME NEW l PROVE UNCHANGED LeadsToSession(l)
  BY <1>2 DEF LeadsToSession, PastSession
<1>4. ASSUME NEW l, NEW q PROVE UNCHANGED UndoesSession(q, l)
  BY <1>2 DEF UndoesSession
<1>. QED
  BY <1>1, <1>2, <1>3, <1>4
     DEF SessionInv, CleanupSessionInv, SessionEndInv, SessionKnownInv

\* No session at the provider outlives its lease, restarts included and under
\* every fault but one: the final status is saved only when the session was
\* released. The fault left out is a route whose deletion fails: the retire
\* returns before the session (RetireLeaseRoute; finding SessionLeak).
THEOREM NoSessionOutlivesLease ==
  ASSUME Canonical, "delete" \notin Faults
  PROVE  Spec => []NoSessionAfterEnd
<1> DEFINE Inv == SessionInv /\ SessionEndInv
<1>1. Init => Inv
  BY SessionInit
<1>2. Inv /\ [Next]_vars => Inv'
  <2>. SUFFICES ASSUME Inv, [Next]_vars PROVE Inv'
    OBVIOUS
  <2>1. CASE UNCHANGED vars
    BY <2>1, SessionUnchanged
  <2>2. ASSUME NEW p \in Worker, Step(p) PROVE Inv'
    BY <2>2, SessionWorkerStep, SessionEndStep DEF SessionInv
  <2>3. CASE Sweeping \/ Restoring \/ Environment
    BY <2>3, SessionBackgroundStep
  <2>. QED
    BY <2>1, <2>2, <2>3 DEF Next, Step
<1>3. Inv => NoSessionAfterEnd
  <2>1. ASSUME Inv, NEW a \in issued, LeadsToSession(Own(a)) PROVE ~Terminal(facts[Own(a)])
    BY <2>1, IdTypes DEF LeadsToSession, Terminal, Pending, SessionInv, LifeInv, FactInv,
       TypeInv, TypeOK
  <2>. QED
    BY <2>1 DEF SessionEndInv, NoSessionAfterEnd, Terminal
<1>. QED
  BY <1>1, <1>2, <1>3, PTL DEF Spec

LEMMA UndoesSessionStep ==
  ASSUME LifeInv, Faults \cap {"record", "allocLock"} = {}, NEW p \in Worker, Step(p),
         NEW a \in Stateful, UndoesSession(p, Own(a)), SessionOf[a] \in sessions'
  PROVE  \/ UndoesSession(p, Own(a))'
         \/ LeadsToSession(Own(a))' \/ LeadsToSession(Failure(a))'
<1> USE DEF LifeInv, TypeInv, TypeOK, Goto
<1>0. /\ job[p] = Own(a) /\ job[p][1] = a /\ Key(job[p]) = SessionOf[a]
      /\ job[p] \in LeaseId /\ copy[p] \in Fact
  BY IdTypes DEF UndoesSession, Own, Key
<1>1. CASE pc[p] \in {"prepare", "alloc", "upsert", "undoRoute"}
  <2>1. Prepare(p) \/ LockAllocation(p) \/ UpsertRoute(p) \/ UndoRoute(p)
    BY <1>1, AttemptOrder
  <2>2. /\ job'[p] = job[p]
        /\ pc'[p] \in {"alloc", "upsert", "save", "undoRoute", "undoSession"}
    BY <2>1 DEF Prepare, LockAllocation, UpsertRoute, UndoRoute
  <2>. QED
    BY <1>0, <2>2 DEF UndoesSession
<1>2. CASE pc[p] = "save"
  <2>1. SaveActive(p)
    BY <1>2, AttemptOrder
  <2>2. CASE facts' = [facts EXCEPT ![Own(a)] = ActiveFact]
    BY <1>0, <2>1, <2>2, SavedLeadsToSession
  <2>3. CASE facts' # [facts EXCEPT ![Own(a)] = ActiveFact]
    BY <1>0, <2>1, <2>3 DEF SaveActive, Saved, UndoesSession
  <2>. QED
    BY <2>2, <2>3
<1>3. CASE pc[p] = "undoSession"
  <2>1. UndoSession(p) /\ Kept(job[p]) = {SessionOf[a]}
    BY <1>0, <1>3, AttemptOrder, KeptSession
  <2>2. /\ copy'[p] = Marked(copy[p], "prov")
        /\ pc'[p] = "record" /\ job'[p] = job[p]
    BY <2>1 DEF UndoSession
  <2>3. copy'[p].prov
    BY <1>0, <2>2, LabelsMarked
  <2>. QED
    BY <1>0, <2>2, <2>3 DEF UndoesSession
<1>4. CASE pc[p] = "record"
  <2>1. Record(p) /\ copy[p].prov
    BY <1>4, AttemptOrder DEF UndoesSession
  <2>2. facts' = [facts EXCEPT ![Failure(a)] = copy[p]]
    BY <1>0, <2>1 DEF Record, Saved
  <2>. QED
    BY <1>0, <2>1, <2>2, RecordedLeadsToSession
<1>. QED
  BY <1>1, <1>2, <1>3, <1>4 DEF UndoesSession

LEMMA SessionKnownStep ==
  ASSUME LifeInv, Faults \cap {"delete", "record", "allocLock"} = {},
         NEW p \in Worker, CleanupSessionInv(p), Step(p), SessionKnownInv
  PROVE  SessionKnownInv'
<1> USE DEF LifeInv
<1>. SUFFICES ASSUME NEW s \in sessions'
              PROVE  \E a \in issued' \cap Stateful :
                       /\ SessionOf[a] = s
                       /\ \/ LeadsToSession(Own(a))' \/ LeadsToSession(Failure(a))'
                          \/ \E q \in Worker : UndoesSession(q, Own(a))'
  BY DEF SessionKnownInv
<1>1. CASE s \notin sessions
  <2>1. /\ CreateSession(p) /\ s = Key(job[p]) /\ pc'[p] = "prepare"
        /\ job[p][1] \in Stateful /\ UNCHANGED <<job, issued>>
    BY <1>1, NewSession
  <2>2. /\ job[p][1] \in issued /\ SessionOf[job[p][1]] = s
        /\ job[p] = Own(job[p][1])
    BY <2>1, AttemptIds DEF CreateSession, Trying, Unsaved
  <2>3. UndoesSession(p, Own(job[p][1]))'
    BY <2>1, <2>2 DEF UndoesSession
  <2>. QED
    BY <2>1, <2>2, <2>3
<1>2. CASE s \in sessions
  <2>1. PICK a \in issued \cap Stateful :
          /\ SessionOf[a] = s
          /\ \/ LeadsToSession(Own(a)) \/ LeadsToSession(Failure(a))
             \/ \E q \in Worker : UndoesSession(q, Own(a))
    BY <1>2 DEF SessionKnownInv
  <2>2. /\ a \in issued' /\ a \in Attempt
        /\ Own(a) \in LeaseId /\ Key(Own(a)) = s /\ Own(a)[1] \in Stateful
        /\ Failure(a) \in LeaseId /\ Key(Failure(a)) = s /\ Failure(a)[1] \in Stateful
    BY <2>1, IssuedGrows, IdTypes DEF TypeInv, TypeOK, Own, Failure, Key
  <2>3. CASE LeadsToSession(Own(a)) \/ LeadsToSession(Failure(a))
    BY <2>1, <2>2, <2>3, LeadsToSessionStep
  <2>4. ASSUME NEW q \in Worker, UndoesSession(q, Own(a))
        PROVE  \/ LeadsToSession(Own(a))' \/ LeadsToSession(Failure(a))'
               \/ UndoesSession(q, Own(a))'
    <3>1. CASE q = p
      BY <2>1, <2>2, <2>4, <3>1, UndoesSessionStep
    <3>2. CASE q # p
      BY <2>4, <3>2, Others DEF UndoesSession
    <3>. QED
      BY <3>1, <3>2
  <2>. QED
    BY <2>1, <2>2, <2>3, <2>4
<1>. QED
  BY <1>1, <1>2

\* Until a restart every session open at a provider is known to a record that
\* leads to its release, or in the hands of the attempt that opened it. Three
\* faults are left out, in each of which the code has nothing that remembers
\* the session: the listener lock is not obtained (the attempt ends unrecorded),
\* the record of a failed acquire is not saved, the route is not deleted.
THEOREM NoSessionForgotten ==
  ASSUME Canonical, Faults \cap {"delete", "record", "allocLock"} = {}
  PROVE  Spec => [](crashes = 0 => SessionAccounted)
<1> DEFINE Inv == /\ RouteInv /\ SessionInv /\ FailureInv
                  /\ crashes = 0 => SessionKnownInv
<1>1. Init => Inv
  BY RouteInit, SessionInit, FailureInit
<1>2. Inv /\ [Next]_vars => Inv'
  <2>. SUFFICES ASSUME Inv, [Next]_vars PROVE Inv'
    OBVIOUS
  <2>0. FailureInv'
    BY FailureStep DEF RouteInv
  <2>1. CASE UNCHANGED vars
    BY <2>0, <2>1, RouteUnchanged, SessionUnchanged DEF vars, batch
  <2>2. ASSUME NEW p \in Worker, Step(p) PROVE Inv'
    <3>1. UNCHANGED crashes
      BY <2>2, AcquiringEffects, RetiringEffects DEF Step, batch, RouteInv, LifeInv
    <3>. QED
      BY <2>0, <2>2, <3>1, RouteWorkerStep, SessionWorkerStep, SessionKnownStep
         DEF SessionInv
  <2>3. CASE Sweeping \/ Restoring \/ Environment
    <3>1. SessionInv'
      BY <2>3, SessionBackgroundStep
    <3>2. ASSUME crashes' = 0 PROVE RouteInv' /\ SessionKnownInv'
      <4>1. crashes = 0 /\ UNCHANGED <<issued, sessions>>
        BY <2>3, <3>2, BeforeRestart, BackgroundEffects DEF RouteInv, LifeInv
      <4>2. ASSUME NEW l, NEW q \in Worker, UndoesSession(q, l) PROVE UndoesSession(q, l)'
        BY <2>3, <3>2, <4>2, BeforeRestart DEF UndoesSession
      <4>. QED
        BY <2>3, <3>2, <4>1, <4>2, SessionBackgroundStep, RouteBackgroundStep
           DEF SessionKnownInv
    <3>. QED
      BY <2>0, <2>3, <3>1, <3>2, RouteStep DEF Next
  <2>. QED
    BY <2>1, <2>2, <2>3 DEF Next, Step
<1>3. Inv => (crashes = 0 => SessionAccounted)
  <2>1. ASSUME Inv, NEW a \in issued, NEW q \in Worker, UndoesSession(q, Own(a))
        PROVE  InHand(SessionOf[a], Acquire \cup {"prepare", "alloc", "upsert"})
    <3>1. job[q] = Own(a) /\ job[q] # NoLease /\ Key(job[q]) = SessionOf[a]
      BY <2>1, IdTypes DEF UndoesSession, Own, Key, RouteInv, LifeInv, TypeInv, TypeOK
    <3>. QED
      BY <2>1, <3>1 DEF UndoesSession, InHand, Acquire
  <2>2. Inv => \A a \in issued : LeadsToSession(Failure(a)) => facts[Failure(a)].prov
    BY DEF LeadsToSession, FailureInv, RouteInv, LifeInv, TypeInv, TypeOK
  <2>. SUFFICES ASSUME Inv, crashes = 0, NEW s \in sessions
                PROVE  \/ \E a \in issued :
                            /\ SessionOf[a] = s
                            /\ \/ facts[Own(a)].st = "active"
                               \/ facts[Own(a)].prov \/ facts[Failure(a)].prov
                       \/ InHand(s, Acquire \cup {"prepare", "alloc", "upsert"})
    BY DEF SessionAccounted
  <2>3. PICK a \in issued \cap Stateful :
          /\ SessionOf[a] = s
          /\ \/ LeadsToSession(Own(a)) \/ LeadsToSession(Failure(a))
             \/ \E q \in Worker : UndoesSession(q, Own(a))
    BY DEF SessionKnownInv
  <2>. QED
    BY <2>1, <2>2, <2>3 DEF LeadsToSession
<1>. QED
  BY <1>1, <1>2, <1>3, PTL DEF Spec

-----------------------------------------------------------------------------
(* Slots of the provider accounts.                                          *)

SlotKept == \A a \in Attempt : Current(a) => a \in slots

\* An attempt ends in a lease or in the record of a failure, not in both.
OneRecord ==
  \A a \in Attempt : facts[Failure(a)].st # "none" => facts[Own(a)].st = "none"

\* Who gives a slot back works on a lease that never was, or that has ended.
SlotInv(p) ==
  /\ pc[p] \in Trying \cup {"giveback"} =>
       job[p] = Own(job[p][1]) /\ facts[job[p]].st = "none"
  /\ pc[p] \in Unsaved => job[p][1] \in slots \cup due
  /\ pc[p] = "freeSlot" => Terminal(facts[job[p]])

HoldInv == LifeInv /\ SlotKept /\ OneRecord /\ \A p \in Worker : SlotInv(p)

\* The faults after which the code does not know what it left behind: a save
\* that is told to have failed, the listener lock lost after the save, and a
\* restore that fails and gives the slot back.
SlotFaults == {"ambiguous", "allocLock", "restore"}

LEMMA HoldInit == Init => HoldInv
BY LifeInit, IdTypes DEF Init, HoldInv, SlotKept, OneRecord, SlotInv, Current, NoFact,
   Trying, Unsaved

LEMMA SlotAcquiring ==
  ASSUME SlotFaults \cap Faults = {}, LifeInv, NEW p \in Client, SlotInv(p), Acquiring(p)
  PROVE  SlotInv(p)'
<1> USE DEF LifeInv, TypeInv, TypeOK, SlotFaults, Goto, Trying, Unsaved
<1>1. CASE AcquireLock(p) \/ Lookup(p) \/ Refresh(p) \/ GiveUp(p)
  BY <1>1 DEF AcquireLock, Lookup, Refresh, GiveUp, Return, Drop, SlotInv
<1>2. CASE Select(p)
  <2>1. PICK a \in Attempt \ issued :
          slots' = slots \cup {a} /\ job' = [job EXCEPT ![p] = Own(a)]
    BY <1>2 DEF Select
  <2>2. Own(a)[1] = a /\ Own(a) \in LeaseId
    BY IdTypes DEF Own
  <2>3. pc'[p] = "provLock" /\ job'[p] = Own(a) /\ facts'[Own(a)].st = "none"
    BY <1>2, <2>1, <2>2 DEF Select, FactInv
  <2>. QED
    BY <2>1, <2>2, <2>3 DEF SlotInv
<1>3. CASE LockProvider(p) \/ CreateSession(p) \/ Prepare(p) \/ LockAllocation(p)
  BY <1>3 DEF LockProvider, CreateSession, Prepare, LockAllocation, SlotInv, plane
<1>4. CASE UpsertRoute(p) \/ UndoRoute(p) \/ UndoSession(p)
  BY <1>4 DEF UpsertRoute, UndoRoute, UndoSession, SlotInv
<1>5. CASE SaveActive(p)
  BY <1>5 DEF SaveActive, SaveFails, NotSaved, SlotInv, plane
<1>6. CASE Commit(p)
  BY <1>6 DEF Commit, Return, Drop, SlotInv
<1>7. CASE Record(p)
  <2>1. job[p] \in LeaseId /\ Failure(job[p][1]) # job[p]
    BY <1>7, AttemptIds DEF Record, Own, Failure
  <2>2. facts'[job[p]] = facts[job[p]]
    BY <1>7, <2>1 DEF Record, Saved, NotSaved
  <2>3. pc[p] = "record" /\ pc'[p] = "giveback" /\ UNCHANGED job
    BY <1>7 DEF Record
  <2>. QED
    BY <2>2, <2>3 DEF SlotInv
<1>8. CASE Giveback(p)
  BY <1>8 DEF Giveback, Return, Drop, SlotInv
<1>. QED
  BY <1>1, <1>2, <1>3, <1>4, <1>5, <1>6, <1>7, <1>8 DEF Acquiring

LEMMA SlotRetiring ==
  ASSUME LifeInv, NEW p \in Worker, SlotInv(p), Retiring(p)
  PROVE  SlotInv(p)'
<1> USE DEF LifeInv, TypeInv, TypeOK, Goto, Trying, Unsaved
<1>1. CASE (\E l \in LeaseId : ReleaseLookup(p, l)) \/ LockAccount(p) \/ LockTimeout(p)
  BY <1>1 DEF ReleaseLookup, Begin, LockAccount, LockTimeout, Return, Drop, SlotInv
<1>2. CASE Reread(p) \/ DropRoute(p)
  BY <1>2 DEF Reread, DropRoute, Return, Drop, SlotInv
<1>3. CASE LockSession(p) \/ DropSession(p)
  BY <1>3 DEF LockSession, DropSession, Return, Drop, SlotInv
<1>4. CASE SaveFinal(p)
  <2>1. job[p] \in LeaseId
    BY <1>4 DEF SaveFinal, JobInv, NoJob
  <2>. QED
    BY <1>4, <2>1 DEF SaveFinal, Saved, SaveFails, Return, Drop, SlotInv
<1>5. CASE SavePending(p) \/ FreeSlot(p)
  BY <1>5 DEF SavePending, FreeSlot, Return, Drop, SlotInv
<1>. QED
  BY <1>1, <1>2, <1>3, <1>4, <1>5 DEF Retiring

\* A worker gives back only the slot of the lease in its hand.
LEMMA SlotsGivenBack ==
  ASSUME TypeInv, NEW p \in Worker, Step(p), NEW a \in slots, a \notin slots'
  PROVE  (FreeSlot(p) \/ Giveback(p)) /\ a = job[p][1] /\ UNCHANGED facts
BY AcquiringEffects, RetiringEffects DEF Step, FreeSlot, Giveback

\* Two workers never hold the lock of one account.
LEMMA InOneHand ==
  ASSUME LifeInv, NEW p \in Worker, pc[p] \in Busy,
         NEW q \in Worker, pc[q] \in Busy, job[p][1] = job[q][1]
  PROVE  p = q
BY DEF LifeInv, WorkerInv, LockInv, Owner

LEMMA SlotOthers ==
  ASSUME LifeInv, NEW p \in Worker, Step(p), NEW q \in Worker, q # p, SlotInv(q)
  PROVE  SlotInv(q)'
<1> USE DEF LifeInv
<1>1. pc'[q] = pc[q] /\ job'[q] = job[q]
  BY Others
<1>2. ASSUME pc[q] \in Trying \cup {"giveback", "freeSlot"}
      PROVE  /\ facts'[job[q]] = facts[job[q]]
             /\ job[q][1] \in slots => job[q][1] \in slots'
  <2>1. pc[q] \in Busy /\ job[q] \in LeaseId
    BY <1>2 DEF TypeInv, JobInv, NoJob, Busy, Trying, Unsaved
  <2>2. facts'[job[q]] = facts[job[q]]
    BY <2>1, OthersRecord
  <2>3. ASSUME job[q][1] \in slots, job[q][1] \notin slots' PROVE FALSE
    <3>1. pc[p] \in Busy /\ job[p][1] = job[q][1]
      BY <2>3, SlotsGivenBack DEF FreeSlot, Giveback, Busy
    <3>. QED
      BY <2>1, <3>1, InOneHand
  <2>. QED
    BY <2>2, <2>3
<1>3. UNCHANGED due
  BY AcquiringEffects, RetiringEffects DEF Step
<1>. QED
  BY <1>1, <1>2, <1>3 DEF SlotInv, Trying

LEMMA OneRecordStep ==
  ASSUME HoldInv, NEW p \in Worker, Step(p)
  PROVE  OneRecord'
<1> USE DEF HoldInv, LifeInv, TypeInv, TypeOK
<1>. SUFFICES ASSUME NEW a \in Attempt, facts'[Failure(a)].st # "none"
              PROVE  facts'[Own(a)].st = "none"
  BY DEF OneRecord
<1>0. /\ Own(a) \in LeaseId /\ Failure(a) \in LeaseId
      /\ Failure(a) # Own(a) /\ Failure(a)[1] = a /\ Own(a)[1] = a
  BY IdTypes DEF Own, Failure
<1>1. CASE facts[Failure(a)].st # "none"
  <2>1. facts[Own(a)].st = "none"
    BY <1>1 DEF OneRecord
  <2>2. ~(SaveActive(p) /\ job[p] = Own(a))
    BY <1>0, <1>1, AttemptIds DEF SaveActive, Trying, Unsaved
  <2>. QED
    BY <2>1, <2>2, NoneStep
<1>2. CASE facts[Failure(a)].st = "none"
  <2>1. CASE SaveActive(p)
    <3>1. job[p] # Failure(a)
      BY <2>1, AttemptIds DEF SaveActive, Trying, Unsaved, Own, Failure
    <3>. QED
      BY <1>0, <1>2, <2>1, <3>1 DEF SaveActive, SaveFails, Saved, NotSaved
  <2>2. CASE Record(p)
    <3>1. facts' = [facts EXCEPT ![Failure(job[p][1])] = copy[p]]
      BY <1>2, <2>2 DEF Record, Saved, NotSaved
    <3>2. job[p][1] = a
      BY <1>0, <1>2, <3>1 DEF Failure
    <3>3. facts[Own(a)].st = "none"
      BY <2>2, <3>2 DEF Record, SlotInv, Trying
    <3>. QED
      BY <1>0, <3>1, <3>2, <3>3
  <2>3. CASE SavePending(p) \/ SaveFinal(p)
    <3>1. job[p] # Failure(a)
      BY <1>0, <1>2, <2>3, NoneInHand DEF SavePending, SaveFinal, Retire
    <3>. QED
      BY <1>0, <1>2, <2>3, <3>1 DEF SavePending, SaveFinal, SaveFails, Saved, NotSaved
  <2>. QED
    BY <1>2, <2>1, <2>2, <2>3, AcquiringEffects, RetiringEffects DEF Step
<1>. QED
  BY <1>1, <1>2

LEMMA SlotKeptStep ==
  ASSUME HoldInv, NEW p \in Worker, Step(p)
  PROVE  SlotKept'
<1> USE DEF HoldInv, LifeInv, TypeInv, TypeOK
<1>. SUFFICES ASSUME NEW a \in Attempt, Current(a)' PROVE a \in slots'
  BY DEF SlotKept
<1>0. /\ Own(a) \in LeaseId /\ Own(a)[1] = a
      /\ UNCHANGED due /\ a \notin due /\ facts'[Own(a)].st = "active"
  BY IdTypes, AcquiringEffects, RetiringEffects DEF Own, Step, Current
<1>1. CASE SaveActive(p) /\ job[p] = Own(a)
  <2>1. a \in slots
    BY <1>0, <1>1 DEF SaveActive, SlotInv, Unsaved
  <2>2. UNCHANGED slots
    BY <1>1 DEF SaveActive, plane
  <2>. QED
    BY <2>1, <2>2
<1>2. CASE ~(SaveActive(p) /\ job[p] = Own(a))
  <2>1. facts[Own(a)].st = "active"
    BY <1>0, <1>2, NewActive
  <2>2. a \in slots
    BY <1>0, <2>1 DEF SlotKept, Current
  <2>3. SUFFICES ASSUME a \notin slots' PROVE FALSE
    OBVIOUS
  <2>4. (FreeSlot(p) \/ Giveback(p)) /\ a = job[p][1]
    BY <2>2, <2>3, SlotsGivenBack
  <2>5. CASE pc[p] = "giveback"
    BY <2>1, <2>4, <2>5 DEF SlotInv
  <2>6. CASE pc[p] = "freeSlot"
    <3>1. job[p] \in {Own(a), Failure(a)}
      BY <2>4, <2>6 DEF JobInv, NoJob, LeaseId, Own, Failure
    <3>2. Terminal(facts[job[p]])
      BY <2>6 DEF SlotInv
    <3>. QED
      BY <2>1, <3>1, <3>2 DEF OneRecord, Terminal
  <2>. QED
    BY <2>4, <2>5, <2>6 DEF FreeSlot, Giveback
<1>. QED
  BY <1>1, <1>2

LEMMA HoldWorkerStep ==
  ASSUME Canonical, SlotFaults \cap Faults = {}, HoldInv, NEW p \in Worker, Step(p)
  PROVE  HoldInv'
<1>1. LifeInv' /\ SlotKept' /\ OneRecord'
  BY WorkerStep, SlotKeptStep, OneRecordStep DEF HoldInv
<1>2. ASSUME NEW q \in Worker PROVE SlotInv(q)'
  BY SlotOthers, SlotAcquiring, SlotRetiring DEF HoldInv, Step
<1>. QED
  BY <1>1, <1>2 DEF HoldInv

LEMMA BackgroundSlots ==
  ASSUME "restore" \notin Faults, TypeInv, Sweeping \/ Restoring \/ Environment
  PROVE  slots \subseteq slots' \cup due'
<1>1. CASE Sweeping
  BY <1>1 DEF Sweeping, SweepPass, SweepTimeout, SweepNext, plane
<1>2. CASE Restoring
  BY <1>2 DEF Restoring, RestoreList, RestoreRoute, RestoreDone, RestoreSlot, plane
<1>3. CASE Environment
  BY <1>3 DEF Environment, Crash, Deadline, SlotLapses
<1>. QED
  BY <1>1, <1>2, <1>3

LEMMA HoldBackgroundStep ==
  ASSUME "restore" \notin Faults, HoldInv, Sweeping \/ Restoring \/ Environment
  PROVE  HoldInv'
<1> USE DEF HoldInv
<1>1. LifeInv' /\ UNCHANGED facts /\ due \subseteq due' /\ slots \subseteq slots' \cup due'
  BY BackgroundStep, BackgroundEffects, BackgroundSlots DEF LifeInv
<1>2. SlotKept' /\ OneRecord'
  BY <1>1 DEF SlotKept, OneRecord, Current
<1>3. ASSUME NEW q \in Worker PROVE SlotInv(q)'
  <2>1. CASE pc'[q] = pc[q] /\ job'[q] = job[q]
    BY <1>1, <2>1 DEF SlotInv
  <2>2. CASE pc'[q] \in {"idle", "lock"}
    BY <2>2 DEF SlotInv, Trying, Unsaved
  <2>. QED
    BY <2>1, <2>2, BackgroundEffects DEF LifeInv
<1>. QED
  BY <1>1, <1>2, <1>3

LEMMA HoldStep ==
  ASSUME Canonical, SlotFaults \cap Faults = {}, HoldInv, [Next]_vars
  PROVE  HoldInv'
<1>1. CASE UNCHANGED vars
  <2>1. LifeInv'
    BY LifeStep DEF HoldInv
  <2>. QED
    BY <1>1, <2>1 DEF HoldInv, SlotKept, OneRecord, SlotInv, Current, vars, plane, proc
<1>. QED
  BY <1>1, HoldWorkerStep, HoldBackgroundStep DEF Next, Step, SlotFaults

\* A served, current lease always holds its slot, through any number of
\* restarts: a slot goes when the attempt ends without a lease, after the final
\* status was saved, or when it lapses, which is after the session. Of the
\* faults three are left out (SlotFaults): in each of them the code gives the
\* slot of an attempt back although its record, or its route, is there.
THEOREM ServedLeaseHoldsSlot ==
  ASSUME Canonical, SlotFaults \cap Faults = {}
  PROVE  Spec => []ServedHoldsSlot
<1>1. HoldInv /\ [Next]_vars => HoldInv'
  BY HoldStep
<1>2. HoldInv => ServedHoldsSlot
  BY DEF HoldInv, SlotKept, ServedHoldsSlot
<1>. QED
  BY <1>1, <1>2, HoldInit, PTL DEF Spec

-----------------------------------------------------------------------------
(* A lease that reads active is served.                                     *)

\* No two attempts are for one session: the sessions are drawn.
Drawn == \A a, b \in Attempt : SessionOf[a] = SessionOf[b] => a = b

InRetire(a) == \E p \in Worker : job[p] = Own(a) /\ pc[p] \in Retire

\* The restore of the lease is still to come.
RestorePending(a) ==
  \/ pc[Restorer] = "list"
  \/ pc[Restorer] \in {"restore", "restoreRoute"} /\ Own(a) \in restoreList
  \/ pc[Restorer] = "restoreRoute" /\ job[Restorer] = Own(a)

RouteServed ==
  \A a \in Attempt : Current(a) /\ ~InRetire(a) => SessionOf[a] \in routes \/ RestorePending(a)

\* An attempt that saves its lease has applied its route, and a cleanup works
\* on a record that has failed.
ServeInv(p) ==
  /\ pc[p] = "save" => Key(job[p]) \in routes
  /\ pc[p] \in Retire /\ flow[p] = "cleanup" => facts[job[p]].st = "failed"

ServedInv == HoldInv /\ RouteServed /\ \A p \in Worker : ServeInv(p)

ServeFaults == SlotFaults \cup {"save"}

LEMMA ServedInit == Init => ServedInv
BY HoldInit, IdTypes DEF Init, ServedInv, RouteServed, ServeInv, Current, NoFact, Retire

LEMMA ServeAcquiring ==
  ASSUME LifeInv, NEW p \in Client, Acquiring(p)
  PROVE  ServeInv(p)'
<1> USE DEF LifeInv, TypeInv, TypeOK, Goto, Retire, ServeInv
<1>1. CASE AcquireLock(p) \/ Refresh(p) \/ Select(p) \/ GiveUp(p)
  BY <1>1 DEF AcquireLock, Refresh, Select, GiveUp, Return, Drop
<1>2. CASE Lookup(p)
  <2>1. flow'[p] = "acquire"
    BY <1>2 DEF Lookup, WorkerInv, LockInv
  <2>. QED
    BY <1>2, <2>1 DEF Lookup
<1>3. CASE LockProvider(p) \/ CreateSession(p) \/ Prepare(p) \/ LockAllocation(p)
  BY <1>3 DEF LockProvider, CreateSession, Prepare, LockAllocation
<1>4. CASE UpsertRoute(p)
  BY <1>4 DEF UpsertRoute
<1>5. CASE SaveActive(p) \/ Commit(p) \/ UndoRoute(p)
  BY <1>5 DEF SaveActive, Commit, UndoRoute, Return, Drop
<1>6. CASE UndoSession(p) \/ Record(p) \/ Giveback(p)
  BY <1>6 DEF UndoSession, Record, Giveback, Return, Drop
<1>. QED
  BY <1>1, <1>2, <1>3, <1>4, <1>5, <1>6 DEF Acquiring

LEMMA ServeRetiring ==
  ASSUME LifeInv, NEW p \in Worker, ServeInv(p), Retiring(p)
  PROVE  ServeInv(p)'
<1> USE DEF LifeInv, TypeInv, TypeOK, Goto, Retire, ServeInv
<1>1. CASE (\E l \in LeaseId : ReleaseLookup(p, l)) \/ LockAccount(p) \/ LockTimeout(p)
  BY <1>1 DEF ReleaseLookup, Begin, LockAccount, LockTimeout, Return, Drop
<1>2. CASE Reread(p)
  <2>1. job[p] \in LeaseId
    BY <1>2 DEF Reread, JobInv, NoJob
  <2>2. Wanted("cleanup", job[p], facts[job[p]]) => facts[job[p]].st = "failed"
    BY <2>1 DEF Wanted, FactInv
  <2>. QED
    BY <1>2, <2>2 DEF Reread, Return, Drop
<1>3. CASE DropRoute(p) \/ LockSession(p) \/ DropSession(p)
  BY <1>3 DEF DropRoute, LockSession, DropSession, Return, Drop
<1>4. CASE SavePending(p) \/ SaveFinal(p) \/ FreeSlot(p)
  BY <1>4 DEF SavePending, SaveFinal, FreeSlot, Return, Drop
<1>. QED
  BY <1>1, <1>2, <1>3, <1>4 DEF Retiring

\* A worker takes down only the route of the lease in its hand.
LEMMA RoutesTaken ==
  ASSUME TypeInv, NEW p \in Worker, Step(p), NEW s \in routes, s \notin routes'
  PROVE  (UndoRoute(p) \/ DropRoute(p)) /\ s = Key(job[p]) /\ UNCHANGED <<facts, job>>
BY AcquiringEffects, RetiringEffects DEF Step, UndoRoute, DropRoute, UpsertRoute

LEMMA ServeOthers ==
  ASSUME Drawn, LifeInv, NEW p \in Worker, Step(p), NEW q \in Worker, q # p, ServeInv(q)
  PROVE  ServeInv(q)'
<1> USE DEF LifeInv
<1>1. pc'[q] = pc[q] /\ job'[q] = job[q] /\ flow'[q] = flow[q]
  BY Others
<1>2. ASSUME pc[q] = "save", Key(job[q]) \in routes, Key(job[q]) \notin routes' PROVE FALSE
  <2>1. pc[p] \in Busy /\ Key(job[p]) = Key(job[q])
    BY <1>2, RoutesTaken DEF UndoRoute, DropRoute, Busy, Trying, Retire
  <2>2. job[p] \in LeaseId /\ job[q] \in LeaseId /\ pc[q] \in Busy
    BY <1>2, <2>1 DEF TypeInv, JobInv, NoJob, Busy, Trying, Unsaved, Retire
  <2>3. job[p][1] = job[q][1]
    BY <2>1, <2>2, IdTypes DEF Drawn, Key
  <2>. QED
    BY <2>1, <2>2, <2>3, InOneHand
<1>3. ASSUME pc[q] \in Retire PROVE facts'[job[q]] = facts[job[q]]
  <2>1. pc[q] \in Busy /\ job[q] \in LeaseId
    BY <1>3 DEF TypeInv, JobInv, NoJob, Busy, Retire
  <2>. QED
    BY <2>1, OthersRecord
<1>. QED
  BY <1>1, <1>2, <1>3 DEF ServeInv

\* A retire that lets go of a lease has saved that it is not active, or is a
\* cleanup, whose record was not.
LEMMA RetireLetsGo ==
  ASSUME {"save", "ambiguous"} \cap Faults = {}, LifeInv, NEW p \in Worker, ServeInv(p),
         Step(p), pc[p] \in Retire, ~(pc'[p] \in Retire /\ job'[p] = job[p])
  PROVE  facts'[job[p]].st # "active"
<1> USE DEF LifeInv, TypeInv, TypeOK, Goto, Retire
<1>0. job[p] \in LeaseId /\ copy[p] \in Fact
  BY DEF JobInv, NoJob
<1>1. DropRoute(p) \/ LockSession(p) \/ DropSession(p) \/ SavePending(p) \/ SaveFinal(p)
  BY DEF Step, Acquiring, Retiring, AcquireLock, Lookup, Refresh, Select, GiveUp,
     LockProvider, CreateSession, Prepare, LockAllocation, UpsertRoute, SaveActive,
     Commit, UndoRoute, UndoSession, Record, Giveback, ReleaseLookup, LockAccount,
     LockTimeout, Reread, FreeSlot
<1>2. CASE DropRoute(p) \/ DropSession(p)
  BY <1>2 DEF DropRoute, DropSession
<1>3. CASE LockSession(p)
  BY <1>3 DEF LockSession, Return, Drop, ServeInv
<1>4. CASE SavePending(p)
  <2>1. copy[p].st = "failed"
    BY <1>4 DEF SavePending, WorkerInv, RetireInv
  <2>. QED
    BY <1>0, <1>4, <2>1 DEF SavePending, SaveFails, Saved
<1>5. CASE SaveFinal(p)
  <2> DEFINE f == Finished(flow[p], copy[p])
  <2>1. f.st # "active"
    <3>1. flow[p] = "cleanup" => copy[p].st = "failed"
      BY <1>5 DEF SaveFinal, WorkerInv, RetireInv
    <3>. QED
      BY <1>0, <3>1 DEF Finished, FinalOf, Fact
  <2>2. facts' = [facts EXCEPT ![job[p]] = f]
    BY <1>5 DEF SaveFinal, SaveFails, Saved
  <2>. QED
    BY <1>0, <2>1, <2>2
<1>. QED
  BY <1>1, <1>2, <1>3, <1>4, <1>5

LEMMA RouteServedStep ==
  ASSUME Drawn, {"save", "ambiguous"} \cap Faults = {}, ServedInv, NEW p \in Worker, Step(p)
  PROVE  RouteServed'
<1> USE DEF ServedInv, HoldInv, LifeInv, TypeInv
<1>. SUFFICES ASSUME NEW a \in Attempt, Current(a)', ~InRetire(a)'
              PROVE  SessionOf[a] \in routes' \/ RestorePending(a)'
  BY DEF RouteServed
<1>0. /\ Own(a) \in LeaseId /\ Own(a)[1] = a /\ Key(Own(a)) = SessionOf[a]
      /\ UNCHANGED due /\ a \notin due /\ facts'[Own(a)].st = "active"
  BY IdTypes, AcquiringEffects, RetiringEffects DEF Own, Key, Step, Current
<1>1. CASE SaveActive(p) /\ job[p] = Own(a)
  <2>1. SessionOf[a] \in routes
    BY <1>0, <1>1 DEF SaveActive, ServeInv
  <2>2. UNCHANGED routes
    BY <1>1 DEF SaveActive, plane
  <2>. QED
    BY <2>1, <2>2
<1>2. CASE ~(SaveActive(p) /\ job[p] = Own(a))
  <2>1. facts[Own(a)].st = "active"
    BY <1>0, <1>2, NewActive
  <2>2. ~InRetire(a)
    <3>. SUFFICES ASSUME NEW q \in Worker, job[q] = Own(a), pc[q] \in Retire PROVE FALSE
      BY DEF InRetire
    <3>1. CASE q = p
      BY <1>0, <3>1, RetireLetsGo DEF InRetire
    <3>2. CASE q # p
      BY <3>2, Others DEF InRetire
    <3>. QED
      BY <3>1, <3>2
  <2>3. SessionOf[a] \in routes \/ RestorePending(a)
    BY <1>0, <2>1, <2>2 DEF RouteServed, Current
  <2>4. RestorePending(a) => RestorePending(a)'
    BY AcquiringEffects, RetiringEffects DEF Step, RestorePending, batch
  <2>5. ASSUME SessionOf[a] \in routes, SessionOf[a] \notin routes' PROVE FALSE
    <3>1. (UndoRoute(p) \/ DropRoute(p)) /\ Key(job[p]) = SessionOf[a]
      BY <2>5, RoutesTaken
    <3>2. job[p] \in LeaseId
      BY <3>1 DEF UndoRoute, DropRoute, JobInv, NoJob
    <3>3. job[p] \in {Own(a), Failure(a)}
      <4>1. job[p][1] = a
        BY <3>1, <3>2, IdTypes DEF Drawn, Key
      <4>. QED
        BY <3>2, <4>1 DEF LeaseId, Own, Failure
    <3>4. CASE UndoRoute(p)
      BY <2>1, <3>3, <3>4 DEF UndoRoute, SlotInv, Trying, Own, Failure
    <3>5. CASE DropRoute(p)
      <4>1. job[p] # Own(a)
        BY <2>2, <3>5 DEF DropRoute, InRetire, Retire
      <4>2. facts[Failure(a)].st # "none"
        BY <3>3, <3>5, <4>1 DEF DropRoute, WorkerInv, RetireInv, Retire
      <4>. QED
        BY <2>1, <4>2 DEF OneRecord
    <3>. QED
      BY <3>1, <3>4, <3>5
  <2>. QED
    BY <2>3, <2>4, <2>5
<1>. QED
  BY <1>1, <1>2

LEMMA ServedWorkerStep ==
  ASSUME Canonical, Drawn, ServeFaults \cap Faults = {}, ServedInv, NEW p \in Worker, Step(p)
  PROVE  ServedInv'
<1>1. HoldInv' /\ RouteServed'
  BY HoldWorkerStep, RouteServedStep DEF ServedInv, ServeFaults, SlotFaults
<1>2. ASSUME NEW q \in Worker PROVE ServeInv(q)'
  BY ServeOthers, ServeAcquiring, ServeRetiring DEF ServedInv, HoldInv, Step
<1>. QED
  BY <1>1, <1>2 DEF ServedInv

\* What restore has not done yet remains to be done, or is done.
LEMMA RestoreServes ==
  ASSUME "restore" \notin Faults, ServedInv, Restoring,
         NEW a \in Attempt, Current(a), RestorePending(a)
  PROVE  SessionOf[a] \in routes' \/ RestorePending(a)'
<1> USE DEF ServedInv, HoldInv, LifeInv, TypeInv, TypeOK, Goto, RestorePending
<1>0. Own(a) \in LeaseId /\ Own(a)[1] = a /\ Key(Own(a)) = SessionOf[a]
  BY IdTypes DEF Own, Key
<1>1. CASE RestoreList
  <2>1. Own(a) \in Restorable
    BY <1>0 DEF Restorable, Current
  <2>. QED
    BY <1>1, <2>1 DEF RestoreList
<1>2. ASSUME NEW l \in LeaseId, RestoreSlot(l)
      PROVE  SessionOf[a] \in routes' \/ RestorePending(a)'
  <2>1. CASE l = Own(a)
    <3>1. Room(a)
      BY DEF SlotKept, Room
    <3>. QED
      BY <1>0, <1>2, <2>1, <3>1 DEF RestoreSlot
  <2>2. CASE l # Own(a)
    BY <1>2, <2>2 DEF RestoreSlot
  <2>. QED
    BY <2>1, <2>2
<1>3. CASE RestoreRoute
  BY <1>0, <1>3 DEF RestoreRoute, batch
<1>4. CASE RestoreDone
  BY <1>4 DEF RestoreDone
<1>. QED
  BY <1>1, <1>2, <1>3, <1>4 DEF Restoring

\* But for a restart the background steps leave a lease in the hands it is in.
LEMMA BackgroundHands ==
  ASSUME TypeInv, Sweeping \/ Restoring \/ (\E a \in Attempt : Deadline(a) \/ SlotLapses(a))
  PROVE  /\ routes \subseteq routes'
         /\ Restoring \/ UNCHANGED restoreList
         /\ Restoring \/ (pc'[Restorer] = pc[Restorer] /\ job'[Restorer] = job[Restorer])
         /\ \A q \in Worker :
              \/ /\ pc'[q] = pc[q] /\ flow'[q] = flow[q] /\ job'[q] = job[q]
              \/ pc[q] = "idle" /\ pc'[q] = "lock"
<1> USE DEF TypeInv, TypeOK, Goto, plane, locks, proc, batch
<1>1. CASE SweepPass \/ SweepTimeout
  BY <1>1 DEF SweepPass, SweepTimeout
<1>2. ASSUME NEW l \in LeaseId, SweepNext(l)
      PROVE  /\ UNCHANGED <<routes, restoreList>>
             /\ pc'[Restorer] = pc[Restorer] /\ job'[Restorer] = job[Restorer]
             /\ pc[Sweeper] = "idle" /\ pc'[Sweeper] = "lock"
             /\ \A q \in Client : /\ pc'[q] = pc[q] /\ flow'[q] = flow[q]
                                  /\ job'[q] = job[q]
  BY <1>2 DEF SweepNext, Begin
<1>3. CASE Restoring
  <2>1. CASE RestoreList \/ RestoreRoute \/ RestoreDone
    BY <1>3, <2>1 DEF RestoreList, RestoreRoute, RestoreDone
  <2>2. ASSUME NEW l \in LeaseId, RestoreSlot(l)
        PROVE  /\ routes \subseteq routes'
               /\ \A q \in Worker : /\ pc'[q] = pc[q] /\ flow'[q] = flow[q]
                                    /\ job'[q] = job[q]
    BY <2>2 DEF RestoreSlot
  <2>. QED
    BY <1>3, <2>1, <2>2 DEF Restoring
<1>4. ASSUME NEW a \in Attempt, Deadline(a) \/ SlotLapses(a)
      PROVE  UNCHANGED <<routes, restoreList, proc>>
  BY <1>4 DEF Deadline, SlotLapses
<1>. QED
  BY <1>1, <1>2, <1>3, <1>4 DEF Sweeping

LEMMA ServedBackgroundStep ==
  ASSUME "restore" \notin Faults, ServedInv, Sweeping \/ Restoring \/ Environment
  PROVE  ServedInv'
<1> USE DEF ServedInv
<1>1. HoldInv' /\ UNCHANGED facts /\ due \subseteq due'
  BY HoldBackgroundStep, BackgroundStep, BackgroundEffects DEF HoldInv, LifeInv
<1>2. CASE Crash
  <2>1. pc'[Restorer] = "list" /\ \A q \in Worker : pc'[q] = "idle"
    BY <1>2 DEF Crash
  <2>. QED
    BY <1>1, <2>1 DEF RouteServed, RestorePending, ServeInv, Retire
<1>3. CASE Sweeping \/ Restoring \/ \E a \in Attempt : Deadline(a) \/ SlotLapses(a)
  <2>1. ASSUME NEW q \in Worker PROVE ServeInv(q)'
    BY <1>1, <1>3, BackgroundHands DEF ServeInv, Retire, HoldInv, LifeInv
  <2>2. ASSUME NEW a \in Attempt, Current(a)', ~InRetire(a)'
        PROVE  SessionOf[a] \in routes' \/ RestorePending(a)'
    <3>1. Current(a)
      BY <1>1, <2>2 DEF Current
    <3>2. ~InRetire(a)
      BY <1>3, <2>2, BackgroundHands DEF InRetire, Retire, HoldInv, LifeInv
    <3>3. SessionOf[a] \in routes \/ RestorePending(a)
      BY <3>1, <3>2 DEF RouteServed
    <3>4. ~Restoring /\ RestorePending(a) => RestorePending(a)'
      BY <1>3, BackgroundHands DEF RestorePending, HoldInv, LifeInv
    <3>. QED
      BY <1>3, <3>1, <3>3, <3>4, RestoreServes, BackgroundHands DEF HoldInv, LifeInv
  <2>. QED
    BY <1>1, <2>1, <2>2 DEF RouteServed
<1>. QED
  BY <1>2, <1>3 DEF Environment

\* What an acquire reuses is a working lease: a current lease that reads active
\* is served and holds its slot unless an operation has it in hand or restore
\* is not over, through any number of restarts. Left out are two attempts for
\* one session, where the failure of one takes the route of the other down,
\* and the faults of ServeFaults: a retire that deleted the route and is told
\* that its save failed leaves the record active, and so do the SlotFaults.
THEOREM ActiveLeaseIsServed ==
  ASSUME Canonical, Drawn, ServeFaults \cap Faults = {}
  PROVE  Spec => []ActiveIsServed
<1>1. ServedInv /\ [Next]_vars => ServedInv'
  <2>1. ASSUME ServedInv, UNCHANGED vars PROVE ServedInv'
    <3>1. HoldInv'
      BY <2>1, HoldStep DEF ServedInv, ServeFaults, SlotFaults
    <3>. QED
      BY <2>1, <3>1 DEF ServedInv, RouteServed, ServeInv, Current, InRetire,
         RestorePending, vars, plane, proc, batch
  <2>. QED
    BY <2>1, ServedWorkerStep, ServedBackgroundStep DEF Next, Step, ServeFaults, SlotFaults
<1>2. ServedInv => ActiveIsServed
  <2>. SUFFICES ASSUME ServedInv, NEW a \in Attempt, Current(a), pc[Restorer] = "idle",
                       ~InHand(SessionOf[a], Retire)
                PROVE  SessionOf[a] \in routes /\ a \in slots
    BY DEF ActiveIsServed
  <2>1. ~InRetire(a)
    <3>1. Own(a) # NoLease /\ Key(Own(a)) = SessionOf[a]
      BY IdTypes DEF Own, Key
    <3>. QED
      BY <3>1 DEF InRetire, InHand
  <2>. QED
    BY <2>1 DEF ServedInv, HoldInv, SlotKept, RouteServed, RestorePending
<1>. QED
  BY <1>1, <1>2, ServedInit, PTL DEF Spec

=============================================================================
