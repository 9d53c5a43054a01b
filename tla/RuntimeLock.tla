---------------------------- MODULE RuntimeLock ----------------------------
(***************************************************************************)
(* One Redis lock of lease_runtime_locks.go as several instances of the    *)
(* service use it: a key with a time to live, a goroutine that renews it   *)
(* while the protected function runs, and an unlock that deletes the key   *)
(* only when it still holds the caller's value.                            *)
(*                                                                         *)
(* LeaseLifecycle takes its locks to exclude each other; here is what is   *)
(* left of that when the renewal is late. The redsync library is modelled  *)
(* from how it is used: lock sets the key if absent, extend and unlock     *)
(* compare its value first.                                                *)
(***************************************************************************)
EXTENDS Naturals

CONSTANTS
  Caller,       \* calls of withLock on one key
  Nobody,
  LockTTL       \* the time to live, in steps of the clock

ASSUME LockAssumption == Nobody \notin Caller /\ LockTTL \in Nat \ {0}

VARIABLES
  key,       \* whose value the key holds, or Nobody
  left,      \* time until the key expires
  at,        \* at[c]: idle, running (the function), stopping, deleting, ended
  renewer,   \* renewer[c]: the goroutine runs
  lost,      \* lost[c]: the goroutine found the lock lost
  fnOK,      \* fnOK[c]: the function returned no error
  result,    \* result[c]: what withLock returned, "none" before that
  met        \* HISTORY: met[c] = the calls whose functions ran beside that of c

lockVars == <<key, left, at, renewer, lost, fnOK, result, met>>

LockTypeOK ==
  /\ key \in Caller \cup {Nobody} /\ left \in 0..LockTTL
  /\ at \in [Caller -> {"idle", "running", "stopping", "deleting", "ended"}]
  /\ renewer \in [Caller -> BOOLEAN] /\ lost \in [Caller -> BOOLEAN]
  /\ fnOK \in [Caller -> BOOLEAN]
  /\ result \in [Caller -> {"none", "ok", "error"}]
  /\ met \in [Caller -> SUBSET Caller]

LockInit ==
  /\ key = Nobody /\ left = 0
  /\ at = [c \in Caller |-> "idle"]
  /\ renewer = [c \in Caller |-> FALSE] /\ lost = [c \in Caller |-> FALSE]
  /\ fnOK = [c \in Caller |-> FALSE]
  /\ result = [c \in Caller |-> "none"]
  /\ met = [c \in Caller |-> {}]

-----------------------------------------------------------------------------
\* lock: the key is set if it is absent, and the goroutine is started.
Lock(c) ==
  LET beside == {d \in Caller : at[d] = "running"} IN
  /\ at[c] = "idle" /\ key = Nobody
  /\ key' = c /\ left' = LockTTL
  /\ at' = [at EXCEPT ![c] = "running"]
  /\ renewer' = [renewer EXCEPT ![c] = TRUE]
  /\ lost' = [lost EXCEPT ![c] = FALSE]
  /\ met' = [d \in Caller |-> IF d = c THEN beside
                              ELSE IF d \in beside THEN met[d] \cup {c} ELSE met[d]]
  /\ UNCHANGED <<fnOK, result>>

\* The tick of the goroutine: the key is still the caller's and is extended.
Extend(c) ==
  /\ renewer[c] /\ key = c /\ left' = LockTTL
  /\ UNCHANGED <<key, at, renewer, lost, fnOK, result, met>>

\* The key is not the caller's any more, or Redis does not answer, in time or
\* at all: the goroutine marks the lock lost, cancels the context of the
\* function and ends. An answer that was lost may have extended the key.
ExtendFails(c) ==
  /\ renewer[c]
  /\ left' \in IF key = c THEN {left, LockTTL} ELSE {left}
  /\ renewer' = [renewer EXCEPT ![c] = FALSE]
  /\ lost' = [lost EXCEPT ![c] = TRUE]
  /\ UNCHANGED <<key, at, fnOK, result, met>>

\* The function returns. Nothing stops it from finishing what it was doing
\* after its context is cancelled, and it may fail at any time.
Return(c) ==
  /\ at[c] = "running"
  /\ \E ok \in BOOLEAN : fnOK' = [fnOK EXCEPT ![c] = ok]
  /\ at' = [at EXCEPT ![c] = "stopping"]
  /\ UNCHANGED <<key, left, renewer, lost, result, met>>

\* Unlock cancels the goroutine and waits for it. A failure it meets once it
\* is cancelled marks nothing.
StopRenewer(c) ==
  /\ at[c] = "stopping"
  /\ renewer' = [renewer EXCEPT ![c] = FALSE]
  /\ at' = [at EXCEPT ![c] = "deleting"]
  /\ UNCHANGED <<key, left, lost, fnOK, result, met>>

\* The delete script compares the value: an expired key and a key of somebody
\* else are errors.
DeletedBlindly(c) == TRUE
Deleted(c) == key = c

\* The delete took place, or it did not or its answer was lost. The error of
\* the function comes first, then the lost lock, then the unlock.
Unlock(c) ==
  /\ at[c] = "deleting"
  /\ \E answered \in BOOLEAN :
       /\ result' = [result EXCEPT ![c] =
            IF fnOK[c] /\ ~lost[c] /\ answered /\ Deleted(c) THEN "ok" ELSE "error"]
       /\ \/ key = c /\ key' = Nobody /\ left' = 0
          \/ (key # c \/ ~answered) /\ UNCHANGED <<key, left>>
  /\ at' = [at EXCEPT ![c] = "ended"]
  /\ UNCHANGED <<renewer, lost, fnOK, met>>

\* Another call takes the place of one that ended.
CallAgain(c) ==
  /\ at[c] = "ended"
  /\ at' = [at EXCEPT ![c] = "idle"]
  /\ result' = [result EXCEPT ![c] = "none"]
  /\ fnOK' = [fnOK EXCEPT ![c] = FALSE]
  /\ met' = [d \in Caller |-> IF d = c THEN {} ELSE met[d] \ {c}]
  /\ UNCHANGED <<key, left, renewer, lost>>

\* The instance of the service dies and leaves its key behind.
Die(c) ==
  /\ at[c] \in {"running", "stopping", "deleting"}
  /\ at' = [at EXCEPT ![c] = "ended"]
  /\ renewer' = [renewer EXCEPT ![c] = FALSE]
  /\ result' = [result EXCEPT ![c] = "error"]
  /\ UNCHANGED <<key, left, lost, fnOK, met>>

\* Time passes; Redis drops the key when its time is over.
Elapse ==
  /\ left > 0 /\ left' = left - 1
  /\ key' = IF left' = 0 THEN Nobody ELSE key
  /\ UNCHANGED <<at, renewer, lost, fnOK, result, met>>

LockNext ==
  \/ \E c \in Caller : Lock(c) \/ Extend(c) \/ ExtendFails(c) \/ Return(c)
                       \/ StopRenewer(c) \/ Unlock(c) \/ CallAgain(c) \/ Die(c)
  \/ Elapse

LockSpec == LockInit /\ [][LockNext]_lockVars

-----------------------------------------------------------------------------
(* Properties.                                                            *)

\* A late renewal lets two functions run at once, but never do both calls
\* report success: the one whose key expired is told at its unlock
\* (lease_runtime_locks.go:118 and :185).
OverlapIsReported ==
  \A c, d \in Caller :
    c # d /\ d \in met[c] => ~(result[c] = "ok" /\ result[d] = "ok")
=============================================================================
