-------------------------- MODULE MCLeaseLifecycle --------------------------
(* Small instances of LeaseLifecycle: one account, one provider account;    *)
(* every attempt draws a session of its own, or all of them are made for    *)
(* the one session the requests name.                                       *)
EXTENDS LeaseLifecycle, TLC

CONSTANTS c1, u1, v1, a1, a2, h1, h2, s1

OneAccountOf  == [a \in Attempt |-> c1]
OneProviderOf == [a \in Attempt |-> v1]
IdOf          == [k \in LockKey |-> c1]
AccountKey    == [p \in Client |-> c1]

\* Drawn sessions: the id of the attempt stands for the id of its session.
DrawnOf    == [a \in Attempt |-> a]
AskForNone == [p \in Client |-> NoSession]

\* One session that every request names.
NamedOf   == [a \in Attempt |-> s1]
AskForOne == [p \in Client |-> s1]

Symmetry       == Permutations(Client) \cup Permutations(Attempt)
ClientSymmetry == Permutations(Client)
=============================================================================
