------------------------------ MODULE SlotPool ------------------------------
(***************************************************************************)
(* What a provider account's concurrency limit promises, whatever keeps    *)
(* it: a set of holders for each key that grows only while there is room.  *)
(* A slot may be given back and may lapse at any time.                     *)
(*                                                                         *)
(* ConcurrencyLimiter implements this pool with one Redis sorted set per   *)
(* key; the operations of LeaseLifecycle use it as their slots.            *)
(***************************************************************************)
EXTENDS Naturals, FiniteSets

CONSTANTS Key, Holder, MaxLimit

VARIABLE held    \* held[k] = the holders that count against the limit of k

PoolInit == held = [k \in Key |-> {}]

\* A holder that has a slot keeps it whatever the limit is now.
Take(k, h, limit) ==
  /\ h \in held[k] \/ Cardinality(held[k]) < limit
  /\ held' = [held EXCEPT ![k] = @ \cup {h}]

\* Released by their holders, or their time is over.
Leave ==
  /\ held' \in [Key -> SUBSET Holder]
  /\ \A k \in Key : held'[k] \subseteq held[k]

PoolNext ==
  \/ Leave
  \/ \E k \in Key, h \in Holder, limit \in 1..MaxLimit : Take(k, h, limit)

PoolSpec == PoolInit /\ [][PoolNext]_held

-----------------------------------------------------------------------------
\* No key has more holders than the largest limit anybody asked for.
WithinLimit == \A k \in Key : Cardinality(held[k]) <= MaxLimit
=============================================================================
