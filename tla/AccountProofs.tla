----------------------------- MODULE AccountProofs -----------------------------
(* What provider accounts are counted, locked and stored by.                *)
(*                                                                         *)
(* The limiter implements the abstract pool of slots, for any number of     *)
(* accounts and holders, any limits and any times to live; so no more       *)
(* holders are alive than the largest limit asked for; and why a holder may *)
(* lose its slot early.                                                     *)
(*                                                                         *)
(* Of two calls whose functions ran at once under one lock, one reports an  *)
(* error: for any number of callers and any time to live.                   *)
(*                                                                         *)
(* A lease in service has its account, and the credential it was acquired   *)
(* with: for any number of accounts, leases and concurrent updates, at any  *)
(* interleaving with deletions and restarts.                                *)
EXTENDS ConcurrencyLimiter, RuntimeLock, ProviderAccounts, FiniteSetTheorems, TLAPS

USE LimiterAssumption, LockAssumption DEF LimiterAssumption, LockAssumption

-----------------------------------------------------------------------------
(* Types.                                                                 *)

LEMMA ModeType == ASSUME NEW a \in Account, NEW p \in AskedPolicy
                  PROVE  <<a, ModeOf(p)>> \in SlotKey
BY DEF SlotKey, ModeOf

LEMMA TTLType == ASSUME NEW ttl \in AskedTTL PROVE EffectiveTTL(ttl) \in Nat \ {0}
BY DEF EffectiveTTL

LEMMA PrunedType ==
  ASSUME LimiterTypeOK, NEW k \in SlotKey
  PROVE  /\ Pruned(score[k]) \in [Holder -> Nat]
         /\ \A h \in Holder : Pruned(score[k])[h] # 0 <=> h \in Live(k)
         /\ \A h \in Live(k) : Pruned(score[k])[h] = score[k][h]
BY DEF LimiterTypeOK, Pruned, Live

\* What a step is: one of the three scripts on a key, or the passing of time.
LEMMA StepCases ==
  ASSUME LimiterNext
  PROVE  \/ \E k \in SlotKey, h \in Holder, limit \in 1..LimiterLimit, ttl \in AskedTTL :
              AcquireSlot(k, h, limit, ttl)
         \/ \E k \in SlotKey : ProbeSlots(k)
         \/ \E k \in SlotKey, h \in Holder : ReleaseSlot(k, h)
         \/ PassTime
BY ModeType DEF LimiterNext

LEMMA TypeInit == LimiterInit => LimiterTypeOK
BY DEF LimiterInit, LimiterTypeOK, NoMember

LEMMA TypeStep == LimiterTypeOK /\ [LimiterNext]_limiterVars => LimiterTypeOK'
<1>. SUFFICES ASSUME LimiterTypeOK, [LimiterNext]_limiterVars PROVE LimiterTypeOK'
  OBVIOUS
<1>1. ASSUME NEW k \in SlotKey, NEW h \in Holder, NEW limit \in 1..LimiterLimit,
             NEW ttl \in AskedTTL, AcquireSlot(k, h, limit, ttl)
      PROVE LimiterTypeOK'
  <2>. DEFINE members == Pruned(score[k])
              end  == clock + EffectiveTTL(ttl)
  <2>1. members \in [Holder -> Nat] /\ end \in Nat
    BY PrunedType, TTLType DEF LimiterTypeOK
  <2>2. CASE members[h] # 0 \/ HasRoom(members, limit)
    <3>1. /\ score' = [score EXCEPT ![k] = [members EXCEPT ![h] = end]]
          /\ keyEnd' = [keyEnd EXCEPT ![k] = end]
          /\ promised' = [promised EXCEPT ![k][h] = end]
          /\ curtailed' = [curtailed EXCEPT ![k] =
               (@ \cup {g \in Holder : promised[k][g] > end}) \ {h}]
          /\ clock' = clock
      BY <1>1, <2>2 DEF AcquireSlot, KeyEndGranted
    <3>2. score' \in [SlotKey -> [Holder -> Nat]]
      BY <2>1, <3>1 DEF LimiterTypeOK
    <3>3. keyEnd' \in [SlotKey -> Nat] /\ promised' \in [SlotKey -> [Holder -> Nat]]
      BY <2>1, <3>1 DEF LimiterTypeOK
    <3>4. curtailed' \in [SlotKey -> SUBSET Holder] /\ clock' \in Nat
      BY <3>1 DEF LimiterTypeOK
    <3>. QED
      BY <3>2, <3>3, <3>4 DEF LimiterTypeOK
  <2>3. CASE ~(members[h] # 0 \/ HasRoom(members, limit))
    BY <1>1, <2>1, <2>3 DEF AcquireSlot, LimiterTypeOK, KeyEndOf
  <2>. QED
    BY <2>2, <2>3
<1>2. ASSUME NEW k \in SlotKey, ProbeSlots(k) PROVE LimiterTypeOK'
  BY <1>2, PrunedType DEF ProbeSlots, LimiterTypeOK, KeyEndOf
<1>3. ASSUME NEW k \in SlotKey, NEW h \in Holder, ReleaseSlot(k, h) PROVE LimiterTypeOK'
  BY <1>3 DEF ReleaseSlot, LimiterTypeOK, KeyEndOf
<1>4. PassTime => LimiterTypeOK'
  BY DEF PassTime, LimiterTypeOK, NoMember
<1>5. CASE UNCHANGED limiterVars
  BY <1>5 DEF limiterVars, LimiterTypeOK
<1>. QED
  BY <1>1, <1>2, <1>3, <1>4, <1>5, StepCases

\* The state of the limiter is of its type in every reachable state.
THEOREM LimiterTypeCorrect == LimiterSpec => []LimiterTypeOK
BY TypeInit, TypeStep, PTL DEF LimiterSpec

-----------------------------------------------------------------------------
(* What each step does to the holders that count.                          *)

LEMMA LiveFinite ==
  ASSUME NEW k \in SlotKey
  PROVE  Live(k) \in SUBSET Holder /\ IsFiniteSet(Live(k))
BY FS_Subset DEF Live

\* Pruning takes away only holders that do not count.
LEMMA CountIsLive ==
  ASSUME LimiterTypeOK, NEW k \in SlotKey
  PROVE  Count(Pruned(score[k])) = Cardinality(Live(k))
BY PrunedType DEF Count, Live

LEMMA AcquireLive ==
  ASSUME LimiterTypeOK, NEW k \in SlotKey, NEW h \in Holder, NEW limit \in 1..LimiterLimit,
         NEW ttl \in AskedTTL, AcquireSlot(k, h, limit, ttl)
  PROVE  /\ \A j \in SlotKey \ {k} : Live(j)' = Live(j)
         /\ \/ Live(k)' = Live(k)
            \/ /\ Live(k)' = Live(k) \cup {h}
               /\ h \in Live(k) \/ Cardinality(Live(k)) < limit
<1>. DEFINE members == Pruned(score[k])
            end  == clock + EffectiveTTL(ttl)
<1>1. members \in [Holder -> Nat] /\ end \in Nat /\ end > clock /\ clock' = clock
  BY PrunedType, TTLType DEF AcquireSlot, LimiterTypeOK
<1>2. CASE members[h] # 0 \/ HasRoom(members, limit)
  <2>1. score' = [score EXCEPT ![k] = [members EXCEPT ![h] = end]]
    BY <1>2 DEF AcquireSlot
  <2>2. \A g \in Holder : score'[k][g] = IF g = h THEN end ELSE members[g]
    BY <1>1, <2>1 DEF LimiterTypeOK
  <2>3. \A g \in Holder : members[g] > clock <=> g \in Live(k)
    BY DEF Pruned, Live, LimiterTypeOK
  <2>4. Live(k)' = Live(k) \cup {h}
    BY <1>1, <2>2, <2>3 DEF Live
  <2>5. \A j \in SlotKey \ {k} : Live(j)' = Live(j)
    BY <1>1, <2>1 DEF Live, LimiterTypeOK
  <2>6. h \in Live(k) \/ Cardinality(Live(k)) < limit
    BY <1>2, CountIsLive, PrunedType DEF HasRoom
  <2>. QED
    BY <2>4, <2>5, <2>6
<1>3. CASE ~(members[h] # 0 \/ HasRoom(members, limit))
  <2>1. score' = [score EXCEPT ![k] = members]
    BY <1>3 DEF AcquireSlot
  <2>. QED
    BY <1>1, <2>1 DEF Pruned, Live, LimiterTypeOK
<1>. QED
  BY <1>2, <1>3

LEMMA ProbeLive ==
  ASSUME LimiterTypeOK, NEW k \in SlotKey, ProbeSlots(k)
  PROVE  \A j \in SlotKey : Live(j)' = Live(j)
BY DEF ProbeSlots, Pruned, Live, LimiterTypeOK

LEMMA ReleaseLive ==
  ASSUME LimiterTypeOK, NEW k \in SlotKey, NEW h \in Holder, ReleaseSlot(k, h)
  PROVE  \A j \in SlotKey : Live(j)' \subseteq Live(j)
BY DEF ReleaseSlot, Live, LimiterTypeOK

LEMMA TimeLive ==
  ASSUME LimiterTypeOK, PassTime
  PROVE  \A j \in SlotKey : Live(j)' \subseteq Live(j)
BY DEF PassTime, Live, NoMember, LimiterTypeOK

-----------------------------------------------------------------------------
(* The pool.                                                              *)

\* The pool counts as the limiter does.
LEMMA SameCount == ASSUME NEW S PROVE Pool!Cardinality(S) = Cardinality(S)
BY DEF Pool!Cardinality, Cardinality

LEMMA PoolStart == LimiterInit => Pool!PoolInit
BY DEF LimiterInit, Pool!PoolInit, Live, NoMember

LEMMA FewerIsLeave ==
  ASSUME \A j \in SlotKey : Live(j)' \subseteq Live(j)
  PROVE  Pool!Leave
BY DEF Pool!Leave, Live

LEMMA PoolStep ==
  ASSUME LimiterTypeOK, [LimiterNext]_limiterVars
  PROVE  [Pool!PoolNext]_([k \in SlotKey |-> Live(k)])
<1>1. ASSUME NEW k \in SlotKey, NEW h \in Holder, NEW limit \in 1..LimiterLimit,
             NEW ttl \in AskedTTL, AcquireSlot(k, h, limit, ttl)
      PROVE Pool!PoolNext
  <2>1. CASE Live(k)' = Live(k)
    BY <1>1, <2>1, AcquireLive, FewerIsLeave DEF Pool!PoolNext
  <2>2. CASE /\ Live(k)' = Live(k) \cup {h}
             /\ h \in Live(k) \/ Cardinality(Live(k)) < limit
    <3>1. Pool!Take(k, h, limit)
      BY <1>1, <2>2, AcquireLive, SameCount DEF Pool!Take, Live
    <3>. QED
      BY <3>1 DEF Pool!PoolNext
  <2>. QED
    BY <1>1, <2>1, <2>2, AcquireLive
<1>2. ASSUME NEW k \in SlotKey, ProbeSlots(k) PROVE Pool!PoolNext
  BY <1>2, ProbeLive, FewerIsLeave DEF Pool!PoolNext
<1>3. ASSUME NEW k \in SlotKey, NEW h \in Holder, ReleaseSlot(k, h) PROVE Pool!PoolNext
  BY <1>3, ReleaseLive, FewerIsLeave DEF Pool!PoolNext
<1>4. CASE PassTime
  BY <1>4, TimeLive, FewerIsLeave DEF Pool!PoolNext
<1>5. CASE UNCHANGED limiterVars
  BY <1>5 DEF limiterVars, Live
<1>. QED
  BY <1>1, <1>2, <1>3, <1>4, <1>5, StepCases

\* The limiter is a slot pool: a slot is granted only while fewer holders
\* are alive than the call's limit.
THEOREM LimiterImplementsPool == LimiterSpec => LimiterIsPool
<1>1. LimiterInit => Pool!PoolInit
  BY PoolStart
<1>2. LimiterTypeOK /\ [LimiterNext]_limiterVars
        => [Pool!PoolNext]_([k \in SlotKey |-> Live(k)])
  BY PoolStep
<1>. QED
  BY <1>1, <1>2, LimiterTypeCorrect, PTL DEF LimiterSpec, LimiterIsPool, Pool!PoolSpec

-----------------------------------------------------------------------------
(* The limit.                                                             *)

LEMMA LimitIs ==
  Pool!WithinLimit <=> \A k \in SlotKey : Cardinality(Live(k)) <= LimiterLimit
BY SameCount DEF Pool!WithinLimit

LEMMA LimitStep ==
  LimiterTypeOK /\ Pool!WithinLimit /\ [LimiterNext]_limiterVars => Pool!WithinLimit'
<1>. SUFFICES ASSUME LimiterTypeOK, Pool!WithinLimit, [LimiterNext]_limiterVars,
                     NEW j \in SlotKey
              PROVE  Cardinality(Live(j)') <= LimiterLimit
  <2>1. Pool!WithinLimit' <=> \A k \in SlotKey : Cardinality(Live(k)') <= LimiterLimit
    BY SameCount DEF Pool!WithinLimit
  <2>. QED
    BY <2>1
<1>0. Cardinality(Live(j)) \in Nat /\ Cardinality(Live(j)) <= LimiterLimit
  BY LimitIs, LiveFinite, FS_CardinalityType
<1>1. ASSUME Live(j)' \subseteq Live(j) PROVE Cardinality(Live(j)') <= LimiterLimit
  <2>1. Cardinality(Live(j)') <= Cardinality(Live(j)) /\ IsFiniteSet(Live(j)')
    BY <1>1, LiveFinite, FS_Subset
  <2>. QED
    BY <1>0, <2>1, FS_CardinalityType
<1>2. ASSUME NEW k \in SlotKey, NEW h \in Holder, NEW limit \in 1..LimiterLimit,
             NEW ttl \in AskedTTL, AcquireSlot(k, h, limit, ttl)
      PROVE Cardinality(Live(j)') <= LimiterLimit
  <2>1. CASE Live(j)' = Live(j)
    BY <1>1, <2>1
  <2>2. CASE Live(j)' = Live(j) \cup {h} /\ (h \in Live(j) \/ Cardinality(Live(j)) < limit)
    <3>1. /\ IsFiniteSet(Live(j)) /\ LimiterLimit \in Nat /\ limit <= LimiterLimit
          /\ limit \in Nat
      BY LiveFinite
    <3>2. Cardinality(Live(j)') =
            IF h \in Live(j) THEN Cardinality(Live(j)) ELSE Cardinality(Live(j)) + 1
      BY <2>2, <3>1, FS_AddElement
    <3>. QED
      BY <1>0, <2>2, <3>1, <3>2
  <2>. QED
    BY <1>2, <2>1, <2>2, AcquireLive
<1>3. CASE \E k \in SlotKey : ProbeSlots(k)
  BY <1>1, <1>3, ProbeLive
<1>4. CASE \E k \in SlotKey, h \in Holder : ReleaseSlot(k, h)
  BY <1>1, <1>4, ReleaseLive
<1>5. CASE PassTime
  BY <1>1, <1>5, TimeLive
<1>6. CASE UNCHANGED limiterVars
  BY <1>1, <1>6 DEF limiterVars, Live
<1>. QED
  BY <1>2, <1>3, <1>4, <1>5, <1>6, StepCases

\* No account ever has more holders alive than the largest limit that a call
\* came with, whatever the settings made of the limit meanwhile.
THEOREM NeverOverLimit == LimiterSpec => []Pool!WithinLimit
<1>1. LimiterInit => Pool!WithinLimit
  <2>1. LimiterInit => \A k \in SlotKey : Live(k) = {}
    BY DEF LimiterInit, Live, NoMember
  <2>. QED
    BY <2>1, LimitIs, FS_EmptySet
<1>. QED
  BY <1>1, LimitStep, LimiterTypeCorrect, PTL DEF LimiterSpec

-----------------------------------------------------------------------------
(* Slots lost early. A holder that nobody was granted an earlier end after  *)
(* is still a member with its end, and the key lives as long as that.       *)

Uncurtailed(k, h) == promised[k][h] > clock /\ h \notin curtailed[k]

KeptInv ==
  \A k \in SlotKey, h \in Holder : Uncurtailed(k, h) =>
    score[k][h] = promised[k][h] /\ promised[k][h] <= keyEnd[k]

LEMMA KeptOfOthers ==
  ASSUME KeptInv, NEW j \in SlotKey, NEW g \in Holder, Uncurtailed(j, g)',
         clock' = clock, score'[j] = score[j], keyEnd'[j] = keyEnd[j],
         promised'[j] = promised[j], curtailed'[j] = curtailed[j]
  PROVE  score'[j][g] = promised'[j][g] /\ promised'[j][g] <= keyEnd'[j]
BY DEF KeptInv, Uncurtailed

LEMMA KeptStep ==
  LimiterTypeOK /\ KeptInv /\ [LimiterNext]_limiterVars => KeptInv'
<1>. SUFFICES ASSUME LimiterTypeOK, KeptInv, [LimiterNext]_limiterVars,
                     NEW j \in SlotKey, NEW g \in Holder, Uncurtailed(j, g)'
              PROVE  score'[j][g] = promised'[j][g] /\ promised'[j][g] <= keyEnd'[j]
  BY DEF KeptInv
<1>. DEFINE Goal == score'[j][g] = promised'[j][g] /\ promised'[j][g] <= keyEnd'[j]
<1>1. ASSUME NEW k \in SlotKey, NEW h \in Holder, NEW limit \in 1..LimiterLimit,
             NEW ttl \in AskedTTL, AcquireSlot(k, h, limit, ttl)
      PROVE Goal
  <2>. DEFINE members == Pruned(score[k])
              end  == clock + EffectiveTTL(ttl)
  <2>0. members \in [Holder -> Nat] /\ end \in Nat /\ clock' = clock
    BY <1>1, PrunedType, TTLType DEF AcquireSlot, LimiterTypeOK
  <2>1. CASE j # k
    BY <1>1, <2>0, <2>1, KeptOfOthers DEF AcquireSlot, LimiterTypeOK
  <2>2. CASE j = k /\ (members[h] # 0 \/ HasRoom(members, limit))
    <3>1. /\ score' = [score EXCEPT ![k] = [members EXCEPT ![h] = end]]
          /\ keyEnd' = [keyEnd EXCEPT ![k] = end]
          /\ promised' = [promised EXCEPT ![k][h] = end]
          /\ curtailed' = [curtailed EXCEPT ![k] =
               (@ \cup {f \in Holder : promised[k][f] > end}) \ {h}]
      BY <1>1, <2>2 DEF AcquireSlot, KeyEndGranted
    <3>2. CASE g = h
      BY <2>0, <2>2, <3>1, <3>2 DEF LimiterTypeOK
    <3>3. CASE g # h
      <4>1. promised'[j][g] = promised[k][g] /\ score'[j][g] = members[g] /\ keyEnd'[j] = end
        BY <2>0, <2>2, <3>1, <3>3 DEF LimiterTypeOK
      <4>2. promised[k][g] > clock /\ g \notin curtailed[k] /\ ~(promised[k][g] > end)
        BY <2>0, <2>2, <3>1, <3>3, <4>1 DEF Uncurtailed, LimiterTypeOK
      <4>3. score[k][g] = promised[k][g]
        BY <4>2 DEF KeptInv, Uncurtailed
      <4>4. members[g] = score[k][g]
        BY <4>2, <4>3 DEF Pruned, LimiterTypeOK
      <4>. QED
        BY <2>0, <4>1, <4>2, <4>3, <4>4 DEF LimiterTypeOK
    <3>. QED
      BY <3>2, <3>3
  <2>3. CASE j = k /\ ~(members[h] # 0 \/ HasRoom(members, limit))
    <3>1. /\ score' = [score EXCEPT ![k] = members]
          /\ keyEnd' = [keyEnd EXCEPT ![k] = KeyEndOf(members, @)]
          /\ UNCHANGED <<clock, promised, curtailed>>
      BY <1>1, <2>3 DEF AcquireSlot
    <3>2. promised[k][g] > clock /\ score[k][g] = promised[k][g]
            /\ promised[k][g] <= keyEnd[k]
      BY <2>3, <3>1 DEF KeptInv, Uncurtailed
    <3>3. members[g] = score[k][g] /\ members[g] # 0
      BY <3>2 DEF Pruned, LimiterTypeOK
    <3>4. members # NoMember
      BY <3>3 DEF NoMember
    <3>. QED
      BY <2>0, <2>3, <3>1, <3>2, <3>3, <3>4 DEF KeyEndOf, LimiterTypeOK
  <2>. QED
    BY <2>1, <2>2, <2>3
<1>2. ASSUME NEW k \in SlotKey, ProbeSlots(k) PROVE Goal
  <2>1. CASE j # k
    BY <1>2, <2>1, KeptOfOthers DEF ProbeSlots, LimiterTypeOK
  <2>2. CASE j = k
    <3>1. promised[k][g] > clock /\ score[k][g] = promised[k][g]
            /\ promised[k][g] <= keyEnd[k]
      BY <1>2, <2>2 DEF ProbeSlots, KeptInv, Uncurtailed
    <3>2. Pruned(score[k])[g] = score[k][g] /\ Pruned(score[k])[g] # 0
      BY <3>1 DEF Pruned, LimiterTypeOK
    <3>3. Pruned(score[k]) # NoMember
      BY <3>2 DEF NoMember
    <3>. QED
      BY <1>2, <2>2, <3>1, <3>2, <3>3 DEF ProbeSlots, KeyEndOf, LimiterTypeOK
  <2>. QED
    BY <2>1, <2>2
<1>3. ASSUME NEW k \in SlotKey, NEW h \in Holder, ReleaseSlot(k, h) PROVE Goal
  <2>1. CASE j # k
    BY <1>3, <2>1, KeptOfOthers DEF ReleaseSlot, LimiterTypeOK
  <2>2. CASE j = k
    <3>. DEFINE members == [score[k] EXCEPT ![h] = 0]
    <3>1. /\ g # h /\ promised'[j][g] = promised[k][g] /\ promised[k][g] > clock
          /\ g \notin curtailed[k] /\ clock' = clock
      BY <1>3, <2>2 DEF ReleaseSlot, Uncurtailed, LimiterTypeOK
    <3>2. score[k][g] = promised[k][g] /\ promised[k][g] <= keyEnd[k]
      BY <3>1 DEF KeptInv, Uncurtailed
    <3>3. members[g] = score[k][g] /\ members # NoMember
      BY <3>1, <3>2 DEF NoMember, LimiterTypeOK
    <3>. QED
      BY <1>3, <2>2, <3>1, <3>2, <3>3 DEF ReleaseSlot, KeyEndOf, LimiterTypeOK
  <2>. QED
    BY <2>1, <2>2
<1>4. CASE PassTime
  <2>1. promised[j][g] > clock /\ promised'[j][g] > clock' /\ promised' = promised
        /\ score[j][g] = promised[j][g] /\ promised[j][g] <= keyEnd[j]
    BY <1>4 DEF PassTime, KeptInv, Uncurtailed, LimiterTypeOK
  <2>2. keyEnd[j] > clock'
    BY <1>4, <2>1 DEF PassTime, LimiterTypeOK
  <2>. QED
    BY <1>4, <2>1, <2>2 DEF PassTime, LimiterTypeOK
<1>5. CASE UNCHANGED limiterVars
  BY <1>5, KeptOfOthers DEF limiterVars
<1>. QED
  BY <1>1, <1>2, <1>3, <1>4, <1>5, StepCases

\* A holder loses its slot before its end only if somebody was granted a slot
\* that ends earlier after it.
THEOREM EarlyLossExplained == LimiterSpec => []EarlyLossIsByKeyExpiry
<1>1. LimiterInit => KeptInv
  BY DEF LimiterInit, KeptInv, Uncurtailed, NoMember
<1>2. LimiterTypeOK /\ KeptInv => EarlyLossIsByKeyExpiry
  BY DEF KeptInv, Uncurtailed, EarlyLossIsByKeyExpiry, Live, LimiterTypeOK
<1>. QED
  BY <1>1, <1>2, KeptStep, LimiterTypeCorrect, PTL DEF LimiterSpec

-----------------------------------------------------------------------------
(* The lock. A call is good if it may still report success, or has done so: *)
(* its key is in place since its function began. One call's key means that  *)
(* no other function began since, and that those which had begun had lost   *)
(* theirs.                                                                  *)

Calling == {"running", "stopping", "deleting"}

\* What the argument needs of the types.
CallsInv ==
  /\ at \in [Caller -> {"idle", "ended"} \cup Calling]
  /\ result \in [Caller -> {"none", "ok", "error"}]
  /\ met \in [Caller -> SUBSET Caller]

MaySucceed(c) == (at[c] \in Calling /\ key = c) \/ result[c] = "ok"

\* A result belongs to a call that has ended, and a call that has not begun
\* met nobody.
ResultInv == \A c \in Caller : at[c] # "ended" => result[c] = "none"
UnmetInv == \A c, d \in Caller : at[c] = "idle" => d \notin met[c] /\ c \notin met[d]
MetInv == \A c, d \in Caller : c # d /\ d \in met[c] => ~(MaySucceed(c) /\ MaySucceed(d))

LockInv == CallsInv /\ ResultInv /\ UnmetInv /\ MetInv

LEMMA LockStart == LockInit => LockInv
BY DEF LockInit, LockInv, CallsInv, ResultInv, UnmetInv, MetInv, Calling

\* A step that makes no call good and introduces nobody.
LEMMA QuietStep ==
  ASSUME LockInv, met' = met, \A c \in Caller : MaySucceed(c)' => MaySucceed(c)
  PROVE  MetInv'
BY DEF LockInv, MetInv

LEMMA LockStep == LockInv /\ [LockNext]_lockVars => LockInv'
<1>. SUFFICES ASSUME LockInv, [LockNext]_lockVars PROVE LockInv'
  OBVIOUS
<1>. USE DEF Calling
<1>1. ASSUME NEW c \in Caller, Lock(c) PROVE LockInv'
  <2>. DEFINE beside == {d \in Caller : at[d] = "running"}
  <2>1. /\ at[c] = "idle" /\ key = Nobody /\ key' = c /\ result' = result
        /\ at' = [at EXCEPT ![c] = "running"]
        /\ met' = [d \in Caller |-> IF d = c THEN beside
                                    ELSE IF d \in beside THEN met[d] \cup {c} ELSE met[d]]
    BY <1>1 DEF Lock
  <2>2. CallsInv' /\ ResultInv'
    BY <2>1 DEF LockInv, CallsInv, ResultInv
  <2>3. UnmetInv'
    BY <2>1 DEF LockInv, CallsInv, UnmetInv
  <2>4. ASSUME NEW d \in Caller, MaySucceed(d)', d # c PROVE result[d] = "ok" /\ at[d] = "ended"
    BY <2>1, <2>4 DEF MaySucceed, LockInv, CallsInv, ResultInv
  <2>5. ASSUME NEW d \in Caller, NEW e \in Caller, d # e, e \in met'[d],
               MaySucceed(d)', MaySucceed(e)'
        PROVE FALSE
    <3>1. CASE d = c
      BY <2>1, <2>4, <2>5, <3>1
    <3>2. CASE e = c
      <4>1. d \notin beside
        BY <2>4, <2>5, <3>2
      <4>2. c \in met[d]
        BY <2>1, <2>5, <3>2, <4>1
      <4>. QED
        BY <2>1, <4>2 DEF LockInv, UnmetInv
    <3>3. CASE d # c /\ e # c
      BY <2>1, <2>4, <2>5, <3>3 DEF MaySucceed, LockInv, MetInv
    <3>. QED
      BY <3>1, <3>2, <3>3
  <2>. QED
    BY <2>2, <2>3, <2>5 DEF LockInv, MetInv
<1>2. ASSUME NEW c \in Caller, Extend(c) \/ ExtendFails(c) PROVE LockInv'
  BY <1>2 DEF Extend, ExtendFails, LockInv, CallsInv, ResultInv, UnmetInv, MetInv, MaySucceed
<1>3. ASSUME NEW c \in Caller, Return(c) \/ StopRenewer(c) PROVE LockInv'
  <2>1. /\ at[c] \in Calling /\ \E s \in Calling : at' = [at EXCEPT ![c] = s]
        /\ key' = key /\ result' = result /\ met' = met
    BY <1>3 DEF Return, StopRenewer
  <2>2. CallsInv' /\ ResultInv' /\ UnmetInv'
    BY <2>1 DEF LockInv, CallsInv, ResultInv, UnmetInv
  <2>3. \A d \in Caller : MaySucceed(d)' => MaySucceed(d)
    BY <2>1 DEF MaySucceed, LockInv, CallsInv
  <2>. QED
    BY <2>1, <2>2, <2>3, QuietStep DEF LockInv
<1>4. ASSUME NEW c \in Caller, Unlock(c) PROVE LockInv'
  <2>1. /\ at[c] = "deleting" /\ at' = [at EXCEPT ![c] = "ended"] /\ met' = met
        /\ key' \in {key, Nobody}
        /\ \E r \in {"ok", "error"} : /\ result' = [result EXCEPT ![c] = r]
                                      /\ r = "ok" => key = c
    BY <1>4 DEF Unlock, Deleted
  <2>2. CallsInv' /\ ResultInv' /\ UnmetInv'
    BY <2>1 DEF LockInv, CallsInv, ResultInv, UnmetInv
  <2>3. \A d \in Caller : MaySucceed(d)' => MaySucceed(d)
    BY <2>1 DEF MaySucceed, LockInv, CallsInv
  <2>. QED
    BY <2>1, <2>2, <2>3, QuietStep DEF LockInv
<1>5. ASSUME NEW c \in Caller, CallAgain(c) PROVE LockInv'
  <2>1. /\ at[c] = "ended" /\ at' = [at EXCEPT ![c] = "idle"] /\ key' = key
        /\ result' = [result EXCEPT ![c] = "none"]
        /\ met' = [d \in Caller |-> IF d = c THEN {} ELSE met[d] \ {c}]
    BY <1>5 DEF CallAgain
  <2>2. CallsInv' /\ ResultInv'
    BY <2>1 DEF LockInv, CallsInv, ResultInv
  <2>3. UnmetInv'
    BY <2>1 DEF LockInv, CallsInv, UnmetInv
  <2>4. \A d \in Caller : MaySucceed(d)' => MaySucceed(d)
    BY <2>1 DEF MaySucceed, LockInv, CallsInv
  <2>5. \A d, e \in Caller : e \in met'[d] => e \in met[d]
    BY <2>1
  <2>. QED
    BY <2>2, <2>3, <2>4, <2>5 DEF LockInv, MetInv
<1>6. ASSUME NEW c \in Caller, Die(c) PROVE LockInv'
  <2>1. /\ at[c] \in Calling /\ at' = [at EXCEPT ![c] = "ended"] /\ key' = key
        /\ result' = [result EXCEPT ![c] = "error"] /\ met' = met
    BY <1>6 DEF Die
  <2>2. CallsInv' /\ ResultInv' /\ UnmetInv'
    BY <2>1 DEF LockInv, CallsInv, ResultInv, UnmetInv
  <2>3. \A d \in Caller : MaySucceed(d)' => MaySucceed(d)
    BY <2>1 DEF MaySucceed, LockInv, CallsInv
  <2>. QED
    BY <2>1, <2>2, <2>3, QuietStep DEF LockInv
<1>7. CASE Elapse \/ UNCHANGED lockVars
  <2>1. /\ key' \in {key, Nobody} /\ at' = at /\ result' = result /\ met' = met
    BY <1>7 DEF Elapse, lockVars
  <2>2. CallsInv' /\ ResultInv' /\ UnmetInv'
    BY <2>1 DEF LockInv, CallsInv, ResultInv, UnmetInv
  <2>3. \A d \in Caller : MaySucceed(d)' => MaySucceed(d)
    BY <2>1 DEF MaySucceed, LockInv, CallsInv
  <2>. QED
    BY <2>1, <2>2, <2>3, QuietStep DEF LockInv
<1>. QED
  BY <1>1, <1>2, <1>3, <1>4, <1>5, <1>6, <1>7 DEF LockNext

\* Two functions may run at once after a late renewal, but never do both calls
\* report success.
THEOREM OverlapNeverSilent == LockSpec => []OverlapIsReported
<1>1. LockInv => OverlapIsReported
  BY DEF LockInv, MetInv, MaySucceed, OverlapIsReported
<1>. QED
  BY <1>1, LockStart, LockStep, PTL DEF LockSpec

\* Types are kept by every step of a call and by the clock.
THEOREM LockTypeCorrect == LockSpec => []LockTypeOK
<1>1. LockInit => LockTypeOK
  BY LockAssumption DEF LockInit, LockTypeOK
<1>2. LockTypeOK /\ [LockNext]_lockVars => LockTypeOK'
  <2>. SUFFICES ASSUME LockTypeOK, [LockNext]_lockVars PROVE LockTypeOK'
    OBVIOUS
  <2>. USE LockAssumption DEF LockTypeOK
  <2>1. ASSUME NEW c \in Caller, Lock(c) PROVE LockTypeOK'
    <3>1. met' \in [Caller -> SUBSET Caller]
      BY <2>1 DEF Lock
    <3>2. /\ key' = c /\ left' = LockTTL /\ at' = [at EXCEPT ![c] = "running"]
          /\ renewer' = [renewer EXCEPT ![c] = TRUE] /\ lost' = [lost EXCEPT ![c] = FALSE]
          /\ fnOK' = fnOK /\ result' = result
      BY <2>1 DEF Lock
    <3>. QED
      BY <3>1, <3>2
  <2>2. ASSUME NEW c \in Caller, Extend(c) \/ ExtendFails(c) PROVE LockTypeOK'
    <3>1. left' \in {left, LockTTL}
      BY <2>2 DEF Extend, ExtendFails
    <3>2. renewer' \in [Caller -> BOOLEAN] /\ lost' \in [Caller -> BOOLEAN]
      BY <2>2 DEF Extend, ExtendFails
    <3>. QED
      BY <2>2, <3>1, <3>2 DEF Extend, ExtendFails
  <2>3. ASSUME NEW c \in Caller, Return(c) \/ StopRenewer(c) PROVE LockTypeOK'
    <3>1. CASE Return(c)
      <4>1. fnOK' \in [Caller -> BOOLEAN]
        BY <3>1 DEF Return
      <4>2. at' \in [Caller -> {"idle", "running", "stopping", "deleting", "ended"}]
        BY <3>1 DEF Return
      <4>. QED
        BY <3>1, <4>1, <4>2 DEF Return
    <3>2. CASE StopRenewer(c)
      BY <3>2 DEF StopRenewer
    <3>. QED
      BY <2>3, <3>1, <3>2
  <2>4. ASSUME NEW c \in Caller, Unlock(c) PROVE LockTypeOK'
    BY <2>4 DEF Unlock
  <2>5. ASSUME NEW c \in Caller, CallAgain(c) PROVE LockTypeOK'
    <3>1. met' \in [Caller -> SUBSET Caller]
      BY <2>5 DEF CallAgain
    <3>. QED
      BY <2>5, <3>1 DEF CallAgain
  <2>6. ASSUME NEW c \in Caller, Die(c) PROVE LockTypeOK'
    BY <2>6 DEF Die
  <2>7. CASE Elapse \/ UNCHANGED lockVars
    BY <2>7 DEF Elapse, lockVars
  <2>. QED
    BY <2>1, <2>2, <2>3, <2>4, <2>5, <2>6, <2>7 DEF LockNext
<1>. QED
  BY <1>1, <1>2, PTL DEF LockSpec

-----------------------------------------------------------------------------
(* The account service.                                                     *)

USE AccountsAssumption DEF AccountsAssumption

-----------------------------------------------------------------------------
(* The invariant.                                                         *)

Target == [account : ProviderAccount, ask : AccountAsk, found : AccountRow \cup {NoRow}]

TypesInv ==
  /\ row \in [ProviderAccount -> AccountRow \cup {NoRow}]
  /\ secret \in [ProviderAccount -> STRING]
  /\ lease \in [AccountLease -> {"none", "asking", "active", "pending", "ended"}]
  /\ accountLock \in [ProviderAccount -> AccountLease \cup ProviderAccount \cup {NoHolder}]
  /\ update \in [AccountUpdate -> {"idle", "compare", "accepted", "read", "written", "ended"}]
  /\ deletion \in [ProviderAccount -> {"none", "waiting", "deleting", "releasing"}]
  /\ DOMAIN target = AccountUpdate
  /\ \A u \in UnderWay : target[u] \in Target
  /\ DOMAIN used = AccountLease

\* Leases whose account matters to them.
Served(l) == lease[l] = "asking" \/ BlockingIfActive(l)

\* An acquisition and the last step of a deletion hold the account's lock.
HoldInv ==
  /\ \A l \in AccountLease : lease[l] = "asking" => accountLock[LeaseAccount[l]] = l
  /\ \A a \in ProviderAccount : deletion[a] = "deleting" =>
       accountLock[a] = a /\ \A l \in LeasesOf(a) : ~Served(l)

RowInv == \A l \in AccountLease : Served(l) => row[LeaseAccount[l]] # NoRow

CredentialInv ==
  \A l \in AccountLease : Served(l) /\ l \notin exposed =>
    Credential(LeaseAccount[l]) = used[l]

\* An update under way that a served lease is not exposed to began after that
\* lease was saved: once accepted, it can change no credential.
Harmless(u) ==
  LET a == target[u].account
      r == target[u].ask IN
  /\ update[u] # "written"
  /\ update[u] \in {"accepted", "read"} =>
       /\ r.password = "" /\ ~r.clear /\ r.user \in {"", row[a].user}
       /\ update[u] = "read" => /\ target[u].found # NoRow
                                /\ target[u].found.user = row[a].user
                                /\ target[u].found.pass = row[a].pass

UpdateInv ==
  \A u \in UnderWay, l \in AccountLease :
    LeaseAccount[l] = target[u].account /\ Served(l) /\ l \notin exposed =>
      lease[l] # "asking" /\ Harmless(u)

AccountsInv == TypesInv /\ HoldInv /\ RowInv /\ CredentialInv /\ UpdateInv

LEMMA AccountsStart == AccountsInit => AccountsInv
BY DEF AccountsInit, AccountsInv, TypesInv, HoldInv, RowInv, CredentialInv, UpdateInv,
       Served, BlockingIfActive, UnderWay

-----------------------------------------------------------------------------
(* Steps that keep accounts and secrets.                                  *)

\* No lease comes into service, and no update goes on.
LEMMA FewerServed ==
  ASSUME AccountsInv, row' = row, secret' = secret, used' = used, target' = target,
         exposed \subseteq exposed', \A l \in AccountLease : Served(l)' => Served(l),
         \A l \in AccountLease : lease'[l] = "asking" => lease[l] = "asking",
         \A u \in UnderWay' : u \in UnderWay /\ update'[u] = update[u]
  PROVE  RowInv' /\ CredentialInv' /\ UpdateInv'
<1>1. RowInv'
  BY DEF AccountsInv, RowInv
<1>2. CredentialInv'
  BY DEF AccountsInv, CredentialInv, Credential, PasswordOf
<1>3. \A u \in UnderWay' : Harmless(u) => Harmless(u)'
  BY DEF Harmless
<1>4. UpdateInv'
  BY <1>3 DEF AccountsInv, UpdateInv
<1>. QED
  BY <1>1, <1>2, <1>4

LEMMA BeginLeaseStep == ASSUME AccountsInv, NEW l \in AccountLease, BeginLease(l)
                        PROVE  AccountsInv'
<1>. DEFINE a == LeaseAccount[l]
<1>1. /\ lease[l] = "none" /\ accountLock[a] = NoHolder /\ row[a] # NoRow
      /\ accountLock' = [accountLock EXCEPT ![a] = l]
      /\ lease' = [lease EXCEPT ![l] = "asking"]
      /\ used' = [used EXCEPT ![l] = Credential(a)]
      /\ exposed' = IF UpdatesOf(a) = {} THEN exposed ELSE exposed \cup {l}
      /\ row' = row /\ secret' = secret /\ overdue' = overdue /\ update' = update
      /\ target' = target /\ deletion' = deletion
  BY DEF BeginLease, updating, removing
<1>2. \A m \in AccountLease \ {l} : /\ lease'[m] = lease[m] /\ used'[m] = used[m]
                                    /\ Served(m)' = Served(m)
  BY <1>1 DEF AccountsInv, TypesInv, Served, BlockingIfActive
<1>3. TypesInv'
  BY <1>1 DEF AccountsInv, TypesInv, UnderWay
<1>4. HoldInv'
  <2>1. \A m \in AccountLease : lease'[m] = "asking" => accountLock'[LeaseAccount[m]] = m
    BY <1>1, <1>2 DEF AccountsInv, TypesInv, HoldInv
  <2>2. deletion[a] # "deleting"
    BY <1>1 DEF AccountsInv, HoldInv
  <2>3. ASSUME NEW b \in ProviderAccount, deletion'[b] = "deleting"
        PROVE accountLock'[b] = b /\ \A m \in LeasesOf(b) : ~Served(m)'
    BY <1>1, <1>2, <2>2, <2>3 DEF AccountsInv, TypesInv, HoldInv, LeasesOf
  <2>. QED
    BY <2>1, <2>3 DEF HoldInv, LeasesOf
<1>5. RowInv'
  BY <1>1, <1>2 DEF AccountsInv, RowInv
<1>6. CredentialInv'
  <2>1. \A b : Credential(b)' = Credential(b)
    BY <1>1 DEF Credential, PasswordOf
  <2>. QED
    BY <1>1, <1>2, <2>1 DEF AccountsInv, CredentialInv, TypesInv
<1>7. UpdateInv'
  <2>1. \A u \in UnderWay : Harmless(u)' = Harmless(u)
    BY <1>1 DEF Harmless
  <2>2. UnderWay' = UnderWay
    BY <1>1 DEF UnderWay
  <2>3. l \notin exposed' => \A u \in UnderWay : target[u].account # a
    BY <1>1 DEF UpdatesOf
  <2>. QED
    BY <1>1, <1>2, <2>1, <2>2, <2>3 DEF AccountsInv, UpdateInv
<1>. QED
  BY <1>3, <1>4, <1>5, <1>6, <1>7 DEF AccountsInv

LEMMA SaveLeaseStep == ASSUME AccountsInv, NEW l \in AccountLease, SaveLease(l)
                       PROVE  AccountsInv'
<1>. DEFINE a == LeaseAccount[l]
<1>1. /\ lease[l] = "asking" /\ overdue' = overdue /\ exposed' = exposed /\ used' = used
      /\ \E s \in {"active", "pending", "ended"} : lease' = [lease EXCEPT ![l] = s]
      /\ accountLock' = [accountLock EXCEPT ![a] = NoHolder]
      /\ row' = row /\ secret' = secret /\ update' = update /\ target' = target
      /\ deletion' = deletion
  BY DEF SaveLease, updating, removing
<1>2. \A m \in AccountLease : /\ Served(m)' => Served(m)
                              /\ lease'[m] = "asking" => lease[m] = "asking" /\ m # l
  BY <1>1 DEF AccountsInv, TypesInv, Served, BlockingIfActive
<1>3. TypesInv'
  BY <1>1 DEF AccountsInv, TypesInv, UnderWay
<1>4. HoldInv'
  <2>1. accountLock[a] = l /\ l \in AccountLease
    BY <1>1 DEF AccountsInv, HoldInv
  <2>2. \A m \in AccountLease : lease'[m] = "asking" => accountLock'[LeaseAccount[m]] = m
    BY <1>1, <1>2, <2>1 DEF AccountsInv, TypesInv, HoldInv
  <2>3. ASSUME NEW b \in ProviderAccount, deletion'[b] = "deleting"
        PROVE accountLock'[b] = b /\ \A m \in LeasesOf(b) : ~Served(m)'
    BY <1>1, <1>2, <2>1, <2>3 DEF AccountsInv, TypesInv, HoldInv, LeasesOf
  <2>. QED
    BY <2>2, <2>3 DEF HoldInv, LeasesOf
<1>. QED
  BY <1>1, <1>2, <1>3, <1>4, FewerServed DEF AccountsInv, UnderWay

LEMMA EndStep == ASSUME AccountsInv, NEW l \in AccountLease, Expire(l) \/ EndLease(l)
                 PROVE  AccountsInv'
<1>1. /\ row' = row /\ secret' = secret /\ update' = update /\ target' = target
      /\ deletion' = deletion /\ accountLock' = accountLock /\ exposed' = exposed
      /\ used' = used
  BY DEF Expire, EndLease, updating, removing
<1>2. /\ lease[l] \in {"active", "pending"} /\ overdue \subseteq overdue'
      /\ \E s \in {lease[l], "pending", "ended"} : lease' = [lease EXCEPT ![l] = s]
  BY DEF Expire, EndLease, AccountsInv, TypesInv
<1>3. \A m \in AccountLease : /\ Served(m)' => Served(m)
                              /\ lease'[m] = "asking" => lease[m] = "asking"
  BY <1>2 DEF AccountsInv, TypesInv, Served, BlockingIfActive
<1>4. TypesInv'
  BY <1>1, <1>2 DEF AccountsInv, TypesInv, UnderWay
<1>5. HoldInv'
  BY <1>1, <1>3 DEF AccountsInv, HoldInv, LeasesOf
<1>. QED
  BY <1>1, <1>3, <1>4, <1>5, FewerServed DEF AccountsInv, UnderWay

-----------------------------------------------------------------------------
(* Updates.                                                               *)

LEMMA CheckLeasesStep == ASSUME AccountsInv, NEW u \in AccountUpdate, CheckLeases(u)
                         PROVE  AccountsInv'
<1>1. PICK a \in ProviderAccount, r \in AccountRequests :
        /\ target' = [target EXCEPT ![u] = [account |-> a, ask |-> r, found |-> NoRow]]
        /\ update' = [update EXCEPT ![u] = IF BlockingLeases(a) = {} THEN "accepted" ELSE "compare"]
        /\ exposed' = exposed \cup {l \in LeasesOf(a) : lease[l] = "asking"}
  BY DEF CheckLeases
<1>2. /\ update[u] = "idle" /\ row' = row /\ secret' = secret /\ lease' = lease
      /\ overdue' = overdue /\ used' = used /\ accountLock' = accountLock
      /\ deletion' = deletion
  BY DEF CheckLeases, leasing, removing
<1>3. \A l \in AccountLease : Served(l)' = Served(l)
  BY <1>2 DEF Served, BlockingIfActive
<1>4. \A w \in UnderWay' : w # u => w \in UnderWay /\ update'[w] = update[w] /\ target'[w] = target[w]
  BY <1>1 DEF UnderWay, AccountsInv, TypesInv
<1>5. target'[u] = [account |-> a, ask |-> r, found |-> NoRow] /\ target'[u] \in Target
  BY <1>1 DEF AccountsInv, TypesInv, Target
<1>6. TypesInv'
  BY <1>1, <1>2, <1>4, <1>5 DEF AccountsInv, TypesInv
<1>7. HoldInv' /\ RowInv'
  BY <1>2, <1>3 DEF AccountsInv, HoldInv, RowInv, LeasesOf
<1>8. CredentialInv'
  BY <1>1, <1>2, <1>3 DEF AccountsInv, CredentialInv, Credential, PasswordOf
<1>9. UpdateInv'
  <2>. SUFFICES ASSUME NEW w \in UnderWay', NEW l \in AccountLease,
                       LeaseAccount[l] = target'[w].account, Served(l)', l \notin exposed'
                PROVE  lease'[l] # "asking" /\ Harmless(w)'
    BY DEF UpdateInv
  <2>1. CASE w # u
    <3>1. w \in UnderWay /\ update'[w] = update[w] /\ target'[w] = target[w]
      BY <1>4, <2>1
    <3>2. lease[l] # "asking" /\ Harmless(w)
      BY <1>1, <1>3, <3>1 DEF AccountsInv, UpdateInv
    <3>. QED
      BY <1>2, <3>1, <3>2 DEF Harmless
  <2>2. CASE w = u
    <3>1. LeaseAccount[l] = a /\ lease[l] # "asking"
      BY <1>1, <1>5, <2>2 DEF LeasesOf
    <3>2. l \in BlockingLeases(a)
      BY <1>3, <3>1 DEF BlockingLeases, LeasesOf, Blocking, Served
    <3>3. update'[w] = "compare"
      BY <1>1, <2>2, <3>2 DEF AccountsInv, TypesInv
    <3>. QED
      BY <1>2, <3>1, <3>3 DEF Harmless
  <2>. QED
    BY <2>1, <2>2
<1>. QED
  BY <1>6, <1>7, <1>8, <1>9 DEF AccountsInv

\* An update goes on, and no account, secret or lease changes.
LEMMA UpdateGoesOn ==
  ASSUME AccountsInv, NEW u \in UnderWay, row' = row, secret' = secret, lease' = lease,
         overdue' = overdue, used' = used, accountLock' = accountLock, deletion' = deletion,
         exposed' = exposed, NEW s, update' = [update EXCEPT ![u] = s],
         s \in {"accepted", "read", "written", "ended"},
         target'[u] \in Target, target'[u].account = target[u].account,
         DOMAIN target' = AccountUpdate, \A w \in UnderWay \ {u} : target'[w] = target[w],
         \A l \in AccountLease :
           LeaseAccount[l] = target[u].account /\ Served(l) /\ l \notin exposed /\ s # "ended"
             => Harmless(u)'
  PROVE  AccountsInv'
<1>1. \A l \in AccountLease : Served(l)' = Served(l)
  BY DEF Served, BlockingIfActive
<1>2. \A w \in UnderWay' : /\ w \in UnderWay
                           /\ w # u => update'[w] = update[w] /\ target'[w] = target[w]
  BY DEF UnderWay, AccountsInv, TypesInv
<1>3. update'[u] = s /\ u \in AccountUpdate
  BY DEF UnderWay, AccountsInv, TypesInv
<1>4. TypesInv'
  BY <1>2 DEF AccountsInv, TypesInv
<1>5. HoldInv' /\ RowInv'
  BY <1>1 DEF AccountsInv, HoldInv, RowInv, LeasesOf
<1>6. CredentialInv'
  BY <1>1 DEF AccountsInv, CredentialInv, Credential, PasswordOf
<1>7. UpdateInv'
  <2>1. u \in UnderWay' => s # "ended"
    BY <1>3 DEF UnderWay
  <2>2. \A w \in UnderWay' : w # u /\ Harmless(w) => Harmless(w)'
    BY <1>2 DEF Harmless
  <2>. QED
    BY <1>1, <1>2, <2>1, <2>2 DEF AccountsInv, UpdateInv
<1>. QED
  BY <1>4, <1>5, <1>6, <1>7 DEF AccountsInv

LEMMA CompareRowStep == ASSUME AccountsInv, NEW u \in AccountUpdate, CompareRow(u)
                        PROVE  AccountsInv'
<1>. DEFINE a == target[u].account
            r == target[u].ask
            s == IF row[a] # NoRow /\ Refused(row[a], r) THEN "ended" ELSE "accepted"
<1>1. /\ update[u] = "compare" /\ update' = [update EXCEPT ![u] = s]
      /\ row' = row /\ secret' = secret /\ lease' = lease /\ overdue' = overdue
      /\ used' = used /\ accountLock' = accountLock /\ deletion' = deletion
      /\ exposed' = exposed /\ target' = target
  BY DEF CompareRow, leasing, removing
<1>2. u \in UnderWay /\ target[u] \in Target /\ update'[u] = s
  BY <1>1 DEF UnderWay, AccountsInv, TypesInv
<1>3. ASSUME NEW l \in AccountLease, LeaseAccount[l] = a, Served(l), s # "ended"
      PROVE  Harmless(u)'
  <2>1. row[a] # NoRow /\ ~Refused(row[a], r)
    BY <1>3 DEF AccountsInv, RowInv
  <2>2. r.password = "" /\ ~r.clear /\ r.user \in {"", row[a].user}
    BY <2>1 DEF Refused, OtherUserRefused
  <2>3. update'[u] = "accepted"
    BY <1>2, <2>1
  <2>. QED
    BY <1>1, <2>2, <2>3 DEF Harmless
<1>. QED
  BY <1>1, <1>2, <1>3, UpdateGoesOn DEF AccountsInv, TypesInv

LEMMA ReadRowStep == ASSUME AccountsInv, NEW u \in AccountUpdate, ReadRow(u)
                     PROVE  AccountsInv'
<1>. DEFINE a == target[u].account
<1>1. /\ update[u] = "accepted" /\ update' = [update EXCEPT ![u] = "read"]
      /\ target' = [target EXCEPT ![u].found = row[a]]
      /\ row' = row /\ secret' = secret /\ lease' = lease /\ overdue' = overdue
      /\ used' = used /\ accountLock' = accountLock /\ deletion' = deletion
      /\ exposed' = exposed
  BY DEF ReadRow, leasing, removing
<1>2. u \in UnderWay /\ target[u] \in Target /\ update'[u] = "read"
  BY <1>1 DEF UnderWay, AccountsInv, TypesInv
<1>3. target'[u] = [target[u] EXCEPT !.found = row[a]] /\ DOMAIN target' = AccountUpdate
      /\ \A w \in UnderWay \ {u} : target'[w] = target[w]
  BY <1>1 DEF UnderWay, AccountsInv, TypesInv
<1>4. /\ target'[u] \in Target /\ target'[u].account = a /\ target'[u].ask = target[u].ask
      /\ target'[u].found = row[a]
  BY <1>2, <1>3 DEF Target, AccountsInv, TypesInv
<1>5. ASSUME NEW l \in AccountLease, LeaseAccount[l] = a, Served(l), l \notin exposed
      PROVE  Harmless(u)'
  <2>1. Harmless(u) /\ row[a] # NoRow
    BY <1>2, <1>5 DEF AccountsInv, UpdateInv, RowInv
  <2>. QED
    BY <1>1, <1>2, <1>4, <2>1 DEF Harmless
<1>. QED
  BY <1>1, <1>2, <1>3, <1>4, <1>5, UpdateGoesOn

\* A password that is written means that no served lease rests on the old one.
LEMMA WritePasswordStep == ASSUME AccountsInv, NEW u \in AccountUpdate, WritePassword(u)
                           PROVE  AccountsInv'
<1>. DEFINE a == target[u].account
            r == target[u].ask
<1>1. /\ update[u] = "read" /\ r.password # "" /\ update' = [update EXCEPT ![u] = "written"]
      /\ secret' = [secret EXCEPT ![a] = r.password]
      /\ row' = row /\ lease' = lease /\ overdue' = overdue
      /\ used' = used /\ accountLock' = accountLock /\ deletion' = deletion
      /\ exposed' = exposed /\ target' = target
  BY DEF WritePassword, leasing, removing
<1>2. u \in UnderWay /\ target[u] \in Target
  BY <1>1 DEF UnderWay, AccountsInv, TypesInv
<1>3. \A l \in AccountLease : Served(l)' = Served(l)
  BY <1>1 DEF Served, BlockingIfActive
<1>4. UnderWay' = UnderWay /\ \A w \in UnderWay \ {u} : update'[w] = update[w]
  BY <1>1, <1>2 DEF UnderWay, AccountsInv, TypesInv
<1>5. \A l \in AccountLease : LeaseAccount[l] = a /\ Served(l) => l \in exposed
  BY <1>1, <1>2 DEF AccountsInv, UpdateInv, Harmless
<1>6. TypesInv'
  <2>1. a \in ProviderAccount /\ r.password \in STRING
    BY <1>2 DEF Target, AccountAsk
  <2>2. secret' \in [ProviderAccount -> STRING]
    BY <1>1, <2>1 DEF AccountsInv, TypesInv
  <2>. QED
    BY <1>1, <1>4, <2>2 DEF AccountsInv, TypesInv
<1>7. HoldInv' /\ RowInv'
  BY <1>1, <1>3 DEF AccountsInv, HoldInv, RowInv, LeasesOf
<1>8. CredentialInv'
  <2>1. \A b \in ProviderAccount \ {a} : Credential(b)' = Credential(b)
    BY <1>1 DEF Credential, PasswordOf, AccountsInv, TypesInv
  <2>. QED
    BY <1>1, <1>3, <1>5, <2>1 DEF AccountsInv, CredentialInv
<1>9. UpdateInv'
  <2>1. \A w \in UnderWay \ {u} : Harmless(w) => Harmless(w)'
    BY <1>1, <1>4 DEF Harmless
  <2>. QED
    BY <1>1, <1>3, <1>4, <1>5, <2>1 DEF AccountsInv, UpdateInv
<1>. QED
  BY <1>6, <1>7, <1>8, <1>9 DEF AccountsInv

LEMMA NewRowType ==
  ASSUME NEW t \in Target
  PROVE  NewRow(t.found, t.ask) \in AccountRow
BY DEF NewRow, Target, AccountRow, AccountAsk

\* The row of an accepted update that no served lease was exposed to names the
\* user and the secret of the one it replaces.
LEMMA SameCredential ==
  ASSUME AccountsInv, NEW u \in UnderWay, update[u] = "read", Harmless(u),
         row[target[u].account] # NoRow,
         NEW r, r = NewRow(target[u].found, target[u].ask)
  PROVE  /\ r.user = row[target[u].account].user
         /\ PasswordOf(r, target[u].account)
              = PasswordOf(row[target[u].account], target[u].account)
<1>. DEFINE a == target[u].account
            f == target[u].found
            k == target[u].ask
<1>1. /\ k.password = "" /\ ~k.clear /\ k.user \in {"", row[a].user}
      /\ f # NoRow /\ f.user = row[a].user /\ f.pass = row[a].pass
  BY DEF Harmless
<1>2. r.user = row[a].user
  BY <1>1 DEF NewRow
<1>3. r.pass <=> f.pass
  BY <1>1 DEF NewRow
<1>4. PasswordOf(r, a) = PasswordOf(row[a], a)
  BY <1>1, <1>3 DEF PasswordOf
<1>. QED
  BY <1>2, <1>4

LEMMA WriteRowStep == ASSUME AccountsInv, NEW u \in AccountUpdate, WriteRow(u)
                      PROVE  AccountsInv'
<1>. DEFINE a == target[u].account
            r == NewRow(target[u].found, target[u].ask)
<1>1. /\ update[u] \in {"read", "written"} /\ update' = [update EXCEPT ![u] = "ended"]
      /\ row' = row \/ row' = [row EXCEPT ![a] = r]
      /\ secret' = secret /\ lease' = lease /\ overdue' = overdue
      /\ used' = used /\ accountLock' = accountLock /\ deletion' = deletion
      /\ exposed' = exposed /\ target' = target
  BY DEF WriteRow, leasing, removing
<1>2. u \in UnderWay /\ target[u] \in Target /\ a \in ProviderAccount /\ r \in AccountRow
  BY <1>1, NewRowType DEF UnderWay, AccountsInv, TypesInv, Target
<1>3. \A l \in AccountLease : Served(l)' = Served(l)
  BY <1>1 DEF Served, BlockingIfActive
<1>4. \A w \in UnderWay' : w \in UnderWay \ {u} /\ update'[w] = update[w]
  BY <1>1, <1>2 DEF UnderWay, AccountsInv, TypesInv
<1>5. \A b \in ProviderAccount : row'[b] = row[b] \/ (b = a /\ row'[b] = r)
  BY <1>1, <1>2 DEF AccountsInv, TypesInv
\* For a lease that is served and not exposed the row says the same.
<1>6. ASSUME NEW l \in AccountLease, Served(l), l \notin exposed
      PROVE  /\ row'[LeaseAccount[l]].user = row[LeaseAccount[l]].user
             /\ PasswordOf(row[LeaseAccount[l]], LeaseAccount[l])'
                  = PasswordOf(row[LeaseAccount[l]], LeaseAccount[l])
  <2>1. CASE row'[LeaseAccount[l]] = row[LeaseAccount[l]]
    BY <1>1, <2>1 DEF PasswordOf
  <2>2. CASE LeaseAccount[l] = a /\ row'[a] = r
    <3>1. Harmless(u) /\ row[a] # NoRow
      BY <1>2, <1>6, <2>2 DEF AccountsInv, UpdateInv, RowInv
    <3>2. update[u] = "read"
      BY <1>1, <3>1 DEF Harmless
    <3>3. r.user = row[a].user /\ PasswordOf(r, a) = PasswordOf(row[a], a)
      BY <1>2, <3>1, <3>2, SameCredential
    <3>. QED
      BY <1>1, <2>2, <3>3 DEF PasswordOf
  <2>. QED
    BY <1>5, <2>1, <2>2
<1>7. TypesInv'
  <2>1. row' \in [ProviderAccount -> AccountRow \cup {NoRow}]
    BY <1>1, <1>2 DEF AccountsInv, TypesInv
  <2>. QED
    BY <1>1, <1>4, <2>1 DEF AccountsInv, TypesInv
<1>8. HoldInv'
  BY <1>1, <1>3 DEF AccountsInv, HoldInv, LeasesOf
<1>9. RowInv'
  BY <1>2, <1>3, <1>5 DEF AccountsInv, RowInv
<1>10. CredentialInv'
  <2>1. ASSUME NEW l \in AccountLease, Served(l), l \notin exposed
        PROVE Credential(LeaseAccount[l])' = Credential(LeaseAccount[l])
    <3>1. row[LeaseAccount[l]] # NoRow /\ row'[LeaseAccount[l]] # NoRow
      BY <1>3, <1>9, <2>1 DEF AccountsInv, RowInv
    <3>. QED
      BY <1>6, <2>1, <3>1 DEF Credential
  <2>. QED
    BY <1>1, <1>3, <2>1 DEF AccountsInv, CredentialInv
<1>11. UpdateInv'
  <2>. SUFFICES ASSUME NEW w \in UnderWay', NEW l \in AccountLease,
                       LeaseAccount[l] = target'[w].account, Served(l)', l \notin exposed'
                PROVE  lease'[l] # "asking" /\ Harmless(w)'
    BY DEF UpdateInv
  <2>1. /\ w \in UnderWay /\ update'[w] = update[w] /\ LeaseAccount[l] = target[w].account
        /\ Served(l) /\ l \notin exposed
    BY <1>1, <1>3, <1>4
  <2>2. lease[l] # "asking" /\ Harmless(w)
    BY <2>1 DEF AccountsInv, UpdateInv
  <2>3. row'[LeaseAccount[l]].user = row[LeaseAccount[l]].user
    BY <1>6, <2>1
  <2>4. update[w] = "read" => target[w].found.pass = row'[LeaseAccount[l]].pass
    <3>1. CASE row'[LeaseAccount[l]] = row[LeaseAccount[l]]
      BY <2>1, <2>2, <3>1 DEF Harmless
    <3>2. CASE LeaseAccount[l] = a /\ row'[a] = r /\ update[w] = "read"
      <4>1. Harmless(u)
        BY <1>2, <2>1, <3>2 DEF AccountsInv, UpdateInv
      <4>2. /\ target[w].found.pass = row[a].pass /\ target[u].found.pass = row[a].pass
            /\ target[u].found # NoRow /\ target[u].found.pass \in BOOLEAN
            /\ target[u].ask.password = "" /\ ~target[u].ask.clear
        BY <1>1, <1>2, <2>1, <2>2, <3>2, <4>1 DEF Harmless, Target, AccountRow
      <4>3. r.pass = target[u].found.pass
        BY <4>2 DEF NewRow
      <4>. QED
        BY <2>1, <3>2, <4>2, <4>3
    <3>. QED
      BY <1>5, <3>1, <3>2
  <2>. QED
    BY <1>1, <2>1, <2>2, <2>3, <2>4 DEF Harmless
<1>. QED
  BY <1>7, <1>8, <1>9, <1>10, <1>11 DEF AccountsInv

-----------------------------------------------------------------------------
(* Deletions.                                                             *)

LEMMA DeleteRowStep == ASSUME AccountsInv, NEW a \in ProviderAccount, DeleteRow(a)
                       PROVE  AccountsInv'
<1>1. /\ deletion[a] = "deleting" /\ row' = [row EXCEPT ![a] = NoRow]
      /\ deletion' = [deletion EXCEPT ![a] = "none"]
      /\ accountLock' = [accountLock EXCEPT ![a] = NoHolder]
      /\ secret' = secret /\ lease' = lease /\ overdue' = overdue /\ used' = used
      /\ update' = update /\ target' = target /\ exposed' = exposed
  BY DEF DeleteRow, Unlocked, leasing, updating
<1>2. accountLock[a] = a /\ \A l \in LeasesOf(a) : ~Served(l)
  BY <1>1 DEF AccountsInv, HoldInv
<1>3. \A l \in AccountLease : Served(l)' = Served(l)
  BY <1>1 DEF Served, BlockingIfActive
<1>4. \A l \in AccountLease : Served(l) => LeaseAccount[l] \in ProviderAccount \ {a}
  BY <1>2 DEF LeasesOf
<1>5. \A b \in ProviderAccount \ {a} :
        row'[b] = row[b] /\ deletion'[b] = deletion[b] /\ accountLock'[b] = accountLock[b]
  BY <1>1 DEF AccountsInv, TypesInv
<1>6. TypesInv'
  BY <1>1 DEF AccountsInv, TypesInv, UnderWay
<1>7. HoldInv'
  <2>1. deletion'[a] = "none"
    BY <1>1 DEF AccountsInv, TypesInv
  <2>. QED
    BY <1>1, <1>3, <1>4, <1>5, <2>1 DEF AccountsInv, HoldInv, LeasesOf, Served
<1>8. RowInv'
  BY <1>3, <1>4, <1>5 DEF AccountsInv, RowInv
<1>9. CredentialInv'
  <2>1. \A b \in ProviderAccount \ {a} : Credential(b)' = Credential(b)
    BY <1>1, <1>5 DEF Credential, PasswordOf
  <2>. QED
    BY <1>1, <1>3, <1>4, <2>1 DEF AccountsInv, CredentialInv
<1>10. UpdateInv'
  <2>1. ASSUME NEW u \in UnderWay, target[u].account # a, Harmless(u) PROVE Harmless(u)'
    <3>1. row'[target[u].account] = row[target[u].account]
      BY <1>5, <2>1 DEF AccountsInv, TypesInv, Target
    <3>2. target'[u] = target[u] /\ update'[u] = update[u]
      BY <1>1
    <3>. QED
      BY <2>1, <3>1, <3>2 DEF Harmless
  <2>. QED
    BY <1>1, <1>3, <1>4, <2>1 DEF AccountsInv, UpdateInv, UnderWay
<1>. QED
  BY <1>6, <1>7, <1>8, <1>9, <1>10 DEF AccountsInv

\* The other steps of a deletion, and a restart, change no account.
LEMMA DeletionStep ==
  ASSUME AccountsInv, NEW a \in ProviderAccount,
         BeginDelete(a) \/ ListLeases(a) \/ ListAgain(a) \/ GiveUpDelete(a)
  PROVE  AccountsInv'
<1>1. /\ row' = row /\ secret' = secret /\ lease' = lease /\ overdue' = overdue
      /\ used' = used /\ update' = update /\ target' = target /\ exposed' = exposed
  BY DEF BeginDelete, ListLeases, ListAgain, GiveUpDelete, leasing, updating
<1>2. \A l \in AccountLease : Served(l)' = Served(l) /\ lease'[l] = lease[l]
  BY <1>1 DEF Served, BlockingIfActive
<1>3. TypesInv' /\ HoldInv'
  <2>1. CASE BeginDelete(a) \/ ListAgain(a)
    <3>1. /\ accountLock' = accountLock
          /\ \E s \in {"none", "waiting"} : deletion' = [deletion EXCEPT ![a] = s]
      BY <2>1 DEF BeginDelete, ListAgain
    <3>. QED
      BY <1>1, <1>2, <3>1 DEF AccountsInv, TypesInv, HoldInv, UnderWay, LeasesOf
  <2>2. CASE ListLeases(a) /\ BlockingLeases(a) = {}
    <3>1. /\ accountLock[a] = NoHolder /\ accountLock' = [accountLock EXCEPT ![a] = a]
          /\ deletion' = [deletion EXCEPT ![a] = "deleting"]
      BY <2>2 DEF ListLeases, KeptLocked
    <3>2. \A l \in LeasesOf(a) : ~Served(l)
      BY <2>2, <3>1 DEF BlockingLeases, Blocking, Served, AccountsInv, HoldInv, LeasesOf
    <3>3. TypesInv'
      BY <1>1, <3>1 DEF AccountsInv, TypesInv, UnderWay
    <3>4. \A l \in AccountLease : lease[l] = "asking" => LeaseAccount[l] # a
      BY <3>1 DEF AccountsInv, HoldInv
    <3>5. \A b \in ProviderAccount \ {a} : deletion'[b] = deletion[b] /\ accountLock'[b] = accountLock[b]
      BY <3>1 DEF AccountsInv, TypesInv
    <3>6. accountLock'[a] = a
      BY <3>1 DEF AccountsInv, TypesInv
    <3>. QED
      BY <1>1, <1>2, <3>2, <3>3, <3>4, <3>5, <3>6 DEF AccountsInv, HoldInv, LeasesOf
  <2>3. CASE ListLeases(a) /\ BlockingLeases(a) # {}
    <3>1. accountLock' = accountLock /\ deletion' = [deletion EXCEPT ![a] = "releasing"]
      BY <2>3 DEF ListLeases
    <3>. QED
      BY <1>1, <1>2, <3>1 DEF AccountsInv, TypesInv, HoldInv, UnderWay, LeasesOf
  <2>4. CASE GiveUpDelete(a)
    <3>1. /\ deletion' = [deletion EXCEPT ![a] = "none"]
          /\ accountLock' = IF accountLock[a] = a THEN [accountLock EXCEPT ![a] = NoHolder]
                            ELSE accountLock
      BY <2>4 DEF GiveUpDelete, Unlocked
    <3>2. TypesInv'
      BY <1>1, <3>1 DEF AccountsInv, TypesInv, UnderWay
    <3>3. \A l \in AccountLease : lease[l] = "asking" =>
            accountLock'[LeaseAccount[l]] = accountLock[LeaseAccount[l]]
      BY <3>1 DEF AccountsInv, TypesInv, HoldInv
    <3>4. \A b \in ProviderAccount : deletion'[b] = "deleting" =>
            b # a /\ deletion[b] = "deleting" /\ accountLock'[b] = accountLock[b]
      BY <3>1 DEF AccountsInv, TypesInv
    <3>. QED
      BY <1>1, <1>2, <3>2, <3>3, <3>4 DEF AccountsInv, HoldInv, LeasesOf
  <2>. QED
    BY <2>1, <2>2, <2>3, <2>4
<1>. QED
  BY <1>1, <1>2, <1>3, FewerServed DEF AccountsInv, UnderWay

LEMMA RestartStep == ASSUME AccountsInv, RestartAccounts PROVE AccountsInv'
<1>1. /\ row' = row /\ secret' = secret /\ overdue' = overdue /\ target' = target
      /\ used' = used /\ exposed' = exposed
      /\ deletion' = [a \in ProviderAccount |-> "none"]
      /\ accountLock' = [a \in ProviderAccount |-> NoHolder]
      /\ lease' = [l \in AccountLease |-> IF lease[l] = "asking" THEN "ended" ELSE lease[l]]
      /\ update' = [u \in AccountUpdate |-> IF u \in UnderWay THEN "ended" ELSE update[u]]
  BY DEF RestartAccounts
<1>2. \A l \in AccountLease : /\ Served(l)' => Served(l)
                              /\ lease'[l] # "asking"
  BY <1>1 DEF Served, BlockingIfActive
<1>3. UnderWay' = {}
  BY <1>1 DEF UnderWay
<1>4. TypesInv'
  BY <1>1, <1>3 DEF AccountsInv, TypesInv
<1>5. HoldInv'
  BY <1>1, <1>2 DEF HoldInv
<1>. QED
  BY <1>1, <1>2, <1>3, <1>4, <1>5, FewerServed DEF AccountsInv

-----------------------------------------------------------------------------
LEMMA AccountsStep == AccountsInv /\ [AccountsNext]_accountVars => AccountsInv'
<1>. SUFFICES ASSUME AccountsInv, [AccountsNext]_accountVars PROVE AccountsInv'
  OBVIOUS
<1>1. ASSUME NEW l \in AccountLease, BeginLease(l) \/ SaveLease(l) \/ Expire(l) \/ EndLease(l)
      PROVE AccountsInv'
  BY <1>1, BeginLeaseStep, SaveLeaseStep, EndStep
<1>2. ASSUME NEW u \in AccountUpdate,
             CheckLeases(u) \/ CompareRow(u) \/ ReadRow(u) \/ WritePassword(u) \/ WriteRow(u)
      PROVE AccountsInv'
  BY <1>2, CheckLeasesStep, CompareRowStep, ReadRowStep, WritePasswordStep, WriteRowStep
<1>3. ASSUME NEW a \in ProviderAccount,
             BeginDelete(a) \/ ListLeases(a) \/ DeleteRow(a) \/ ListAgain(a) \/ GiveUpDelete(a)
      PROVE AccountsInv'
  BY <1>3, DeleteRowStep, DeletionStep
<1>4. CASE RestartAccounts
  BY <1>4, RestartStep
<1>5. CASE UNCHANGED accountVars
  <2>1. /\ row' = row /\ secret' = secret /\ lease' = lease /\ overdue' = overdue
        /\ accountLock' = accountLock /\ update' = update /\ target' = target
        /\ deletion' = deletion /\ used' = used /\ exposed' = exposed
    BY <1>5 DEF accountVars, leasing, updating, removing
  <2>2. \A l \in AccountLease : Served(l)' = Served(l)
    BY <2>1 DEF Served, BlockingIfActive
  <2>3. UnderWay' = UnderWay
    BY <2>1 DEF UnderWay
  <2>4. TypesInv' /\ HoldInv'
    BY <2>1, <2>2, <2>3 DEF AccountsInv, TypesInv, HoldInv, LeasesOf
  <2>. QED
    BY <2>1, <2>2, <2>3, <2>4, FewerServed DEF AccountsInv
<1>. QED
  BY <1>1, <1>2, <1>3, <1>4, <1>5 DEF AccountsNext

\* What is kept of leases, updates and deletions has its type; that of a
\* deletion's list is not part of the argument above.
THEOREM AccountsTypeCorrect == AccountsSpec => []AccountsTypeOK
<1> DEFINE Sets == overdue \subseteq AccountLease /\ exposed \subseteq AccountLease
           Lists == listed \in [ProviderAccount -> SUBSET AccountLease]
<1>1. AccountsInit => Sets /\ Lists
  BY DEF AccountsInit
<1>2. ASSUME Sets, [AccountsNext]_accountVars PROVE Sets'
  <2>1. ASSUME NEW l \in AccountLease, BeginLease(l) \/ SaveLease(l) \/ Expire(l) \/ EndLease(l)
        PROVE Sets'
    BY <1>2, <2>1 DEF BeginLease, SaveLease, Expire, EndLease
  <2>2. ASSUME NEW u \in AccountUpdate, CheckLeases(u) PROVE Sets'
    BY <1>2, <2>2 DEF CheckLeases, LeasesOf, leasing
  <2>3. ASSUME NEW u \in AccountUpdate, CompareRow(u) \/ ReadRow(u) \/ WritePassword(u) \/ WriteRow(u)
        PROVE Sets'
    BY <1>2, <2>3 DEF CompareRow, ReadRow, WritePassword, WriteRow, leasing
  <2>4. ASSUME NEW a \in ProviderAccount,
               BeginDelete(a) \/ ListLeases(a) \/ DeleteRow(a) \/ ListAgain(a) \/ GiveUpDelete(a)
        PROVE Sets'
    BY <1>2, <2>4 DEF BeginDelete, ListLeases, DeleteRow, ListAgain, GiveUpDelete, leasing
  <2>5. CASE RestartAccounts \/ UNCHANGED accountVars
    BY <1>2, <2>5 DEF RestartAccounts, accountVars
  <2>. QED
    BY <1>2, <2>1, <2>2, <2>3, <2>4, <2>5 DEF AccountsNext
<1>3. ASSUME Lists, [AccountsNext]_accountVars PROVE Lists'
  <2>1. ASSUME NEW l \in AccountLease, BeginLease(l) \/ SaveLease(l) \/ Expire(l) \/ EndLease(l)
        PROVE listed' = listed
    BY <2>1 DEF BeginLease, SaveLease, Expire, EndLease, removing
  <2>2. ASSUME NEW u \in AccountUpdate,
               \/ CheckLeases(u) \/ CompareRow(u) \/ ReadRow(u)
               \/ WritePassword(u) \/ WriteRow(u)
        PROVE listed' = listed
    BY <2>2 DEF CheckLeases, CompareRow, ReadRow, WritePassword, WriteRow, removing
  <2>3. ASSUME NEW a \in ProviderAccount, ListLeases(a) PROVE Lists'
    <3>1. BlockingLeases(a) \in SUBSET AccountLease
      BY DEF BlockingLeases, LeasesOf
    <3>2. listed' \in {listed, [listed EXCEPT ![a] = BlockingLeases(a)]}
      BY <2>3 DEF ListLeases
    <3>. QED
      BY <1>3, <3>1, <3>2
  <2>4. ASSUME NEW a \in ProviderAccount,
               BeginDelete(a) \/ DeleteRow(a) \/ ListAgain(a) \/ GiveUpDelete(a)
        PROVE listed' = listed
    BY <2>4 DEF BeginDelete, DeleteRow, ListAgain, GiveUpDelete
  <2>5. ASSUME RestartAccounts \/ UNCHANGED accountVars PROVE listed' = listed
    BY <2>5 DEF RestartAccounts, accountVars
  <2>. QED
    BY <1>3, <2>1, <2>2, <2>3, <2>4, <2>5 DEF AccountsNext
<1>4. AccountsInv /\ Sets /\ Lists => AccountsTypeOK
  BY DEF AccountsInv, TypesInv, AccountsTypeOK
<1>. QED
  BY <1>1, <1>2, <1>3, <1>4, AccountsStart, AccountsStep, PTL DEF AccountsSpec

\* A lease in service has its account, and the credential it was acquired with
\* unless an update was under way meanwhile.
THEOREM ServedAccountKept == AccountsSpec => []ServedByStoredAccount
<1>1. AccountsInv => ServedByStoredAccount
  BY DEF AccountsInv, RowInv, CredentialInv, Served, ServedByStoredAccount
<1>. QED
  BY <1>1, AccountsStart, AccountsStep, PTL DEF AccountsSpec
===============================================================================
