------------------------- MODULE ConcurrencyLimiter -------------------------
(***************************************************************************)
(* The limiter of concurrent sessions of a provider account                *)
(* (internal/app/provider/concurrency): a Redis sorted set per account and *)
(* session mode, a score per holder that is the time its slot ends, and    *)
(* one expiry for the whole key. Each operation is one Lua script, so it   *)
(* is one step.                                                            *)
(*                                                                         *)
(* The limit and the time to live come with each call: two leases of one   *)
(* account may ask for different times, and the settings may change the    *)
(* limit between two calls.                                                *)
(***************************************************************************)
EXTENDS Integers, FiniteSets

CONSTANTS
  Account,      \* provider accounts
  Holder,       \* lease ids and profile pools
  AskedPolicy,  \* the session policies calls come with
  LimiterLimit, \* a call passes a limit in 1..LimiterLimit
  AskedTTL,     \* the times to live calls ask for; 0 is "none"
  DefaultTTL, MinTTL,
  MaxClock      \* BOUND: how far time goes

Policy == [mode : {"sticky", "rotating"}, rotation : {"sticky_session", "per_request"}]

ASSUME LimiterAssumption ==
  /\ IsFiniteSet(Holder) /\ LimiterLimit \in Nat /\ MaxClock \in Nat
  /\ AskedPolicy \subseteq Policy
  /\ AskedTTL \subseteq Int /\ DefaultTTL \in Nat \ {0} /\ MinTTL \in Nat \ {0}

SlotKey == Account \X {"sticky", "rotating"}

VARIABLES
  clock,      \* now, as the caller and Redis see it
  score,      \* score[k][h] = when the slot of h ends; 0: not a member
  keyEnd,     \* when Redis drops the key; 0: no expiry set
  promised,   \* HISTORY: the end of the slot each holder was told it has
  curtailed   \* HISTORY: the holders after whose grant somebody was granted a
              \* slot that ends earlier

limiterVars == <<clock, score, keyEnd, promised, curtailed>>

NoMember == [h \in Holder |-> 0]

LimiterTypeOK ==
  /\ clock \in Nat
  /\ score \in [SlotKey -> [Holder -> Nat]]
  /\ keyEnd \in [SlotKey -> Nat]
  /\ promised \in [SlotKey -> [Holder -> Nat]]
  /\ curtailed \in [SlotKey -> SUBSET Holder]

LimiterInit ==
  /\ clock = 1
  /\ score = [k \in SlotKey |-> NoMember]
  /\ keyEnd = [k \in SlotKey |-> 0]
  /\ promised = [k \in SlotKey |-> NoMember]
  /\ curtailed = [k \in SlotKey |-> {}]

-----------------------------------------------------------------------------
\* The session mode a policy counts under: one request per session is
\* rotating, whatever the mode says, and no policy at all is sticky.
ModeOf(policy) ==
  IF policy.mode = "rotating" \/ policy.rotation = "per_request" THEN "rotating" ELSE "sticky"

EffectiveTTL(ttl) ==
  IF ttl <= 0 THEN DefaultTTL ELSE IF ttl < MinTTL THEN MinTTL ELSE ttl

\* ZREMRANGEBYSCORE key -inf now: a slot that ends now has ended.
Pruned(members) == [h \in Holder |-> IF members[h] <= clock THEN 0 ELSE members[h]]

Count(members) == Cardinality({h \in Holder : members[h] # 0})

RoomForOneMore(members, limit) == Count(members) <= limit
HasRoom(members, limit) == Count(members) < limit

\* The expiry of the key becomes that of this call, even if it is the shorter.
KeyEndAtFirst(members, h, old, end) == IF members[h] # 0 THEN old ELSE end
KeyEndGranted(members, h, old, end) == end

\* A sorted set without members does not exist, nor does its expiry.
KeyEndOf(members, end) == IF members = NoMember THEN 0 ELSE end

-----------------------------------------------------------------------------
(* The scripts.                                                           *)

\* The acquire script: a member is refreshed whatever the limit.
AcquireSlot(k, h, limit, ttl) ==
  LET left == Pruned(score[k])
      end  == clock + EffectiveTTL(ttl)
  IN IF left[h] # 0 \/ HasRoom(left, limit)
     THEN /\ score' = [score EXCEPT ![k] = [left EXCEPT ![h] = end]]
          /\ keyEnd' = [keyEnd EXCEPT ![k] = KeyEndGranted(left, h, @, end)]
          /\ promised' = [promised EXCEPT ![k][h] = end]
          /\ curtailed' = [curtailed EXCEPT ![k] =
               (@ \cup {g \in Holder : promised[k][g] > end}) \ {h}]
          /\ UNCHANGED clock
     ELSE /\ score' = [score EXCEPT ![k] = left]
          /\ keyEnd' = [keyEnd EXCEPT ![k] = KeyEndOf(left, @)]
          /\ UNCHANGED <<clock, promised, curtailed>>

\* The available script: it prunes, and what it answers is only a hint.
ProbeSlots(k) ==
  /\ score' = [score EXCEPT ![k] = Pruned(@)]
  /\ keyEnd' = [keyEnd EXCEPT ![k] = KeyEndOf(Pruned(score[k]), @)]
  /\ UNCHANGED <<clock, promised, curtailed>>

\* The release script does not prune: ended slots of others stay until the
\* next acquire or probe.
ReleaseSlot(k, h) ==
  LET left == [score[k] EXCEPT ![h] = 0] IN
  /\ score' = [score EXCEPT ![k] = left]
  /\ keyEnd' = [keyEnd EXCEPT ![k] = KeyEndOf(left, @)]
  /\ promised' = [promised EXCEPT ![k][h] = 0]
  /\ UNCHANGED <<clock, curtailed>>

\* Time passes, and Redis drops the keys whose expiry has come.
PassTime ==
  /\ clock < MaxClock /\ clock' = clock + 1
  /\ LET over == {k \in SlotKey : keyEnd[k] # 0 /\ keyEnd[k] <= clock'} IN
     /\ score' = [k \in SlotKey |-> IF k \in over THEN NoMember ELSE score[k]]
     /\ keyEnd' = [k \in SlotKey |-> IF k \in over THEN 0 ELSE keyEnd[k]]
  /\ UNCHANGED <<promised, curtailed>>

LimiterNext ==
  \/ \E a \in Account, p \in AskedPolicy :
       \/ \E h \in Holder, limit \in 1..LimiterLimit, ttl \in AskedTTL :
            AcquireSlot(<<a, ModeOf(p)>>, h, limit, ttl)
       \/ ProbeSlots(<<a, ModeOf(p)>>)
       \/ \E h \in Holder : ReleaseSlot(<<a, ModeOf(p)>>, h)
  \/ PassTime

LimiterSpec == LimiterInit /\ [][LimiterNext]_limiterVars

-----------------------------------------------------------------------------
(* Properties.                                                            *)

\* The holders that count: members whose slot has not ended.
Live(k) == {h \in Holder : score[k][h] > clock}

Pool == INSTANCE SlotPool WITH
  Key <- SlotKey, MaxLimit <- LimiterLimit, held <- [k \in SlotKey |-> Live(k)]

\* The limiter is a slot pool: a slot is granted only while fewer holders are
\* alive than the call's limit, whatever has been pruned or dropped before
\* (limiter.go, the three scripts).
LimiterIsPool == Pool!PoolSpec

\* A holder loses its slot before the end it was granted only if somebody was
\* granted a slot with an earlier end after it: PEXPIRE sets the expiry of
\* all members (limiter.go:153). So where all calls ask for the same time,
\* nobody does.
EarlyLossIsByKeyExpiry ==
  \A k \in SlotKey, h \in Holder :
    promised[k][h] > clock /\ h \notin Live(k) => h \in curtailed[k]
=============================================================================
