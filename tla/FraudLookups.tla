----------------------------- MODULE FraudLookups -----------------------------
(***************************************************************************)
(* A fraud checker (internal/ipfraud): its providers are asked one after   *)
(* the other, each with the next of its keys that is not resting; a key    *)
(* whose quota is used up rests and the next one is tried. What they       *)
(* report is merged into one verdict, which is kept for a while, also when *)
(* none of them answered. Lookups share the keys and the verdict.          *)
(*                                                                         *)
(* A request is sent by the retrying transport of internal/runtimehttp,    *)
(* which repeats it on an answer that may pass, or on none: "quota" below  *)
(* is 429 or another answer of that kind that says so, "other" one that    *)
(* does not, or none. All its attempts share the client's timeout.         *)
(*                                                                         *)
(* What an answer says and how reports are merged is in FraudReports.      *)
(***************************************************************************)
EXTENDS FraudReports

CONSTANTS
  FraudLookup,   \* lookups in progress, of one address
  KeyCount,      \* KeyCount[p] = keys of the p-th provider, by weight
  KindOf,        \* KindOf[p] = which service that is
  AnswersOf,     \* AnswersOf[p] = what it may answer
  Cooldown,      \* how long a key rests if the provider does not say
  RetryAfters,   \* what a provider may say of when to come back, 0 for nothing
  MaxSends,      \* defaultRetryPolicy.maxAttempts
  MaxBackoff,    \* defaultRetryPolicy.maxBackoff
  ClientTimeout, \* the timeout of the HTTP client
  VerdictTTL,    \* how long a verdict is kept
  MaxLookups, MaxMoment   \* BOUNDS: lookups, and how far time goes

\* A provider without keys is asked without one.
ASSUME FraudAssumption ==
  /\ \A p \in DOMAIN KeyCount : KeyCount[p] \in Nat \ {0}
  /\ Cooldown \in Nat \ {0} /\ VerdictTTL \in Nat \ {0} /\ RetryAfters \subseteq Nat
  /\ MaxSends \in Nat \ {0} /\ MaxBackoff \in Nat /\ ClientTimeout \in Nat \ {0}

VARIABLES
  moment,   \* now
  rests,    \* rests[p][k] = until when a key of provider p rests
  next,     \* next[p] = the key to look at first
  lookup,   \* lookup[c]: where a lookup is
  kept,     \* the verdict that is kept: [verdict, end]
  lookups   \* lookups so far

fraudVars == <<moment, rests, next, lookup, kept, lookups>>

\* A request was sent so often, waits until then, is over by that time, and
\* was answered last like this. began, tried: HISTORY
IdleLookup == [at |-> "idle", provider |-> 0, attempt |-> 0, key |-> 0, reports |-> <<>>,
               sends |-> 0, until |-> 0, by |-> 0, last |-> "none", after |-> 0,
               began |-> 0, tried |-> {}]

Keys(p) == 0..(KeyCount[p] - 1)

Nothing == [verdict |-> NoReports, end |-> 0]

-----------------------------------------------------------------------------
(* A lookup.                                                              *)

FraudInit ==
  /\ moment = 1 /\ lookups = 0 /\ kept = Nothing
  /\ rests = [p \in DOMAIN KeyCount |-> [k \in Keys(p) |-> 0]]
  /\ next = [p \in DOMAIN KeyCount |-> 0]
  /\ lookup = [c \in FraudLookup |-> IdleLookup]

\* A verdict that is kept is the answer.
StartLookup(c) ==
  /\ lookup[c].at = "idle" /\ lookups < MaxLookups
  /\ IF kept.end > moment THEN UNCHANGED <<lookup, kept>>
     ELSE /\ kept' = Nothing
          /\ lookup' = [lookup EXCEPT ![c] = [IdleLookup EXCEPT
               !.at = "ask", !.provider = 1, !.began = moment]]
  /\ lookups' = lookups + 1
  /\ UNCHANGED <<moment, rests, next>>

\* nextAvailable: the keys from next on, round the ring.
Awake(p) == {i \in Keys(p) : rests[p][(next[p] + i) % KeyCount[p]] <= moment}
NextKey(p) == (next[p] + (CHOOSE i \in Awake(p) : \A j \in Awake(p) : i <= j)) % KeyCount[p]

OnTo(c, reports) ==
  lookup' = [lookup EXCEPT ![c] = [IdleLookup EXCEPT
    !.at = "ask", !.provider = lookup[c].provider + 1, !.reports = reports, !.began = moment]]

ExhaustedBefore(c, p) == lookup[c].attempt = KeyCount[p] - 1 \/ Awake(p) = {}

\* As many attempts as there are keys.
Exhausted(c, p) == lookup[c].attempt = KeyCount[p] \/ Awake(p) = {}

TakeKey(c) ==
  LET p == lookup[c].provider IN
  /\ lookup[c].at = "ask" /\ p \in DOMAIN KeyCount
  /\ IF Exhausted(c, p) THEN OnTo(c, lookup[c].reports) /\ UNCHANGED next
     ELSE /\ lookup' = [lookup EXCEPT ![c] = [lookup[c] EXCEPT
               !.at = "sent", !.sends = 1, !.by = moment + ClientTimeout,
               !.key = NextKey(p), !.tried = @ \cup {NextKey(p)}]]
          /\ next' = [next EXCEPT ![p] = (NextKey(p) + 1) % KeyCount[p]]
  /\ UNCHANGED <<moment, rests, kept, lookups>>

ReportOf(p, answer) == ParseReport(KindOf[p], answer) @@ [by |-> p]

\* The provider reports, or refuses for good, or says that it failed.
Reported(c) ==
  /\ lookup[c].at = "sent"
  /\ \/ \E a \in AnswersOf[lookup[c].provider] :
          OnTo(c, Append(lookup[c].reports, ReportOf(lookup[c].provider, a)))
     \/ OnTo(c, lookup[c].reports)
  /\ UNCHANGED <<moment, rests, next, kept, lookups>>

\* How long a key rests that may be tried again after some time, or never said.
Rest(retryAfter) == IF retryAfter > 0 THEN retryAfter ELSE Cooldown

\* Only a quota that is used up lets another key be tried.
UsedUp(c, retryAfter) ==
  /\ rests' = [rests EXCEPT ![lookup[c].provider][lookup[c].key] = moment + Rest(retryAfter)]
  /\ lookup' = [lookup EXCEPT ![c] = [lookup[c] EXCEPT
       !.at = "ask", !.attempt = @ + 1, !.key = 0, !.sends = 0, !.by = 0,
       !.last = "none", !.after = 0, !.until = 0]]

\* An answer that says so and is not worth a second attempt.
QuotaUsedUp(c) ==
  /\ lookup[c].at = "sent"
  /\ \E retryAfter \in RetryAfters : UsedUp(c, retryAfter)
  /\ UNCHANGED <<moment, next, kept, lookups>>

\* What an answer says of the time to wait is followed up to MaxBackoff; a
\* backoff of less than a second is no time here.
Backoff(retryAfter) == IF retryAfter > MaxBackoff THEN MaxBackoff ELSE retryAfter

\* retryTransport: an answer that may pass is waited out, but for the last.
MayPass(c) ==
  /\ lookup[c].at = "sent"
  /\ \E answer \in {"quota", "other"}, retryAfter \in RetryAfters :
       lookup' = [lookup EXCEPT ![c] = [lookup[c] EXCEPT
         !.at = "wait", !.last = answer,
         !.after = IF answer = "quota" THEN retryAfter ELSE 0,
         !.until = IF lookup[c].sends < MaxSends THEN moment + Backoff(retryAfter) ELSE 0]]
  /\ UNCHANGED <<moment, rests, next, kept, lookups>>

LastIsQuotaNever(c) == FALSE
LastIsQuota(c) == lookup[c].last = "quota"

\* The last answer is that of the request.
LastAnswer(c) ==
  /\ lookup[c].at = "wait" /\ lookup[c].sends = MaxSends
  /\ IF LastIsQuota(c) THEN UsedUp(c, lookup[c].after)
     ELSE OnTo(c, lookup[c].reports) /\ UNCHANGED rests
  /\ UNCHANGED <<moment, next, kept, lookups>>

SendAgain(c) ==
  /\ lookup[c].at = "wait" /\ lookup[c].sends < MaxSends
  /\ lookup[c].until <= moment /\ moment < lookup[c].by
  /\ lookup' = [lookup EXCEPT ![c] = [lookup[c] EXCEPT !.at = "sent", !.sends = @ + 1, !.until = 0]]
  /\ UNCHANGED <<moment, rests, next, kept, lookups>>

\* The timeout of the client covers the waits; what was answered is lost.
RequestEnds(c) ==
  /\ lookup[c].at \in {"sent", "wait"} /\ lookup[c].by <= moment
  /\ OnTo(c, lookup[c].reports)
  /\ UNCHANGED <<moment, rests, next, kept, lookups>>

FinishLookup(c) ==
  /\ lookup[c].at = "ask" /\ lookup[c].provider \notin DOMAIN KeyCount
  /\ kept' = [verdict |-> MergeReports(lookup[c].reports), end |-> moment + VerdictTTL]
  /\ lookup' = [lookup EXCEPT ![c] = IdleLookup]
  /\ UNCHANGED <<moment, rests, next, lookups>>

\* No request goes on past its timeout.
MomentPasses ==
  /\ moment < MaxMoment /\ moment' = moment + 1
  /\ \A c \in FraudLookup : lookup[c].at \in {"sent", "wait"} => moment < lookup[c].by
  /\ UNCHANGED <<rests, next, lookup, kept, lookups>>

FraudNext ==
  \/ \E c \in FraudLookup :
       \/ StartLookup(c) \/ TakeKey(c) \/ Reported(c) \/ QuotaUsedUp(c) \/ MayPass(c)
       \/ SendAgain(c) \/ LastAnswer(c) \/ RequestEnds(c) \/ FinishLookup(c)
  \/ MomentPasses

FraudSpec == FraudInit /\ [][FraudNext]_fraudVars

-----------------------------------------------------------------------------
(* Properties.                                                            *)

\* A provider that gave no report is passed over for a cause. For its quota,
\* only when each of its keys has been resting since the lookup came to it, or
\* the lookup asked one key twice: it makes as many attempts as there are keys,
\* and when the rest of one is over meanwhile and others move the ring, that
\* key may get two of them. With a key, never when its last answer was that the
\* quota is used up, unless the waits between the attempts used up the timeout
\* of the client: that answer is lost then, and the key does not rest
\* (keyring.go, http_provider.go:46-66, runtimehttp/retry.go:46-80).
PassedOverForCause ==
  [][\A c \in FraudLookup :
       LET p == lookup[c].provider IN
       /\ p \in DOMAIN KeyCount /\ lookup'[c].provider = p + 1
       /\ lookup'[c].reports = lookup[c].reports
       => CASE lookup[c].at = "ask" -> \/ \A k \in Keys(p) : rests[p][k] > lookup[c].began
                                       \/ Cardinality(lookup[c].tried) # lookup[c].attempt
            [] lookup[c].at = "wait" -> lookup[c].last # "quota" \/ moment >= lookup[c].by
            [] OTHER -> TRUE]_fraudVars

FraudTypeOK ==
  /\ \A p \in DOMAIN KeyCount : next[p] \in Keys(p)
  /\ \A c \in FraudLookup : /\ lookup[c].at \in {"idle", "ask", "sent", "wait"}
                            /\ lookup[c].attempt \in Nat
=============================================================================
