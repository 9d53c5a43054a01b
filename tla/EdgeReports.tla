------------------------------ MODULE EdgeReports ------------------------------
(***************************************************************************)
(* What an edge check says of a listener's exit: the answer of the canary  *)
(* that is asked through it (proxy_edge_canary.go), folded with a fraud    *)
(* report of the address into one level (proxycheck/edge_access.go), and   *)
(* the level that callers of the contracts' gRPC service are told          *)
(* (contracts_gateway.go). When a check is made and how long it is kept is *)
(* in ExitChecks.                                                          *)
(***************************************************************************)
EXTENDS FraudReports

\* From weakest to strongest.
EdgeLevels == <<"unsupported", "unknown", "low", "medium", "high", "challenge", "block">>
EdgeRank(level) == RankIn(EdgeLevels, level)
MaxEdgeRisk(current, next) == Stronger(EdgeRank, current, next)

-----------------------------------------------------------------------------
(* The canary.                                                            *)

CanaryOutcome(level, score, signal) == [level |-> level, score |-> score, signal |-> signal]
EdgeUnavailable == CanaryOutcome("unknown", 0, "unavailable")

\* The answer is empty if none could be read. A page that challenges the
\* reader is told by its words, whatever its status.
RunEdgeCanary(canary, answer) ==
  IF ~(canary.enabled /\ canary.url /\ canary.token)
  THEN CanaryOutcome("unsupported", 0, "unsupported")
  ELSE IF answer = <<>> THEN EdgeUnavailable
  ELSE IF answer[1].challenged THEN CanaryOutcome("challenge", 85, "challenged")
  ELSE CASE answer[1].status = 429 -> CanaryOutcome("high", 70, "limited")
         [] answer[1].status = 403 -> CanaryOutcome("block", 90, "blocked")
         [] answer[1].status \in 200..299 -> CanaryOutcome("low", 0, "passed")
         [] OTHER -> EdgeUnavailable

-----------------------------------------------------------------------------
(* The fold.                                                              *)

EdgeSignals(fraud, mismatch) ==
  {x \in {"datacenter"} : fraud.signals \cap {"datacenter", "hosting"} # {}}
    \cup {x \in {"anonymizer"} : fraud.signals \cap {"proxy", "vpn", "tor"} # {}}
    \cup {x \in {"reputation"} : fraud.level \in {"high", "critical"}}
    \cup {x \in {"geo mismatch"} : mismatch}

CountryMismatch(actual, expected) == actual # "" /\ expected # "" /\ actual # expected

EdgeRiskFromIP(level) ==
  IF level = "critical" THEN "high" ELSE IF level = "unsupported" THEN "unknown" ELSE level

EdgeRiskFromScore(score) ==
  IF score >= 80 THEN "high" ELSE IF score >= 50 THEN "medium"
  ELSE IF score > 0 THEN "low" ELSE "unknown"

\* Without a canary nothing else counts. A low risk is not vouched for when
\* the canary could not be reached.
BuildEdgeAccessCheck(fraud, expected, outcome) ==
  LET mismatch == CountryMismatch(fraud.country, expected)
      score    == Max({ClampScore(fraud.score), outcome.score, IF mismatch THEN 60 ELSE 0})
      level    == MaxEdgeRisk(MaxEdgeRisk(EdgeRiskFromScore(score), EdgeRiskFromIP(fraud.level)),
                              outcome.level)
  IN IF outcome.level = "unsupported"
     THEN [level |-> outcome.level, score |-> ClampScore(fraud.score), signals |-> {outcome.signal}]
     ELSE [level   |-> IF outcome.signal = "unavailable" /\ level = "low" THEN "unknown" ELSE level,
           score   |-> score,
           signals |-> EdgeSignals(fraud, mismatch) \cup {outcome.signal}]

\* CheckProxyEdgeAccess folds the outcome with a report that says nothing: no
\* fraud provider is asked, and the country expected meets no country.
EdgeBaseFraudCheck == [level |-> "low", score |-> 0, signals |-> {}, country |-> ""]
CheckEdge(outcome, expected) == BuildEdgeAccessCheck(EdgeBaseFraudCheck, expected, outcome)

\* The contracts know fewer levels.
MapEdgeRiskLevel(level) ==
  IF level \in {"high", "block", "challenge"} THEN "high"
  ELSE IF level \in {"unknown", "unsupported"} THEN "unknown" ELSE level

-----------------------------------------------------------------------------
(* What the fold promises.                                                *)

\* What the canary met is told apart by the level alone, which is all that is
\* shown of a kept check: two checks of one level have one signal
\* (edge_access.go:26-86).
CanaryToldApart(o1, o2) ==
  CheckEdge(o1, "").level = CheckEdge(o2, "").level => o1.signal = o2.signal

\* With a canary the level is never milder than the canary's, the fraud report's
\* or the score's, but for the low risk nobody vouched for; and what is told to
\* callers of the contracts keeps the order of the levels.
EdgeNotMilder(fraud, expected, outcome) ==
  LET check == BuildEdgeAccessCheck(fraud, expected, outcome)
      told(level) == RankIn(<<"unknown", "low", "medium", "high">>, MapEdgeRiskLevel(level))
  IN outcome.level # "unsupported" /\ check.level # "unknown" =>
       \A level \in {outcome.level, EdgeRiskFromIP(fraud.level), EdgeRiskFromScore(check.score)} :
         EdgeRank(check.level) >= EdgeRank(level) /\ told(check.level) >= told(level)
=============================================================================
