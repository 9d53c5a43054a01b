----------------------------- MODULE FraudReports -----------------------------
(***************************************************************************)
(* What a fraud provider's answer says, made uniform (classify.go,         *)
(* abuseipdb.go, ipapi.go, ipqualityscore.go of internal/ipfraud), and the *)
(* one verdict that the reports of several are merged into (normalize.go). *)
(*                                                                         *)
(* An answer is [said, score, risk, usage, country]: the flags it sets,    *)
(* its score if it has one, its word for the risk, the kinds of network    *)
(* whose words its usage text contains, and the place it names.            *)
(***************************************************************************)
EXTENDS Integers, FiniteSetsExt, SequencesExt

Flag == {"bogon", "datacenter", "hosting", "proxy", "vpn", "tor", "abuser", "crawler",
         "mobile", "satellite", "broadcast", "anycast"}

\* From weakest to strongest.
Networks == <<"unknown", "residential", "isp", "business", "mobile", "satellite",
              "anycast", "broadcast", "datacenter">>
Anonymizers == <<"unknown", "none", "crawler", "proxy", "vpn", "tor">>
Levels == <<"unsupported", "unknown", "low", "medium", "high", "critical">>

RankIn(order, x) == IF x \in ToSet(order) THEN CHOOSE i \in DOMAIN order : order[i] = x ELSE 0
NetworkRank(kind) == RankIn(Networks, kind)
AnonymizerRank(kind) == RankIn(Anonymizers, kind)
RiskRank(level) == RankIn(Levels, level)

-----------------------------------------------------------------------------
(* One report.                                                            *)

\* The words of a usage text are looked for in this order.
ClassifyNetwork(usage) ==
  LET order == <<"datacenter", "mobile", "residential", "satellite", "broadcast",
                 "anycast", "business", "isp">>
      found == {i \in DOMAIN order : order[i] \in usage}
  IN IF found = {} THEN "unknown" ELSE order[Min(found)]

NetworkWithFlags(base, flags) ==
  LET kinds == {base} \cup (flags \cap {"mobile", "satellite", "broadcast", "anycast"})
                 \cup {k \in {"datacenter"} : {"datacenter", "hosting"} \cap flags # {}}
  IN CHOOSE k \in kinds : \A l \in kinds : NetworkRank(l) <= NetworkRank(k)

ClassifyAnonymizer(flags) ==
  CASE "tor" \in flags -> "tor"
    [] "tor" \notin flags /\ "vpn" \in flags -> "vpn"
    [] flags \cap {"tor", "vpn"} = {} /\ "proxy" \in flags -> "proxy"
    [] flags \cap {"tor", "vpn", "proxy"} = {} /\ "crawler" \in flags -> "crawler"
    [] OTHER -> "none"

FlagScore == [bogon |-> 95, tor |-> 90, abuser |-> 85, vpn |-> 75, proxy |-> 70, crawler |-> 60,
              datacenter |-> 55, hosting |-> 55, broadcast |-> 50, anycast |-> 50,
              satellite |-> 45, mobile |-> 15]
ScoreFromFlags(flags) == Max({FlagScore[f] : f \in flags} \cup {0})

ClampScore(score) == IF score < 0 THEN 0 ELSE IF score > 100 THEN 100 ELSE score

ReportWith(answer, flags, anonymous, level, default) ==
  [network    |-> NetworkWithFlags(ClassifyNetwork(answer.usage), flags),
   anonymizer |-> ClassifyAnonymizer(flags \cap anonymous),
   level      |-> level,
   score      |-> ClampScore(IF answer.score = <<>> THEN default ELSE answer.score[1]),
   signals    |-> flags,
   country    |-> answer.country]

\* ipapi.is sets all flags; IPQualityScore knows some, and takes a connection
\* of a data center for hosting. Without a score it is that of the flags.
ParseIPAPI(answer) ==
  LET flags == answer.said \cap Flag IN
  ReportWith(answer, flags, Flag, answer.risk, ScoreFromFlags(flags))

ParseIPQualityScore(answer) ==
  LET hosted == {f \in {"datacenter", "hosting"} :
                   "hosting" \in answer.said \/ "datacenter" \in answer.usage}
      flags == hosted \cup (answer.said \cap {"proxy", "vpn", "tor", "abuser", "crawler", "mobile"})
  IN ReportWith(answer, flags, Flag, answer.risk, ScoreFromFlags(flags))

\* AbuseIPDB has a score of its own and counts of reports, and no word for the
\* risk: an address that was ever reported is an abuser's, whatever its score.
ParseAbuseIPDB(answer) ==
  LET flags == {f \in {"datacenter", "hosting"} : "datacenter" \in answer.usage}
                 \cup ({"mobile"} \cap answer.usage)
                 \cup (answer.said \cap {"tor", "crawler"})
                 \cup {f \in {"abuser"} : \/ "reported" \in answer.said
                                          \/ answer.score # <<>> /\ answer.score[1] > 0}
  IN ReportWith(answer, flags, {"tor", "crawler"}, "unknown", 0)

ParseReport(kind, answer) ==
  CASE kind = "ipapi" -> ParseIPAPI(answer)
    [] kind = "ipqualityscore" -> ParseIPQualityScore(answer)
    [] kind = "abuseipdb" -> ParseAbuseIPDB(answer)

-----------------------------------------------------------------------------
(* The verdict.                                                           *)

LevelFromScore(score) ==
  IF score >= 90 THEN "critical" ELSE IF score >= 70 THEN "high"
  ELSE IF score >= 40 THEN "medium" ELSE "low"

\* A report without level has that of its score.
NormalLevel(report) ==
  IF report.level # "unknown" THEN report.level ELSE LevelFromScore(report.score)

Stronger(Rank(_), current, other) == IF Rank(other) > Rank(current) THEN other ELSE current
FirstSaid(current, other) == IF current = "" THEN other ELSE current

NoReports == [network |-> "unknown", anonymizer |-> "unknown", level |-> "unknown", score |-> 0,
              signals |-> {}, country |-> "", by |-> 0]

\* One more report: the strongest of each kind counts, each for itself, and the
\* provider of the last that raised level or score is named.
MergeReport(verdict, report) ==
  LET level == NormalLevel(report) IN
  [network    |-> Stronger(NetworkRank, verdict.network, report.network),
   anonymizer |-> Stronger(AnonymizerRank, verdict.anonymizer, report.anonymizer),
   level      |-> Stronger(RiskRank, verdict.level, level),
   score      |-> IF report.score > verdict.score THEN report.score ELSE verdict.score,
   signals    |-> verdict.signals \cup report.signals,
   country    |-> FirstSaid(verdict.country, report.country),
   by         |-> IF RiskRank(level) > RiskRank(verdict.level) \/ report.score > verdict.score
                  THEN report.by ELSE verdict.by]

\* The verdict after the first n reports.
Merging(reports) ==
  LET verdict[n \in 0..Len(reports)] ==
        IF n = 0 THEN NoReports ELSE MergeReport(verdict[n - 1], reports[n])
  IN verdict

\* What nobody said anything of is then known: no anonymizer, a low risk.
MergeReports(reports) ==
  LET merged == Merging(reports)[Len(reports)] IN
  IF reports = <<>> THEN NoReports
  ELSE [merged EXCEPT
    !.by = IF @ = 0 THEN Head(reports).by ELSE @,
    !.anonymizer = IF @ = "unknown" /\ merged.signals = {} THEN "none" ELSE @,
    !.level = IF @ = "unknown" /\ merged.score = 0 THEN "low" ELSE @]

-----------------------------------------------------------------------------
(* What the merge promises, for reports of given answers.                  *)

\* Reports may come in any order, as weights and failures of providers change:
\* what is said of the address is the same, and only who is named for it, and
\* the place, depend on the order (normalize.go:11-69).
Unordered(r1, r2) ==
  LET one == MergeReports(<<r1, r2>>)
      two == MergeReports(<<r2, r1>>)
  IN \A x \in DOMAIN one \ {"by", "country"} : one[x] = two[x]

\* No report is outvoted: the verdict is never milder than one of them, and
\* names no level or score that none of them gave.
NotOutvoted(r1, r2) ==
  LET v == MergeReports(<<r1, r2>>) IN
  /\ \A r \in {r1, r2} : v.score >= r.score /\ RiskRank(v.level) >= RiskRank(NormalLevel(r))
  /\ v.score \in {r1.score, r2.score} /\ v.level \in {NormalLevel(r1), NormalLevel(r2)}

\* A flagged address without score and word is never low, unless mobile is all
\* that is said of it (classify.go:80-106).
FlaggedNotLow(kind, answer) ==
  LET r == ParseReport(kind, answer) IN
  kind # "abuseipdb" /\ answer.score = <<>> /\ answer.risk = "unknown"
    /\ r.signals \ {"mobile"} # {} => RiskRank(NormalLevel(r)) >= RiskRank("medium")
=============================================================================
