------------------------------ MODULE MCServices ------------------------------
(* The services beside the lease lifecycle and the driver, each with its    *)
(* instance. They have no variable in common, so one run checks them one    *)
(* beside the other: the initial state says which of them moves, and the    *)
(* others rest. Every property is checked in all states of its component.   *)
EXTENDS MCSettingsApply, ConcurrencyLimiter, RuntimeLock, EndpointSelection,
        ExitChecks, FraudLookups, MihomoRendering, ProviderAccounts, LeaseTerms,
        ControlAuth, ConnectionCleanup, EdgeReports

VARIABLE part    \* the component that moves

-----------------------------------------------------------------------------
(* Limiter: a policy that counts as rotating.                             *)
MCAskedPolicy == {[mode |-> "sticky", rotation |-> "per_request"]}

(* Endpoints: two accounts of one provider, one bound to an instance, and   *)
(* one account whose provider has no adapter; two endpoints in one region.  *)
AnAccount(id, provider, instance) ==
  [id |-> id, provider |-> provider, instance |-> instance, usable |-> TRUE]
AnInstance(id, provider, endpoints, sticky) ==
  [id |-> id, provider |-> provider, endpoints |-> endpoints, sticky |-> sticky, rotating |-> 2]
AnAsk(country, region, endpoint, max) ==
  [country |-> country, region |-> region, mode |-> "sticky", instance |-> "",
   endpoint |-> endpoint, seed |-> 1, max |-> max]

MCAccountList == <<AnAccount("a1", "p", ""), AnAccount("a2", "p", "i1"), AnAccount("a3", "q", "")>>
MCInstanceList == <<AnInstance("i1", "p", <<"e1", "e2">>, 1), AnInstance("i2", "q", <<"e3">>, 2)>>
\* A host that names its country, one whose address tells it, and one whose
\* domain ends in the code of a country. Three letters may be a country's, too.
MCHostOf == [
  e1 |-> [words |-> {"US"}, addresses |-> <<"private">>],
  e2 |-> [words |-> {"COM"}, addresses |-> <<"private", "x">>],
  e3 |-> [words |-> {"NA"}, addresses |-> <<>>]]
MCAlpha == [US |-> "US", USA |-> "US", CA |-> "CA", COM |-> "KM", KM |-> "KM", NA |-> "NA"]
MCContinentOf == [US |-> "NA", CA |-> "NA", KM |-> "AF", NA |-> "AF"]
MCPublic == {"x"}
AGeoProvider(weight, anonymous, tokens, country) ==
  [weight |-> weight, anonymous |-> anonymous, keys |-> tokens,
   places |-> [x |-> [country |-> country, region |-> ""]]]
MCGeoProviders == <<AGeoProvider(80, FALSE, <<"refused", "good">>, "CA")>>
MCRequests == {AnAsk("", "", AnyEndpoint, 3), AnAsk("US", "", AnyEndpoint, 2), AnAsk("CA", "CA", "e2", 2)}
MCProfileAsks == AnAsk("US", "US", AnyEndpoint, 0)
MCHashOf == [a1 |-> 2, a2 |-> 1, a3 |-> 1]

(* Fraud checks: one provider with two keys. What several of them make      *)
(* together is checked over all pairs of reports.                           *)
AnAnswer(flags, points, risk) ==
  [said |-> flags, score |-> points, risk |-> risk, usage |-> {}, country |-> "US"]
MCKeyCount == <<2>>
MCKindOf == <<"abuseipdb">>
MCAnswersOf == <<{AnAnswer({"tor"}, <<80>>, "unknown")}>>

\* The merge, over all pairs of reports that these answers make.
MCAnswers ==
  [said : {{}, {"tor", "hosting"}, {"mobile"}, {"vpn", "reported"}},
   score : {<<>>, <<-5>>, <<45>>, <<120>>}, risk : {"unknown", "medium"},
   usage : {{}, {"datacenter"}, {"isp", "mobile"}}, country : {"US"}]
MCFraudKinds == {"ipapi", "ipqualityscore", "abuseipdb"}
MCReports == {ParseReport(k, a) @@ [by |-> 1] : k \in MCFraudKinds, a \in MCAnswers}

ASSUME MergeAssumption == \A r, s \in MCReports : Unordered(r, s) /\ NotOutvoted(r, s)
ASSUME FlagAssumption == \A k \in MCFraudKinds, a \in MCAnswers : FlaggedNotLow(k, a)

\* The edge checks, over everything a canary may meet.
MCOutcomes ==
  {RunEdgeCanary([enabled |-> on, url |-> TRUE, token |-> given], answer) :
     on \in BOOLEAN, given \in BOOLEAN,
     answer \in {<<>>} \cup {<<a>> : a \in [status : {200, 302, 403, 404, 429, 503},
                                         challenged : BOOLEAN]}}

ASSUME EdgeAssumption ==
  /\ \A o, n \in MCOutcomes : CanaryToldApart(o, n)
  /\ \A r \in MCReports, o \in MCOutcomes, country \in {"", "US", "CA"} :
       EdgeNotMilder(MergeReports(<<r>>), country, o)

(* Rendering: two files of nodes, two settings, sessions.                   *)
AFileNode(id, name) == [id |-> id, name |-> name]
ARef(name, of, leaf) == [resource |-> name, of |-> of, leaf |-> leaf]
AnExit(id, name, line, lineRef, exit, exitRef) ==
  [id |-> id, name |-> name, line |-> line, lineRef |-> lineRef,
   exit |-> exit, exitRef |-> exitRef, provider |-> ""]
AUser(name, profile) ==
  [name |-> name, password |-> "pw", route |-> "profile", profile |-> profile]
APoolNode(id, profile) == [id |-> id, profile |-> profile, provider |-> "d"]
ASession(id, user, node, profile) ==
  [id |-> id, user |-> user, password |-> "sp", nodes |-> <<node>>, profile |-> profile]

MCNodeFiles == {
  [fixed |-> <<AFileNode("f1", "x")>>, subs |-> <<AFileNode("i1", "s")>>],
  [fixed |-> <<AFileNode("f1", "y")>>, subs |-> <<>>]}

\* Two profiles have one display name, and a third the name that the second
\* of them is given; one exit has no node.
MCSettingsFiles == {
  [profiles |-> <<AnExit("A", "T", "direct", NoRef, "direct", NoRef),
                  AnExit("B", "T", "node", ARef("s", "i1", "l"), "dynamic", NoRef),
                  AnExit("C", "", "direct", NoRef, "dynamic", NoRef)>>,
   users |-> <<AUser("ua", "A"), AUser("ub", "B"), AUser("uc", "C")>>,
   pool |-> <<APoolNode("n1", "B"), APoolNode("n2", "B")>>],
  [profiles |-> <<AnExit("A", "T", "node", ARef("f1", "", "x"), "direct", NoRef),
                  AnExit("B", "T", "node", ARef("x", "", "x"), "dynamic", NoRef),
                  AnExit("C", "T 2", "direct", NoRef, "static", ARef("s", "s", "l"))>>,
   users |-> <<AUser("ua", "A"), AUser("ub", "B"), AUser("uc", "C"),
               [AUser("ud", "") EXCEPT !.route = "direct"]>>,
   pool |-> <<APoolNode("n1", "B")>>]}

\* Two session ids that are the same once cleaned; a session with the name of
\* a user; one whose node cannot be rendered.
MCSessionRoutes == {
  ASession("s.1", "acct-1", "g1", "B"), ASession("s-1", "acct-2", "g2", "B"),
  ASession("s-2", "uc", "g1", "B"), ASession("s-2", "acct-3", "bad", "B")}
MCSessionOrder == <<"s-1", "s-2", "s.1">>
MCSafe == [x \in {"s-1", "s-2", "s.1", "g1", "g2", "bad", "n1", "n2"} |-> IF x = "s.1" THEN "s-1" ELSE x]

(* Accounts: one account, of which a request changes the name, the          *)
(* password, or clears it and disables the account.                         *)
AnUpdate(user, password, clear, on) ==
  [user |-> user, password |-> password, clear |-> clear, on |-> on]
MCLeaseAccount == [l \in AccountLease |-> "acc"]
MCAccountRequests == {AnUpdate("m", "", FALSE, TRUE), AnUpdate("", "q", FALSE, TRUE),
                      AnUpdate("", "", TRUE, FALSE)}
MCFirstRow == [a \in ProviderAccount |-> [user |-> "n", pass |-> TRUE, on |-> TRUE]]
MCFirstSecret == [a \in ProviderAccount |-> "p"]

(* Terms: a profile, reached by its id or by a user of it, and the          *)
(* playground; a time of one and a half minutes; settings that lose the     *)
(* passwords and a gateway, or its address.                                 *)
ATermsAsk(account, purpose, mode, ttl, labels, force) ==
  [account |-> account, purpose |-> purpose, mode |-> mode, region |-> "", ttl |-> ttl,
   labels |-> labels, force |-> force]
ARelease(id, account, purpose) == [lease |-> id, account |-> account, purpose |-> purpose]
ATermsRule(id, user, profile, pass) ==
  [id |-> id, user |-> user, profile |-> profile, pass |-> pass, on |-> TRUE]
AGateway(id, url) == [id |-> id, url |-> url]
MCTermsProfiles(session) == {
  [id |-> "A", on |-> TRUE, dynamic |-> TRUE, mode |-> "sticky", region |-> "US", ttl |-> 0,
   session |-> session],
  [id |-> "B", on |-> TRUE, dynamic |-> FALSE, mode |-> "", region |-> "", ttl |-> 0, session |-> ""]}

MCLeaseAsks == {
  ATermsAsk("ua", "in-user-profile", "", 3, <<>>, FALSE),
  ATermsAsk("A", "in-user-profile", "sticky", 7, <<"", "s", "other">>, TRUE),
  ATermsAsk("B", "in-user-profile", "sticky", 3, <<>>, FALSE),
  ATermsAsk("playground-egress", "", "rotating", 0, <<>>, FALSE),
  ContractAsk([purpose |-> "in-user-profile", country |-> "US", state |-> "", policy |-> TRUE,
               sticky |-> FALSE, ttl |-> 3])}

MCReleaseAsks == {
  ARelease("", "A", ""), ARelease("", "playground-egress", "general"),
  ARelease("", "playground-egress", "dashboard"), ARelease("", "", "general")}
    \cup {ARelease(l, "A", "in-user-profile") : l \in TermLease}

MCTermSettings == {
  [profiles |-> MCTermsProfiles(""),
   rules |-> <<ATermsRule("r1", "ua", "A", "p1"), ATermsRule("in-user-playground", "me", "", "p2")>>,
   gateways |-> <<AGateway("g1", "x"), AGateway("g2", "y")>>],
  [profiles |-> MCTermsProfiles("own"),
   rules |-> <<ATermsRule("r1", "ua", "A", "")>>,
   gateways |-> <<AGateway("g1", ""), AGateway("g3", "z")>>]}

(* Control plane: a page, a program's request and a service's, and a path   *)
(* of services that a browser may open as a page.                           *)
ARequest(path, under, method, html, bearer) ==
  [path |-> path, under |-> under, method |-> method, html |-> html, bearer |-> bearer]
MCAsked == {
  ARequest("", "", "GET", TRUE, FALSE),
  ARequest("/mihomo/controller/logs", "/mihomo/controller", "GET", FALSE, FALSE),
  ARequest("/api/leases/acquire", "/api", "POST", FALSE, TRUE),
  ARequest("/api/leases/acquire", "/api", "POST", FALSE, FALSE),
  ARequest("/api/proxy_exit_check_snapshot", "/api", "GET", TRUE, FALSE)}

-----------------------------------------------------------------------------
serviceVars == <<limiterVars, lockVars, selection, allVars, checkVars, fraudVars, renderVars,
                 accountVars, termVars, authVars, connectionVars>>

ServicesInit ==
  /\ part \in {"limiter", "lock", "selection", "settings", "checks", "fraud", "render",
              "accounts", "terms", "auth", "connections"}
  /\ LimiterInit
  /\ LockInit
  /\ SelectionInit
  /\ ApplyInit
  /\ ChecksInit
  /\ FraudInit
  /\ RenderInit
  /\ AccountsInit
  /\ TermsInit
  /\ AuthInit
  /\ ConnectionsInit
  \* One that rests has one initial state.
  /\ part # "settings" => doc = EmptyDoc
  /\ part # "auth" => control = 0 /\ ~service
  /\ part # "terms" => termsDoc = CHOOSE d \in MCTermSettings : TRUE
  /\ part # "render" => /\ saved = CHOOSE f \in MCNodeFiles : TRUE
                        /\ stored = CHOOSE f \in MCSettingsFiles : TRUE

ServicesNext ==
  /\ UNCHANGED part
  /\ \/ /\ part = "limiter" /\ LimiterNext
        /\ UNCHANGED <<lockVars, selection, allVars, checkVars, fraudVars,
                      renderVars, accountVars, termVars, authVars, connectionVars>>
     \/ /\ part = "lock" /\ LockNext
        /\ UNCHANGED <<limiterVars, selection, allVars, checkVars, fraudVars,
                      renderVars, accountVars, termVars, authVars, connectionVars>>
     \/ /\ part = "selection" /\ SelectionNext
        /\ UNCHANGED <<limiterVars, lockVars, allVars, checkVars, fraudVars,
                      renderVars, accountVars, termVars, authVars, connectionVars>>
     \/ /\ part = "settings" /\ ApplyNext
        /\ UNCHANGED <<limiterVars, lockVars, selection, checkVars, fraudVars,
                      renderVars, accountVars, termVars, authVars, connectionVars>>
     \/ /\ part = "checks" /\ ChecksNext
        /\ UNCHANGED <<limiterVars, lockVars, selection, allVars, fraudVars,
                      renderVars, accountVars, termVars, authVars, connectionVars>>
     \/ /\ part = "fraud" /\ FraudNext
        /\ UNCHANGED <<limiterVars, lockVars, selection, allVars, checkVars,
                      renderVars, accountVars, termVars, authVars, connectionVars>>
     \/ /\ part = "render" /\ RenderNext
        /\ UNCHANGED <<limiterVars, lockVars, selection, allVars, checkVars,
                      fraudVars, accountVars, termVars, authVars, connectionVars>>
     \/ /\ part = "accounts" /\ AccountsNext
        /\ UNCHANGED <<limiterVars, lockVars, selection, allVars, checkVars,
                      fraudVars, renderVars, termVars, authVars, connectionVars>>
     \/ /\ part = "terms" /\ TermsNext
        /\ UNCHANGED <<limiterVars, lockVars, selection, allVars, checkVars,
                      fraudVars, renderVars, accountVars, authVars, connectionVars>>
     \/ /\ part = "auth" /\ AuthNext
        /\ UNCHANGED <<limiterVars, lockVars, selection, allVars, checkVars,
                      fraudVars, renderVars, accountVars, termVars, connectionVars>>
     \/ /\ part = "connections" /\ ConnectionsNext
        /\ UNCHANGED <<limiterVars, lockVars, selection, allVars, checkVars,
                      fraudVars, renderVars, accountVars, termVars, authVars>>

ServicesSpec == ServicesInit /\ [][ServicesNext]_<<part, serviceVars>>

ServicesTypeOK ==
  /\ LimiterTypeOK /\ LockTypeOK /\ SelectionTypeOK /\ ApplyTypeOK
  /\ ChecksTypeOK /\ FraudTypeOK /\ AccountsTypeOK /\ TermsTypeOK
  /\ AuthTypeOK /\ ConnectionsTypeOK
=============================================================================
