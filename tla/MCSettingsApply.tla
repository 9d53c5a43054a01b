--------------------------- MODULE MCSettingsApply ---------------------------
(* Instances of SettingsApply: three users, two egress profiles, a node of  *)
(* each kind, and requests that check, rename, drop and refuse things.      *)
EXTENDS SettingsApply, TLC

NoRef == [resource |-> "", of |-> "", leaf |-> ""]
NodeRef(name, leaf) == [resource |-> name, of |-> name, leaf |-> leaf]

AProfile(id, line, lineRef, exit) ==
  [id |-> id, enabled |-> TRUE, line |-> line, lineRef |-> lineRef,
   exit |-> exit, exitRef |-> NoRef, provider |-> IF exit = "dynamic" THEN "dyn" ELSE "",
   endpoint |-> "", sticky |-> exit = "dynamic", session |-> ""]

ARule(id, user, profile) ==
  [id |-> id, user |-> user, password |-> "pw", profile |-> profile, enabled |-> TRUE]

AKey(kind, id, values) ==
  [kind |-> kind, id |-> id, values |-> values, refs |-> {}, clear |-> FALSE, anonymous |-> FALSE]

NoKeys == [f \in Family |-> <<>>]
FraudKeys(ins) == [NoKeys EXCEPT !["fraud"] = ins]

Request(api, profiles, rules, keysAsked) ==
  [api |-> api, profiles |-> profiles, rules |-> rules, dynamic |-> <<>>, keys |-> keysAsked,
   edge |-> [enabled |-> FALSE, url |-> "", token |-> "", clear |-> FALSE]]

PlainA == AProfile("A", "", NoRef, "direct")
PlainB == AProfile("B", "", NoRef, "direct")
DynamicB == AProfile("B", "", NoRef, "dynamic")

\* A refused document that has written a key; all rules but one dropped; a
\* profile that keeps a provider that the last request removes; rules whose
\* ids and users are exchanged.
MCSettingsRequests == {
  Request("all", <<PlainA>>, <<>>,
          FraudKeys(<<AKey("k", "", <<>>), AKey("k", "z", <<"v2">>), AKey("bad", "", <<"v3">>)>>)),
  Request("all", <<PlainA>>, <<ARule("", "u1", "A")>>,
          FraudKeys(<<AKey("k", "", <<>>), AKey("k", "z", <<"v2">>)>>)),
  Request("profiles", <<PlainA, DynamicB>>, <<>>, NoKeys),
  Request("rules", <<>>, <<ARule("r2", "u1", "A"), ARule("u1", "u1-session-7", "B")>>, NoKeys),
  Request("inUser", <<AProfile("A", "node", NodeRef("s", "x"), "direct"), PlainB>>,
          <<ARule("u1", "u1", "B"), ARule("r2", "u1-session-7", "B")>>, NoKeys),
  Request("dynamic", <<>>, <<>>, NoKeys)}

MCSessionOf == ("u1" :> "") @@ ("u1-session-7" :> "7") @@ ("" :> "")
MCDefaultId == [k |-> "k", bad |-> "bad"]
MCNumberedId == <<"rule-1", "rule-2">>

ANode(id, name, uri) == [id |-> id, name |-> name, uri |-> uri]

\* Two nodes are renamed, one of them gives no id, and the third is removed; or
\* all nodes are removed.
MCNativeRequests ==
  {[fixed |-> <<ANode("", "y", "p1")>>, sub |-> <<ANode("i", "t", "p2")>>]}
MCNativeClearing == {NoNodes}

MCStableId == [fixed |-> [p1 |-> "f-1", p2 |-> "f-2", p3 |-> "f-4", bad |-> "f-3"],
               sub   |-> [p1 |-> "s-1", p2 |-> "s-2", p3 |-> "s-4", bad |-> "s-3"]]

StoredKey == <<"fraud", "k", "k", 1>>
StoredNodes == [fixed |-> <<ANode("f-1", "x", "p1")>>, sub |-> <<ANode("i", "s", "p2"), ANode("j", "w", "p3")>>]
StoredDoc == [EmptyDoc EXCEPT
  !.keys["fraud"] = <<[kind |-> "k", id |-> "k", anonymous |-> FALSE, refs |-> {StoredKey}]>>,
  !.dynamic = <<[id |-> "dyn", provider |-> "dyn", endpoints |-> <<"e1">>]>>,
  !.profiles = <<AProfile("A", "node", NodeRef("x", ""), "direct"),
                 [DynamicB EXCEPT !.line = "node", !.lineRef = NodeRef("w", "x"), !.session = "7"]>>,
  !.rules = <<ARule("u1", "u1", "A"), ARule("r2", "u1-session-7", "B")>>]

\* A gateway that has run before, and a new one that finds a file with a node
\* that cannot be parsed.
MCInitialStores == {
  [doc |-> StoredDoc, secrets |-> (StoredKey :> "v1"), native |-> StoredNodes,
   file |-> StoredNodes],
  [doc |-> EmptyDoc, secrets |-> <<>>, native |-> NoNodes,
   file |-> [fixed |-> <<ANode("f-3", "x", "bad")>>, sub |-> <<>>]]}
=============================================================================
