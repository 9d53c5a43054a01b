------------------------------ MODULE ExitChecks ------------------------------
(***************************************************************************)
(* Checks of what a listener leaves by (internal/app/proxycheck): its exit *)
(* address, the geo and fraud lookups of an address, the edge canary; and  *)
(* the caches they fill, which a change of settings or of a route clears.  *)
(*                                                                         *)
(* A cache is cleared while checks are under way, so what a check puts     *)
(* there afterwards may be out of date for a whole day. A value is the     *)
(* version of the route, or of the settings and keys, it was obtained      *)
(* with, or Unsure if a clear found it on its way; an answer that fraud    *)
(* checks are not supported is kept like any other. The exits of rotating  *)
(* proxies, which change by themselves, are left out. How a fraud checker  *)
(* works is in FraudLookups.                                               *)
(***************************************************************************)
EXTENDS Naturals, Sequences

CONSTANTS
  Listener,
  Address,      \* addresses asked for
  Check,        \* requests in progress
  MaxAsked,     \* BOUND: requests
  MaxChanges    \* BOUND: changes of a route, of the settings and of their keys

ASSUME ChecksAssumption == MaxChanges \in Nat

Absent == <<>>
Unsure == <<0>>
\* The answer made without any keys, versions of which start at 1.
Unsupported(s) == <<s, 0>>
NoChecker == [sig |-> 0, val |-> Absent]
NoFlight == [members |-> {}, at |-> "open", val |-> Absent]

\* Calls that are merged while one is under way: singleflight keys.
FlightKey == ({"exit"} \X Listener) \cup ({"geo"} \X Address)
\* What the view of a listener is made of: ExitCheckCache.
ViewKey == ({"exit", "edge"} \X Listener) \cup ({"geo", "fraud"} \X Address)

VARIABLES
  route,     \* route[l] = version of the route the data plane has for l
  clearing,  \* listeners whose lease route has changed, the clear still to come
  sig, keys, \* versions of the settings document and of the keys in the secret store
  saving,    \* an update under way: none, keys (are written), saved, native (nodes are)
  pending,   \* the saved settings are not yet what the data plane runs
  view,      \* the cache of views
  geoCache,  \* the cache of geo lookups
  checker,   \* the fraud checker that is kept
  flight,    \* the merged calls
  check,     \* check[c]: where a request is
  requests,  \* requests so far
  strayKeys  \* HISTORY: keys were written by an update that was then refused

checkVars == <<route, clearing, sig, keys, saving, pending, view, geoCache,
               checker, flight, check, requests, strayKeys>>
world   == <<route, clearing, sig, keys, saving, pending, strayKeys>>
caches  == <<view, geoCache, checker>>

IdleCheck == [at |-> "idle", key |-> <<>>, sig |-> 0, keys |-> 0, val |-> Absent]

ChecksInit ==
  /\ route = [l \in Listener |-> 1] /\ clearing = {}
  /\ sig = 1 /\ keys = 1 /\ saving = "none" /\ pending = FALSE /\ strayKeys = FALSE
  /\ view = [k \in ViewKey |-> Absent] /\ geoCache = [a \in Address |-> Absent]
  /\ checker = NoChecker
  /\ flight = [k \in FlightKey |-> NoFlight]
  /\ check = [c \in Check |-> IdleCheck] /\ requests = 0

Arrive(c) == check[c].at = "idle" /\ requests < MaxAsked /\ requests' = requests + 1

-----------------------------------------------------------------------------
(* Exit addresses and geo lookups: merged calls.                          *)

Join(c, k, for) ==
  /\ flight' = [flight EXCEPT ![k].members = @ \cup {c}]
  /\ check' = [check EXCEPT ![c] = [IdleCheck EXCEPT !.at = "waiting", !.key = for]]

\* An edge check is given the address of the listener or asks for it first.
AskExit(c, l) ==
  /\ Arrive(c)
  /\ \/ \E kind \in {"exit", "edge"} : Join(c, <<"exit", l>>, <<kind, l>>)
     \/ /\ check' = [check EXCEPT ![c] = [IdleCheck EXCEPT !.at = "canary", !.key = <<"edge", l>>]]
        /\ UNCHANGED flight
  /\ UNCHANGED <<world, caches>>

\* All endpoints are asked through the listener; one valid answer is enough.
\* While the data plane does not run the saved settings the answer is about
\* the route it still has.
Probe(l) ==
  LET k == <<"exit", l>> IN
  /\ flight[k].members # {} /\ flight[k].at = "open"
  /\ flight' = [flight EXCEPT ![k].at = "answered",
                              ![k].val = IF pending THEN Unsure ELSE <<route[l]>>]
  /\ UNCHANGED <<requests, world, caches, check>>

\* The geo cache is looked at before the calls are merged.
AskGeo(c, a) ==
  /\ Arrive(c)
  /\ IF geoCache[a] # Absent
     THEN /\ check' = [check EXCEPT ![c] = [IdleCheck EXCEPT
                          !.at = "put", !.key = <<"geo", a>>, !.val = geoCache[a]]]
          /\ UNCHANGED flight
     ELSE Join(c, <<"geo", a>>, <<"geo", a>>)
  /\ UNCHANGED <<world, caches>>

\* And again by the one that leads; then the settings are loaded, and the keys
\* are resolved.
LoadGeo(a) ==
  LET k == <<"geo", a>> IN
  /\ flight[k].members # {}
  /\ \/ /\ flight[k].at = "open"
        /\ flight' = [flight EXCEPT ![k] = IF geoCache[a] # Absent
             THEN [@ EXCEPT !.at = "answered", !.val = geoCache[a]]
             ELSE [@ EXCEPT !.at = "loaded", !.val = <<sig>>]]
     \/ /\ flight[k].at = "loaded"
        /\ flight' = [flight EXCEPT ![k].at = "answered",
                                    ![k].val = IF @ = Unsure THEN @ ELSE @ \o <<keys>>]
  /\ UNCHANGED <<requests, world, caches, check>>

\* A merged call ends, for all its members alike: a leader that gives up fails
\* the others too. A geo answer is kept before it is handed out.
EndFlight(k) ==
  LET members == flight[k].members
      goOn(c) == IF check[c].key[1] = "edge" THEN [check[c] EXCEPT !.at = "canary"]
                 ELSE [check[c] EXCEPT !.at = "put", !.val = flight[k].val]
  IN /\ members # {}
     /\ \/ /\ flight[k].at = "answered"
           /\ check' = [c \in Check |-> IF c \in members THEN goOn(c) ELSE check[c]]
           /\ geoCache' = IF k[1] = "geo" THEN [geoCache EXCEPT ![k[2]] = flight[k].val]
                          ELSE geoCache
        \/ /\ check' = [c \in Check |-> IF c \in members THEN IdleCheck ELSE check[c]]
           /\ UNCHANGED geoCache
     /\ flight' = [flight EXCEPT ![k] = NoFlight]
     /\ UNCHANGED <<requests, world, view, checker>>

\* The canary is asked through the listener.
Canary(c) ==
  /\ check[c].at = "canary"
  /\ check' = [check EXCEPT ![c].at = "put",
                 ![c].val = IF pending THEN Unsure ELSE <<route[check[c].key[2]]>>]
  /\ UNCHANGED <<requests, world, caches, flight>>

PutView(c) ==
  /\ check[c].at = "put"
  /\ view' = [view EXCEPT ![check[c].key] = check[c].val]
  /\ check' = [check EXCEPT ![c] = IdleCheck]
  /\ UNCHANGED <<requests, world, geoCache, checker, flight>>

-----------------------------------------------------------------------------
(* Fraud checks: settings, keys, then a checker.                          *)

AskFraud(c, a) ==
  /\ Arrive(c)
  /\ check' = [check EXCEPT ![c] = [IdleCheck EXCEPT !.at = "loaded", !.key = <<"fraud", a>>,
                 !.sig = sig]]
  /\ UNCHANGED <<world, caches, flight>>

ResolveKeys(c) ==
  /\ check[c].at = "loaded"
  /\ check' = [check EXCEPT ![c].at = "resolved", ![c].keys = keys]
  /\ UNCHANGED <<requests, world, caches, flight>>

\* The checker that is kept serves if its settings have the same signature,
\* whatever keys it was made with: those are not part of the document.
UseChecker(c) ==
  LET mine == IF check[c].val = Unsure THEN Unsure ELSE <<check[c].sig, check[c].keys>>
      use  == IF checker.sig = check[c].sig THEN checker ELSE [sig |-> check[c].sig, val |-> mine]
  IN /\ check[c].at = "resolved"
     /\ checker' = use
     /\ check' = [check EXCEPT ![c] = [IdleCheck EXCEPT !.at = "put", !.key = check[c].key,
          !.val = IF mine = Unsure THEN Unsure ELSE use.val]]
     /\ UNCHANGED <<requests, world, view, geoCache, flight>>

\* The keys cannot be resolved, be it that the caller is gone, or no provider
\* is configured: that is an answer, not an error.
KeysUnresolved(c) ==
  /\ check[c].at = "loaded"
  /\ check' = [check EXCEPT ![c].at = "put",
                 ![c].val = IF @ = Unsure THEN Unsure ELSE Unsupported(check[c].sig)]
  /\ UNCHANGED <<requests, world, caches, flight>>

\* The checker has no answer.
CheckFails(c) ==
  /\ check[c].at = "put" /\ check[c].key[1] = "fraud" /\ check[c].val # Unsupported(check[c].sig)
  /\ check' = [check EXCEPT ![c] = IdleCheck]
  /\ UNCHANGED <<requests, world, caches, flight>>

-----------------------------------------------------------------------------
(* What clears the caches.                                                *)

NoExitView == [k \in ViewKey |-> IF k[1] = "edge" THEN view[k] ELSE Absent]
GeoAsIs == geoCache

\* Clear, of the views and of the geo cache.
NoView == [k \in ViewKey |-> Absent]
NoGeo == [a \in Address |-> Absent]

\* Values on their way to a cache that is cleared.
Overtaken(kinds) ==
  /\ flight' = [k \in FlightKey |->
       IF k[1] \in kinds /\ flight[k].at # "open"
       THEN [flight[k] EXCEPT !.val = Unsure] ELSE flight[k]]
  /\ check' = [c \in Check |->
       IF check[c].at # "idle" /\ check[c].key[1] \in kinds
       THEN [check[c] EXCEPT !.val = IF check[c].at \in {"waiting", "canary"} THEN @ ELSE Unsure]
       ELSE check[c]]

\* Versions start at 1.
RoomForChange(l) == (route[l] - 1) + (sig - 1) + (keys - 1) < MaxChanges
RoomForSettings == \A l \in Listener : RoomForChange(l)

\* A lease gets or loses the route of a listener, and then clears the views.
LeaseRoute(l) ==
  /\ RoomForChange(l)
  /\ route' = [route EXCEPT ![l] = @ + 1]
  /\ clearing' = clearing \cup {l}
  /\ UNCHANGED <<requests, sig, keys, saving, pending, strayKeys, caches, flight, check>>

AfterRouteChange(l) ==
  /\ l \in clearing /\ clearing' = clearing \ {l}
  /\ view' = NoView /\ Overtaken({"exit", "edge"})
  /\ UNCHANGED <<requests, route, sig, keys, saving, pending, strayKeys, geoCache, checker>>

\* An update writes keys, then is refused or saves the document, which stays as
\* it is if the update was about the keys of a provider only.
SaveKeys ==
  /\ saving = "none" /\ RoomForSettings
  /\ keys' = keys + 1 /\ saving' = "keys"
  /\ UNCHANGED <<requests, route, clearing, sig, pending, strayKeys, caches, flight, check>>

UpdateRefused ==
  /\ saving = "keys" /\ saving' = "none" /\ strayKeys' = TRUE
  /\ UNCHANGED <<requests, route, clearing, sig, keys, pending, caches, flight, check>>

SaveDocument ==
  /\ saving \in {"none", "keys"} /\ saving' = "saved"
  /\ \/ RoomForSettings /\ sig' = sig + 1
     \/ saving = "keys" /\ UNCHANGED sig
  /\ UNCHANGED <<requests, route, clearing, keys, pending, strayKeys, caches, flight, check>>

\* Mihomo's nodes are saved.
NativeSaved ==
  /\ saving = "none" /\ saving' = "native"
  /\ UNCHANGED <<requests, route, clearing, sig, keys, pending, strayKeys, caches, flight, check>>

\* clearDerivedState, then a reconcile is asked for. After an update of nodes
\* only the views are cleared.
ClearDerived ==
  /\ pending' = TRUE /\ saving' = "none" /\ view' = NoView
  /\ \/ /\ saving = "saved" /\ strayKeys' = FALSE
        /\ checker' = NoChecker /\ geoCache' = NoGeo
        /\ Overtaken({"exit", "edge", "geo", "fraud"})
     \/ /\ saving = "native" /\ UNCHANGED <<strayKeys, checker, geoCache>>
        /\ Overtaken({"exit", "edge"})
  /\ UNCHANGED <<requests, route, clearing, sig, keys>>

\* A reconcile takes over what is saved; nothing is cleared then.
Reconciled ==
  /\ pending \/ saving \in {"saved", "native"}
  /\ \E changed \in {{}} \cup {{l} : l \in {x \in Listener : RoomForChange(x)}} :
       route' = [l \in Listener |-> IF l \in changed THEN route[l] + 1 ELSE route[l]]
  /\ pending' = FALSE
  /\ UNCHANGED <<requests, clearing, sig, keys, saving, strayKeys, caches, flight, check>>

\* An entry is over: a day for views and geo lookups.
Lapse ==
  /\ \/ \E k \in ViewKey : /\ view[k] # Absent
                           /\ view' = [view EXCEPT ![k] = Absent] /\ UNCHANGED geoCache
     \/ \E a \in Address : /\ geoCache[a] # Absent
                           /\ geoCache' = [geoCache EXCEPT ![a] = Absent] /\ UNCHANGED view
  /\ UNCHANGED <<requests, world, checker, flight, check>>

ChecksNext ==
  \/ \E c \in Check : \/ \E l \in Listener : AskExit(c, l)
                      \/ \E a \in Address : AskGeo(c, a) \/ AskFraud(c, a)
                      \/ Canary(c) \/ PutView(c) \/ ResolveKeys(c) \/ KeysUnresolved(c)
                      \/ UseChecker(c) \/ CheckFails(c)
  \/ \E l \in Listener : Probe(l) \/ LeaseRoute(l) \/ AfterRouteChange(l)
  \/ \E a \in Address : LoadGeo(a)
  \/ \E k \in FlightKey : EndFlight(k)
  \/ SaveKeys \/ UpdateRefused \/ SaveDocument \/ NativeSaved \/ ClearDerived \/ Reconciled \/ Lapse

ChecksSpec == ChecksInit /\ [][ChecksNext]_checkVars

-----------------------------------------------------------------------------
(* Properties.                                                            *)

ChecksTypeOK ==
  /\ \A l \in Listener : route[l] \in 1..(MaxChanges + 1)
  /\ saving \in {"none", "keys", "saved", "native"}
  /\ \A k \in FlightKey : /\ flight[k].at \in {"open", "loaded", "answered"}
                          /\ flight[k].members \subseteq Check
  /\ \A c \in Check : check[c].at \in {"idle", "waiting", "canary", "loaded", "resolved", "put"}

\* What a listener's view says of its exit is about the route it has, unless
\* the check was overtaken by a clear, was made before saved settings were
\* applied, or a clear is just to come (lease_route.go:102, runtime_settings.go:87).
ViewIsOfRoute ==
  \A l \in Listener, kind \in {"exit", "edge"} :
    LET val == view[<<kind, l>>] IN
    val \in {Absent, Unsure, <<route[l]>>} \/ l \in clearing \/ saving \in {"saved", "native"}

\* Geo and fraud lookups that are kept, and the checker, come from the settings
\* and the keys that are stored, unless they were overtaken by the clear, an
\* update is under way, or one wrote keys and was refused. Of the keys that is
\* not so where a fraud check is said to be unsupported: the answer is kept for
\* a day though the keys are stored, when they could not be read once; it is
\* never put into the checker (runtime_settings.go:87-94, proxy_ip_fraud.go:22-28).
LookupsAreCurrent ==
  LET now(val) == val \in {Absent, Unsure, <<sig, keys>>} IN
  saving \in {"none", "native"} /\ ~strayKeys =>
    /\ \A a \in Address : /\ now(view[<<"geo", a>>]) /\ now(geoCache[a])
                          /\ now(view[<<"fraud", a>>]) \/ view[<<"fraud", a>>] = Unsupported(sig)
    /\ now(checker.val)
=============================================================================
