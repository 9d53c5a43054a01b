---------------------------- MODULE EndpointRegions ----------------------------
(***************************************************************************)
(* Where an endpoint of a dynamic IP provider is taken to be: by the words *)
(* of its host name, and by the place that the geo providers give for its  *)
(* first public address (dynamic/geo.go, internal/geox, internal/ipgeo).   *)
(* The answer is a set of codes of countries and regions, which share the  *)
(* two-letter codes: "NA" is Namibia and North America, "SA" Saudi Arabia  *)
(* and South America, "AS" American Samoa and Asia.                        *)
(***************************************************************************)
EXTENDS Integers, Sequences, FiniteSetsExt

CONSTANTS
  HostOf,       \* HostOf[e] = [words, addresses]: of the host, in upper case,
                \* and the addresses that it is or is resolved to, in order
  Alpha,        \* Alpha[w] = the country with that code of two or three letters
  ContinentOf,  \* ContinentOf[c] = the region of a country, "" if it has none
  Public,       \* the addresses that are not private, loopback or unspecified
  GeoProviders  \* the providers of the settings, in their order:
                \* [weight, anonymous, keys, places]; keys[k] says what becomes
                \* of a request with that key, "good", "refused" or "garbled",
                \* and places[address] is the place it gives

ASSUME RegionAssumption ==
  /\ \A w \in DOMAIN Alpha : /\ Alpha[w] \in DOMAIN ContinentOf
                          /\ Alpha[w] \in DOMAIN Alpha /\ Alpha[Alpha[w]] = Alpha[w]
  /\ \A p \in DOMAIN GeoProviders :
       /\ GeoProviders[p].weight \in Nat /\ GeoProviders[p].anonymous \in BOOLEAN
       /\ GeoProviders[p].anonymous => GeoProviders[p].keys = <<>>

RegionCodes == {"AF", "NA", "OC", "AN", "AS", "EU", "SA"}
RegionNames == [AFRICA |-> "AF", NORTH_AMERICA |-> "NA", OCEANIA |-> "OC", ANTARCTICA |-> "AN",
                ASIA |-> "AS", EUROPE |-> "EU", SOUTH_AMERICA |-> "SA"]
NoPlace == [country |-> "", region |-> ""]

NormalizeCountry(word) == IF word \in DOMAIN Alpha THEN Alpha[word] ELSE ""
NormalizeRegion(word) ==
  IF word \in RegionCodes THEN word
  ELSE IF word \in DOMAIN RegionNames THEN RegionNames[word] ELSE ""

CountryRegionCode(word) ==
  LET country == NormalizeCountry(word) IN IF country = "" THEN "" ELSE ContinentOf[country]

-----------------------------------------------------------------------------
(* The place of an address.                                               *)

\* A provider that needs a key and has none is left out.
Configured == {p \in DOMAIN GeoProviders :
                 GeoProviders[p].anonymous \/ GeoProviders[p].keys # <<>>}

\* The keys are tried in turn; what cannot be read ends the attempts.
LookupJSON(p) ==
  LET keys == GeoProviders[p].keys
      answered == {k \in DOMAIN keys : keys[k] # "refused"}
  IN IF keys = <<>> THEN "good" ELSE IF answered = {} THEN "refused" ELSE keys[Min(answered)]

\* A provider that is down answers nobody. An empty place is no answer.
Knows(p, address, down) ==
  /\ p \notin down /\ LookupJSON(p) = "good"
  /\ address \in DOMAIN GeoProviders[p].places
  /\ GeoProviders[p].places[address] # NoPlace

\* The heaviest comes first, among equals the first of the settings.
Heaviest(ps) ==
  CHOOSE p \in ps : \A q \in ps :
    \/ GeoProviders[p].weight > GeoProviders[q].weight
    \/ GeoProviders[p].weight = GeoProviders[q].weight /\ p <= q

Lookup(address, down) ==
  LET ps == {p \in Configured : Knows(p, address, down)} IN
  IF ps = {} THEN NoPlace ELSE GeoProviders[Heaviest(ps)].places[address]

-----------------------------------------------------------------------------
(* The codes of an endpoint.                                              *)

\* Any word of two or three letters that is the code of a country counts, the
\* domain's last one too.
CountryCodesInText(words) == {NormalizeCountry(w) : w \in words} \ {""}

RegionCodesFromHost(words) ==
  (UNION {{c, CountryRegionCode(c)} : c \in CountryCodesInText(words)}
     \cup {NormalizeRegion(w) : w \in words}) \ {""}

CodesOfPlace(place) ==
  {NormalizeCountry(place.country), NormalizeRegion(place.region),
   CountryRegionCode(place.country)} \ {""}

PublicOnes(addresses) == SelectSeq(addresses, LAMBDA a : a \in Public)

\* A lookup that fails adds none.
EndpointRegionCodes ==
  [e \in DOMAIN HostOf, down \in SUBSET DOMAIN GeoProviders |->
     LET open == PublicOnes(HostOf[e].addresses)
     IN RegionCodesFromHost(HostOf[e].words)
          \cup IF open = <<>> THEN {} ELSE CodesOfPlace(Lookup(open[1], down))]
================================================================================
