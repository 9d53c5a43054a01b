--------------------------- MODULE SelectionProofs ---------------------------
(* What is chosen in turn: the endpoints of an acquisition, and the keys of *)
(* the providers that are asked about an address; and what their reports    *)
(* and a canary's answer are made into.                                     *)
EXTENDS EndpointSelection, FraudLookups, EdgeReports, FiniteSetTheorems, TLAPS

-----------------------------------------------------------------------------
(* Sets in an order.                                                        *)

LEMMA RingSize ==
  ASSUME NEW n \in Nat \ {0}
  PROVE  IsFiniteSet(0..(n - 1)) /\ Cardinality(0..(n - 1)) = n
<1> DEFINE m == n - 1
<1>1. m \in Int /\ m >= 0
  OBVIOUS
<1> HIDE DEF m
<1>2. IsFiniteSet(0..m) /\ Cardinality(0..m) = IF 0 > m THEN 0 ELSE m - 0 + 1
  BY <1>1, FS_Interval
<1>. QED
  BY <1>1, <1>2 DEF m

\* R orders S: of two elements one is before the other.
Orders(R, S) ==
  /\ \A a \in S : <<a, a>> \notin R
  /\ \A a, b, c \in S : <<a, b>> \in R /\ <<b, c>> \in R => <<a, c>> \in R
  /\ \A a, b \in S : a # b => <<a, b>> \in R \/ <<b, a>> \in R

Ahead(R, S, a) == {b \in S : <<b, a>> \in R}

\* An element of a finite set has a place of its own in an order, and at each
\* place there is one.
LEMMA OneAtEachPlace ==
  ASSUME NEW S, IsFiniteSet(S), NEW R, Orders(R, S)
  PROVE  /\ Cardinality(S) \in Nat
         /\ \A a \in S : Cardinality(Ahead(R, S, a)) \in 0..(Cardinality(S) - 1)
         /\ \A a, b \in S : Cardinality(Ahead(R, S, a)) = Cardinality(Ahead(R, S, b)) => a = b
         /\ \A n \in 0..(Cardinality(S) - 1) : \E a \in S : Cardinality(Ahead(R, S, a)) = n
<1>1. Cardinality(S) \in Nat
  BY FS_CardinalityType
<1>2. ASSUME NEW a \in S
      PROVE  IsFiniteSet(Ahead(R, S, a)) /\ Cardinality(Ahead(R, S, a)) \in 0..(Cardinality(S) - 1)
  <2>1. IsFiniteSet(S \ {a}) /\ Cardinality(S \ {a}) = Cardinality(S) - 1
    BY FS_RemoveElement
  <2>2. Ahead(R, S, a) \in SUBSET (S \ {a})
    BY DEF Ahead, Orders
  <2>3. IsFiniteSet(Ahead(R, S, a)) /\ Cardinality(Ahead(R, S, a)) <= Cardinality(S \ {a})
    BY <2>1, <2>2, FS_Subset
  <2>4. Cardinality(Ahead(R, S, a)) \in Nat
    BY <2>3, FS_CardinalityType
  <2>. QED
    BY <1>1, <2>1, <2>3, <2>4
<1>3. ASSUME NEW a \in S, NEW b \in S, <<a, b>> \in R
      PROVE  Cardinality(Ahead(R, S, a)) # Cardinality(Ahead(R, S, b))
  <2>1. Ahead(R, S, a) \in SUBSET Ahead(R, S, b)
    BY <1>3 DEF Ahead, Orders
  <2>2. a \in Ahead(R, S, b) /\ a \notin Ahead(R, S, a)
    BY <1>3 DEF Ahead, Orders
  <2>. QED
    BY <1>2, <2>1, <2>2, FS_Subset
<1>4. \A a, b \in S : Cardinality(Ahead(R, S, a)) = Cardinality(Ahead(R, S, b)) => a = b
  BY <1>3 DEF Orders
<1>5. ASSUME NEW n \in 0..(Cardinality(S) - 1) PROVE \E a \in S : Cardinality(Ahead(R, S, a)) = n
  <2> DEFINE T == 0..(Cardinality(S) - 1)
             f == [a \in S |-> Cardinality(Ahead(R, S, a))]
  <2>1. Cardinality(S) \in Nat \ {0}
    BY <1>1, <1>5
  <2>2. IsFiniteSet(T) /\ Cardinality(T) = Cardinality(S)
    BY <2>1, RingSize
  <2>3. f \in [S -> T] /\ \A a, b \in S : f[a] = f[b] => a = b
    BY <1>2, <1>4
  <2>4. f \in Injection(S, T)
    BY <2>3 DEF Injection, IsInjective
  <2>5. f \in Surjection(S, T)
    BY <2>2, <2>4, FS_Injection
  <2>. QED
    BY <2>5 DEF Surjection
<1>. QED
  BY <1>1, <1>2, <1>4, <1>5

\* Of naturals there is a least, and of those with a bound a greatest.
LEMMA LeastOf ==
  ASSUME NEW T \in SUBSET Nat, T # {}
  PROVE  \E x \in T : \A y \in T : x <= y
<1>1. PICK x \in T : \A y \in T : <<y, x>> \notin OpToRel(<, Nat)
  BY NatLessThanWellFounded, WFMin
<1>2. \A y \in T : ~ (y < x)
  BY <1>1 DEF OpToRel
<1>. QED
  BY <1>2

LEMMA GreatestOf ==
  ASSUME NEW T \in SUBSET Int, T # {}, NEW m \in Int, \A x \in T : x <= m
  PROVE  \E x \in T : \A y \in T : y <= x
<1> DEFINE gaps == {n \in Nat : \E x \in T : x = m - n}
<1>1. gaps \in SUBSET Nat /\ gaps # {}
  <2>1. PICK x \in T : TRUE
    OBVIOUS
  <2>2. m - x \in Nat /\ x = m - (m - x)
    OBVIOUS
  <2>. QED
    BY <2>2
<1>2. PICK n \in gaps : \A k \in gaps : n <= k
  BY <1>1, LeastOf
<1>3. \A y \in T : m - y \in gaps
  OBVIOUS
<1>. QED
  BY <1>2, <1>3

LEMMA RingStays ==
  ASSUME NEW n \in Nat \ {0}, NEW i \in Nat
  PROVE  (i % n) \in 0..(n - 1)
OBVIOUS

LEMMA PlaceOf ==
  ASSUME NEW n \in Nat \ {0}, NEW q \in Nat, NEW k \in 0..(n - 1)
  PROVE  (q * n + k) % n = k
BY SMTT(20)

\* In n tries in a row each of n places comes once.
LEMMA EveryPlaceComes ==
  ASSUME NEW n \in Nat \ {0}, NEW first \in Nat, NEW k \in 0..(n - 1)
  PROVE  \E i \in 0..(n - 1) : (first + i) % n = k
<1> DEFINE left == {x \in Nat : \E q \in Nat : first = q * n + x}
<1>4. PICK m \in left : \A x \in left : m <= x
  <2>1. first = 0 * n + first
    OBVIOUS
  <2>. QED
    BY <2>1, LeastOf
<1>5. PICK q \in Nat : first = q * n + m
  BY <1>4
<1>1. m \in 0..(n - 1)
  <2>1. ASSUME m >= n PROVE FALSE
    <3>1. m - n \in Nat /\ first = (q + 1) * n + (m - n) /\ q + 1 \in Nat
      BY <1>4, <1>5, <2>1
    <3>2. m - n \in left
      BY <3>1
    <3>. QED
      BY <1>4, <3>2
  <2>. QED
    BY <1>4, <2>1
<1> HIDE DEF left
<1>2. CASE k >= m
  <2>1. (k - m) \in 0..(n - 1) /\ first + (k - m) = q * n + k
    BY <1>1, <1>2, <1>5
  <2>2. (q * n + k) % n = k
    BY <1>1, PlaceOf
  <2>. QED
    BY <2>1, <2>2
<1>3. CASE k < m
  <2>1. (k - m + n) \in 0..(n - 1) /\ first + (k - m + n) = (q + 1) * n + k /\ q + 1 \in Nat
    BY <1>1, <1>3, <1>5
  <2>2. ((q + 1) * n + k) % n = k
    BY <2>1, PlaceOf
  <2>. QED
    BY <2>1, <2>2
<1>. QED
  BY <1>1, <1>2, <1>3

-----------------------------------------------------------------------------
(* The candidates and their order.                                          *)

\* The position of an account in the list, and the order of accounts that
\* their hashes and positions make.
PlaceIn(a) == CHOOSE i \in DOMAIN AccountList : AccountList[i].id = a

Earlier(a, b) ==
  \/ HashOf[a] < HashOf[b]
  \/ HashOf[a] = HashOf[b] /\ PlaceIn(a) < PlaceIn(b)

EarlierOf(O) == {q \in O \X O : Earlier(q[1], q[2])}

\* The account whose turn it is, whatever its candidates.
Nth(O, n) == CHOOSE a \in O : Cardinality({b \in O : Earlier(b, a)}) = n

LEMMA PlaceOfAccount ==
  ASSUME NEW i \in DOMAIN AccountList
  PROVE  AccountList[i].id \in AccountIds /\ PlaceIn(AccountList[i].id) = i
BY SelectionAssumption DEF PlaceIn, AccountIds

LEMMA AccountsOrdered ==
  ASSUME NEW O \in SUBSET AccountIds
  PROVE  /\ Orders(EarlierOf(O), O)
         /\ \A a \in O : Ahead(EarlierOf(O), O, a) = {b \in O : Earlier(b, a)}
<1>1. \A a \in AccountIds : HashOf[a] \in Nat /\ PlaceIn(a) \in Nat
                            /\ PlaceIn(a) \in DOMAIN AccountList /\ AccountList[PlaceIn(a)].id = a
  BY SelectionAssumption, PlaceOfAccount DEF AccountIds
<1>2. \A a, b \in O : a # b => PlaceIn(a) # PlaceIn(b)
  BY <1>1
<1>3. \A a, b \in O : <<a, b>> \in EarlierOf(O) <=> Earlier(a, b)
  BY DEF EarlierOf
<1>4. \A a \in O : ~Earlier(a, a)
  BY <1>1 DEF Earlier
<1>5. \A a, b, c \in O : Earlier(a, b) /\ Earlier(b, c) => Earlier(a, c)
  BY <1>1 DEF Earlier
<1>6. \A a, b \in O : a # b => Earlier(a, b) \/ Earlier(b, a)
  BY <1>1, <1>2 DEF Earlier
<1>. QED
  BY <1>3, <1>4, <1>5, <1>6 DEF Orders, Ahead

\* The turns of the accounts.
LEMMA TurnsOfAccounts ==
  ASSUME NEW O \in SUBSET AccountIds, IsFiniteSet(O)
  PROVE  /\ Cardinality(O) \in Nat
         /\ \A n \in 0..(Cardinality(O) - 1) : Nth(O, n) \in O
         /\ \A a \in O : \E n \in 0..(Cardinality(O) - 1) : Nth(O, n) = a
<1> DEFINE R == EarlierOf(O)
           rank(a) == Cardinality(Ahead(R, O, a))
<1>1. Orders(R, O) /\ \A a \in O : Ahead(R, O, a) = {b \in O : Earlier(b, a)}
  BY AccountsOrdered
<1>2. \A n : Nth(O, n) = CHOOSE a \in O : rank(a) = n
  BY <1>1 DEF Nth
<1>3. /\ Cardinality(O) \in Nat
      /\ \A a \in O : rank(a) \in 0..(Cardinality(O) - 1)
      /\ \A a, b \in O : rank(a) = rank(b) => a = b
      /\ \A n \in 0..(Cardinality(O) - 1) : \E a \in O : rank(a) = n
  BY <1>1, OneAtEachPlace
<1> HIDE DEF rank
<1>. QED
  BY <1>2, <1>3

\* What is known of candidates: the numbers in their priorities.
PrioritiesOf(i) == (10000 * (i - 1))..(10000 * i - 1)
Position(c, i) == c.account = AccountList[i].id /\ c.priority \in PrioritiesOf(i)
CandidateSet(C) ==
  /\ \A c \in C : c.priority \in Nat /\ c.score \in Int /\ \E i \in DOMAIN AccountList : Position(c, i)
  /\ \A c, d \in C : c.priority = d.priority => c = d

LEMMA PartOfCandidates ==
  ASSUME NEW C, CandidateSet(C), NEW D \in SUBSET C PROVE CandidateSet(D)
BY DEF CandidateSet

LEMMA FewCandidates ==
  ASSUME NEW C, CandidateSet(C)
  PROVE  IsFiniteSet(C) /\ IsFiniteSet(Owners(C)) /\ Owners(C) \in SUBSET AccountIds
<1> DEFINE last == 10000 * Len(AccountList)
           f == [c \in C |-> c.priority]
           g == [c \in C |-> c.account]
<1>1. last \in Nat /\ IsFiniteSet(0..last)
  BY SelectionAssumption, FS_Interval
<1>2. ASSUME NEW c \in C PROVE c.priority \in 0..last
  <2>1. PICK i \in DOMAIN AccountList : Position(c, i)
    BY DEF CandidateSet
  <2>. QED
    BY <2>1, SelectionAssumption DEF Position, PrioritiesOf
<1>3. f \in Injection(C, 0..last)
  BY <1>2 DEF CandidateSet, Injection, IsInjective
<1>4. IsFiniteSet(C)
  BY <1>1, <1>3, FS_Injection
<1>5. g \in Surjection(C, Owners(C))
  BY DEF Surjection, Owners
<1>6. Owners(C) \in SUBSET AccountIds
  BY PlaceOfAccount DEF Owners, CandidateSet, Position
<1>. QED
  BY <1>4, <1>5, <1>6, FS_Surjection

\* The order of the accounts does not depend on which of their candidates are
\* in scope.
LEMMA OwnerByTurn ==
  ASSUME NEW C, CandidateSet(C)
  PROVE  \A n : OwnerAt(C, n) = Nth(Owners(C), n)
<1>1. ASSUME NEW a \in Owners(C)
      PROVE  PlaceIn(a) \in Nat /\ First(Of(C, a)).priority \in PrioritiesOf(PlaceIn(a))
  <2> DEFINE X == Of(C, a)
             T == {c.priority : c \in X}
  <2>1. X # {} /\ X \in SUBSET C /\ \A c \in X : c.account = a
    BY DEF Of, Owners
  <2>2. T \in SUBSET Nat /\ T # {}
    BY <2>1 DEF CandidateSet
  <2>3. PICK m \in T : \A y \in T : m <= y
    BY <2>2, LeastOf
  <2>4. \E c \in X : \A d \in X : c.priority <= d.priority
    BY <2>3
  <2>5. First(X) \in X
    BY <2>4 DEF First
  <2>6. PICK i \in DOMAIN AccountList : Position(First(X), i)
    BY <2>1, <2>5 DEF CandidateSet
  <2>7. PlaceIn(a) = i /\ i \in Nat
    BY <2>1, <2>5, <2>6, PlaceOfAccount, SelectionAssumption DEF Position
  <2>. QED
    BY <2>6, <2>7 DEF Position
<1>2. ASSUME NEW a \in Owners(C), NEW b \in Owners(C)
      PROVE  Before(a, b, C) <=> Earlier(a, b)
  <2>1. First(Of(C, a)).priority < First(Of(C, b)).priority <=> PlaceIn(a) < PlaceIn(b)
    <3>1. CASE PlaceIn(a) = PlaceIn(b)
      <4>1. a = b
        BY <3>1, FewCandidates, PlaceOfAccount DEF AccountIds
      <4>. QED
        BY <1>1, <4>1 DEF PrioritiesOf
    <3>2. CASE PlaceIn(a) # PlaceIn(b)
      BY <1>1, <3>2 DEF PrioritiesOf
    <3>. QED
      BY <3>1, <3>2
  <2>. QED
    BY <2>1 DEF Before, Earlier
<1>3. ASSUME NEW a \in Owners(C)
      PROVE  {b \in Owners(C) : Before(b, a, C)} = {b \in Owners(C) : Earlier(b, a)}
  BY <1>2
<1>. QED
  BY <1>3 DEF OwnerAt, Nth

\* The candidates of an account, in turn.
LEMMA TurnsOfCandidates ==
  ASSUME NEW C, CandidateSet(C), NEW n \in 0..(Cardinality(C) - 1)
  PROVE  CandidateAt(C, n) \in C
<1> DEFINE R == {q \in C \X C : q[1].priority < q[2].priority}
<1>1. \A c, d \in C : <<c, d>> \in R <=> c.priority < d.priority
  OBVIOUS
<1>2. Orders(R, C)
  BY <1>1 DEF Orders, CandidateSet
<1>3. \A c \in C : Ahead(R, C, c) = {d \in C : d.priority < c.priority}
  BY <1>1 DEF Ahead
<1> HIDE DEF R
<1>4. PICK c \in C : Cardinality(Ahead(R, C, c)) = n
  BY <1>2, FewCandidates, OneAtEachPlace
<1>. QED
  BY <1>3, <1>4 DEF CandidateAt

Above(C, c) == {d \in C : d.score > c.score}

LEMMA SomeBest ==
  ASSUME NEW C, CandidateSet(C), C # {} PROVE TopOf(C) # {}
<1>1. IsFiniteSet(C)
  BY FewCandidates
<1> DEFINE T == {Cardinality(Above(C, c)) : c \in C}
<1>2. ASSUME NEW c \in C PROVE IsFiniteSet(Above(C, c)) /\ Cardinality(Above(C, c)) \in Nat
  <2>1. Above(C, c) \in SUBSET C
    BY DEF Above
  <2>. QED
    BY <1>1, <2>1, FS_Subset, FS_CardinalityType
<1>3. PICK m \in T : \A y \in T : m <= y
  BY <1>2, LeastOf
<1>4. PICK c \in C : m = Cardinality(Above(C, c))
  BY <1>3
<1>5. ASSUME NEW d \in C, d.score > c.score PROVE FALSE
  <2>1. Above(C, d) \in SUBSET Above(C, c) /\ d \in Above(C, c) /\ d \notin Above(C, d)
    BY <1>5 DEF CandidateSet, Above
  <2>2. Cardinality(Above(C, d)) < Cardinality(Above(C, c))
    BY <1>2, <2>1, FS_Subset
  <2>. QED
    BY <1>2, <1>3, <1>4, <2>2
<1>6. c \in TopOf(C)
  BY <1>5 DEF TopOf, CandidateSet
<1>. QED
  BY <1>6

LEMMA InTurn ==
  ASSUME NEW n \in Nat \ {0}, NEW seed \in Nat, NEW try \in Nat \ {0}
  PROVE  Turn(n, seed, try) \in 0..(n - 1)
BY RingStays DEF Turn

\* Whoever's turn it is, the choice is one of the best of its account in scope.
LEMMA ChosenInScope ==
  ASSUME NEW C, CandidateSet(C), C # {}, NEW r, r.seed \in Nat, NEW try \in Nat \ {0}
  PROVE  LET scoped == Scoped(C, r)
             c == Choose(C, r, try)
             n == Cardinality(Owners(scoped))
         IN /\ scoped \in SUBSET C /\ c \in scoped /\ n \in Nat \ {0}
            /\ \A d \in scoped : d.account = c.account => d.score <= c.score
            /\ c.account = Nth(Owners(scoped), Turn(n, r.seed, try))
<1> DEFINE scoped == Scoped(C, r)
           n == Cardinality(Owners(scoped))
           owner == OwnerAt(scoped, Turn(n, r.seed, try))
           own == Of(scoped, owner)
           best == TopOf(own)
           c == Choose(C, r, try)
<1>1. scoped \in SUBSET C /\ scoped # {} /\ CandidateSet(scoped)
  BY PartOfCandidates DEF Scoped
<1> HIDE DEF scoped
<1>2. IsFiniteSet(Owners(scoped)) /\ Owners(scoped) \in SUBSET AccountIds /\ Owners(scoped) # {}
  BY <1>1, FewCandidates DEF Owners
<1>3. n \in Nat \ {0}
  BY <1>2, FS_CardinalityType, FS_EmptySet
<1> HIDE DEF n
<1>4. Turn(n, r.seed, try) \in 0..(n - 1)
  BY <1>3, InTurn
<1>5. owner = Nth(Owners(scoped), Turn(n, r.seed, try)) /\ owner \in Owners(scoped)
  BY <1>1, <1>2, <1>4, OwnerByTurn, TurnsOfAccounts DEF n
<1> HIDE DEF owner
<1>6. own # {} /\ own \in SUBSET scoped /\ CandidateSet(own) /\ \A d \in own : d.account = owner
  BY <1>1, <1>5, PartOfCandidates DEF Of, Owners
<1>7. /\ best # {} /\ best \in SUBSET own /\ CandidateSet(best)
  BY <1>6, SomeBest, PartOfCandidates DEF TopOf
<1> HIDE DEF best
<1>8. Cardinality(best) \in Nat \ {0}
  BY <1>7, FewCandidates, FS_CardinalityType, FS_EmptySet
<1>9. c = CandidateAt(best, Turn(Cardinality(best), r.seed, try))
  BY DEF Choose, best, owner, n, scoped
<1>10. c \in best
  BY <1>7, <1>8, <1>9, InTurn, TurnsOfCandidates
<1> HIDE DEF c
<1>11. c \in own /\ \A d \in own : d.score <= c.score
  BY <1>7, <1>10 DEF best, TopOf
<1>12. \A d \in scoped : d.account = c.account => d.score <= c.score
  BY <1>6, <1>11 DEF Of
<1>. QED
  BY <1>1, <1>3, <1>5, <1>6, <1>11, <1>12 DEF c, n, scoped

LEMMA PointsFew ==
  ASSUME NEW code, NEW r, NEW fallback PROVE Points(code, r, fallback) \in 0..700
BY DEF Points

LEMMA RegionScoreIs ==
  ASSUME NEW codes, NEW r, NEW fallback
  PROVE  RegionScore(codes, r, fallback) \in Nat
<1> DEFINE T == {0} \cup {Points(code, r, fallback) : code \in codes}
<1>1. 0 \in T /\ \A x \in T : x \in 0..700
  BY PointsFew
<1> HIDE DEF T
<1>2. PICK x \in T : \A y \in T : y <= x
  <2>1. T \in SUBSET Int /\ T # {} /\ 700 \in Int /\ \A y \in T : y <= 700
    BY <1>1
  <2>. QED
    BY <2>1, GreatestOf
<1>3. Max(T) \in T
  BY <1>1, <1>2 DEF Max
<1>4. Max(T) \in Nat
  BY <1>1, <1>3
<1>5. RegionScore(codes, r, fallback) = Max(T)
  BY Zenon DEF RegionScore, T
<1>. QED
  BY <1>4, <1>5, Zenon

FactsOK == facts \in [Endpoints -> [ok : Nat, bad : Nat]]

LEMMA HealthIs == ASSUME FactsOK, NEW e \in Endpoints PROVE HealthScore(e) \in Int
BY DEF FactsOK, HealthScore, MinOf

Digits == 1..100
PriorityAt(i, j, n) == 10000 * (i - 1) + 100 * (j - 1) + n - 1

LEMMA PriorityRange ==
  ASSUME NEW i \in Nat \ {0}, NEW j \in Digits, NEW n \in Digits
  PROVE  PriorityAt(i, j, n) \in PrioritiesOf(i) /\ PriorityAt(i, j, n) \in Nat
BY DEF PriorityAt, Digits, PrioritiesOf

LEMMA DigitsTell ==
  ASSUME NEW i \in Nat, NEW k \in Nat, NEW j \in Digits, NEW l \in Digits,
         NEW n \in Digits, NEW m \in Digits,
         PriorityAt(i, j, n) = PriorityAt(k, l, m)
  PROVE  i = k /\ j = l /\ n = m
BY DEF PriorityAt, Digits, PrioritiesOf

\* The candidate at a place of the lists.
LEMMA CandidateIs ==
  ASSUME FactsOK, NEW i \in DOMAIN AccountList, NEW j \in DOMAIN InstanceList,
         NEW n \in DOMAIN InstanceList[j].endpoints, NEW r, NEW down, NEW known \in BOOLEAN
  PROVE  LET c == CandidateOf(i, j, n, r, down, known) IN
         /\ i \in Nat \ {0} /\ j \in Digits /\ n \in Digits
         /\ c.priority = PriorityAt(i, j, n) /\ c.priority \in Nat
         /\ c.score \in Int /\ Position(c, i)
<1> DEFINE c == CandidateOf(i, j, n, r, down, known)
<1>1. i \in Nat \ {0} /\ j \in Digits /\ n \in Digits
  BY SelectionAssumption DEF Digits
<1>2. InstanceList[j].endpoints[n] \in Endpoints
  BY DEF Endpoints
<1>3. ASSUME NEW codes PROVE Score(InstanceList[j].endpoints[n], codes, r, known) \in Int
  <2> DEFINE region == RegionScore(codes, r, TRUE)
             health == IF known THEN HealthScore(InstanceList[j].endpoints[n]) ELSE 0
  <2>1. region \in Nat
    BY RegionScoreIs, Zenon
  <2>2. health \in Int
    <3>1. HealthScore(InstanceList[j].endpoints[n]) \in Int
      BY <1>2, HealthIs, Zenon
    <3>. QED
      BY <3>1
  <2>3. Score(InstanceList[j].endpoints[n], codes, r, known) = 1000 + region + health
    BY Zenon DEF Score
  <2> HIDE DEF region, health
  <2>4. 1000 + region + health \in Int
    BY <2>1, <2>2
  <2>. QED
    BY <2>3, <2>4, Zenon
<1>4. c.account = AccountList[i].id /\ c.priority = PriorityAt(i, j, n)
  BY DEF CandidateOf, PriorityAt
<1>5. c.score \in Int
  BY <1>3 DEF CandidateOf
<1>6. PriorityAt(i, j, n) \in PrioritiesOf(i) /\ PriorityAt(i, j, n) \in Nat
  BY <1>1, PriorityRange, Zenon
<1> HIDE DEF c
<1>. QED
  BY <1>1, <1>4, <1>5, <1>6 DEF Position, c

LEMMA OffersAre ==
  ASSUME FactsOK, NEW r, NEW holder, NEW C \in Offers(r, holder)
  PROVE  CandidateSet(C)
<1>1. PICK down \in SUBSET DOMAIN GeoProviders, known \in BOOLEAN : C = Candidates(r, holder, down, known)
  BY DEF Offers
<1>2. ASSUME NEW c \in C
      PROVE  \E i \in DOMAIN AccountList : \E j \in DOMAIN InstanceList :
               \E n \in DOMAIN InstanceList[j].endpoints : c = CandidateOf(i, j, n, r, down, known)
  BY <1>1 DEF Candidates
<1>3. ASSUME NEW c \in C
      PROVE  c.priority \in Nat /\ c.score \in Int /\ \E i \in DOMAIN AccountList : Position(c, i)
  <2>1. PICK i \in DOMAIN AccountList : \E j \in DOMAIN InstanceList :
               \E n \in DOMAIN InstanceList[j].endpoints : c = CandidateOf(i, j, n, r, down, known)
    BY <1>2
  <2>2. PICK j \in DOMAIN InstanceList :
               \E n \in DOMAIN InstanceList[j].endpoints : c = CandidateOf(i, j, n, r, down, known)
    BY <2>1
  <2>3. PICK n \in DOMAIN InstanceList[j].endpoints : c = CandidateOf(i, j, n, r, down, known)
    BY <2>2
  <2>. QED
    BY <2>3, CandidateIs
<1>4. ASSUME NEW c \in C, NEW d \in C, c.priority = d.priority PROVE c = d
  <2>1. PICK i \in DOMAIN AccountList : \E j \in DOMAIN InstanceList :
               \E n \in DOMAIN InstanceList[j].endpoints : c = CandidateOf(i, j, n, r, down, known)
    BY <1>2
  <2>2. PICK j \in DOMAIN InstanceList :
               \E n \in DOMAIN InstanceList[j].endpoints : c = CandidateOf(i, j, n, r, down, known)
    BY <2>1
  <2>3. PICK n \in DOMAIN InstanceList[j].endpoints : c = CandidateOf(i, j, n, r, down, known)
    BY <2>2
  <2>4. PICK k \in DOMAIN AccountList : \E l \in DOMAIN InstanceList :
               \E m \in DOMAIN InstanceList[l].endpoints : d = CandidateOf(k, l, m, r, down, known)
    BY <1>2
  <2>5. PICK l \in DOMAIN InstanceList :
               \E m \in DOMAIN InstanceList[l].endpoints : d = CandidateOf(k, l, m, r, down, known)
    BY <2>4
  <2>6. PICK m \in DOMAIN InstanceList[l].endpoints : d = CandidateOf(k, l, m, r, down, known)
    BY <2>5
  <2>7. i \in Nat /\ j \in Digits /\ n \in Digits /\ c.priority = PriorityAt(i, j, n)
    BY <2>3, CandidateIs
  <2>8. k \in Nat /\ l \in Digits /\ m \in Digits /\ d.priority = PriorityAt(k, l, m)
    BY <2>6, CandidateIs
  <2>10. PriorityAt(i, j, n) = PriorityAt(k, l, m)
    BY <1>4, <2>7, <2>8
  <2>9. i = k /\ j = l /\ n = m
    BY <2>7, <2>8, <2>10, DigitsTell
  <2>. QED
    BY <2>3, <2>6, <2>9
<1>. QED
  BY <1>3, <1>4 DEF CandidateSet

\* Without a region asked for the codes are not looked up.
LEMMA NoCodesWithoutRegion ==
  ASSUME NEW r, NEW holder, NEW C \in Offers(r, holder), ~RegionAsked(r), NEW c \in C
  PROVE  ~(RegionScore(c.codes, r, FALSE) > 0)
<1>1. PICK down \in SUBSET DOMAIN GeoProviders, known \in BOOLEAN : C = Candidates(r, holder, down, known)
  BY DEF Offers
<1>2. c.codes = {}
  BY <1>1 DEF Candidates, CandidateOf
<1>3. RegionScore({}, r, FALSE) = 0
  <2>1. {0} \cup {Points(code, r, FALSE) : code \in {}} = {0}
    OBVIOUS
  <2>2. Max({0}) = 0
    BY DEF Max
  <2>. QED
    BY <2>1, <2>2 DEF RegionScore
<1> DEFINE score == RegionScore(c.codes, r, FALSE)
<1>4. score = 0
  BY <1>2, <1>3, Zenon
<1> HIDE DEF score
<1>5. ~(score > 0)
  BY <1>4
<1>. QED
  BY <1>5, Zenon DEF score

-----------------------------------------------------------------------------
(* The acquisition.                                                         *)

AskOK == DOMAIN ask = RequestFields /\ ask.seed \in Nat

\* The attempts since the candidates last changed, as they are counted.
LastTurn == IF stage = "selecting" THEN attempt - 1 ELSE attempt
TurnsTaken ==
  LET n == Cardinality(Owners(offered)) IN
  /\ rounds \in 0..LastTurn
  /\ Owners(offered) \in SUBSET AccountIds /\ IsFiniteSet(Owners(offered))
  /\ \A t \in (LastTurn - rounds + 1)..LastTurn : t > 1 =>
       Owners(offered) # {} /\ Nth(Owners(offered), (t - 1) % n) \in visited

SelectionInv ==
  /\ FactsOK /\ attempt \in Nat \ {0}
  /\ stage # "idle" => AskOK
  /\ stage = "idle" => attempt = 1 /\ rounds = 0
  /\ TurnsTaken

LEMMA OfferedOwners ==
  ASSUME NEW C PROVE Owners({Offer(c) : c \in C}) = Owners(C)
<1>1. \A c \in C : Offer(c).account = c.account
  BY DEF Offer
<1>2. Owners({Offer(c) : c \in C}) = {Offer(c).account : c \in C}
  BY DEF Owners
<1>. QED
  BY <1>1, <1>2 DEF Owners

\* A selection that finds candidates.
LEMMA OneChosen ==
  ASSUME SelectionInv, stage = "selecting", NEW C \in Offers(ask, ProbeHolder), C # {}
  PROVE  LET c == Choose(C, ask, attempt) IN
         /\ c \in C /\ Good(c, C, ask)
         /\ Offer(c) \in {Offer(d) : d \in Scoped(C, ask)}
         /\ Owners(Scoped(C, ask)) # {}
         /\ attempt > 1 => c.account = Nth(Owners(Scoped(C, ask)),
                                           (attempt - 1) % Cardinality(Owners(Scoped(C, ask))))
<1> DEFINE scoped == Scoped(C, ask)
           c == Choose(C, ask, attempt)
           n == Cardinality(Owners(scoped))
<1>1. CandidateSet(C) /\ ask.seed \in Nat /\ attempt \in Nat \ {0}
  BY OffersAre DEF SelectionInv, AskOK
<1>2. /\ scoped \in SUBSET C /\ c \in scoped /\ n \in Nat \ {0}
      /\ \A d \in scoped : d.account = c.account => d.score <= c.score
      /\ c.account = Nth(Owners(scoped), Turn(n, ask.seed, attempt))
  BY <1>1, ChosenInScope
<1>3. Good(c, C, ask)
  <2> HIDE DEF c
  <2> DEFINE In(d) == RegionScore(d.codes, ask, FALSE) > 0
  <2>1. CASE RegionAsked(ask) /\ {d \in C : In(d)} # {}
    <3>1. scoped = {d \in C : In(d)}
      BY <2>1 DEF Scoped
    <3>. QED
      BY <1>2, <3>1 DEF Good
  <2>2. CASE {d \in C : In(d)} = {}
    <3>1. scoped = C
      BY <2>2 DEF Scoped
    <3>. QED
      BY <1>2, <2>2, <3>1 DEF Good
  <2>3. CASE ~RegionAsked(ask)
    <3>1. scoped = C
      BY <2>3 DEF Scoped
    <3>2. \A d \in C : ~In(d)
      BY <1>1, <2>3, NoCodesWithoutRegion
    <3>. QED
      BY <1>2, <3>1, <3>2 DEF Good
  <2>. QED
    BY <2>1, <2>2, <2>3
<1>4. attempt > 1 => Turn(n, ask.seed, attempt) = (attempt - 1) % n
  BY DEF Turn
<1> HIDE DEF c, n
<1>5. Owners(scoped) # {}
  BY <1>2 DEF Owners
<1>. QED
  BY <1>2, <1>3, <1>4, <1>5 DEF c, n

LEMMA SelectionStart == SelectionInit => SelectionInv
<1>. SUFFICES ASSUME SelectionInit PROVE SelectionInv
  OBVIOUS
<1>1. Owners(offered) = {} /\ IsFiniteSet(Owners(offered))
  BY FS_EmptySet DEF SelectionInit, Owners
<1>2. FactsOK
  BY DEF SelectionInit, FactsOK
<1>. QED
  BY <1>1, <1>2 DEF SelectionInit, SelectionInv, TurnsTaken, LastTurn

\* Steps that leave the turns as they are.
LEMMA TurnsStay ==
  ASSUME SelectionInv, UNCHANGED history, LastTurn' = LastTurn, FactsOK', stage' # "idle",
         AskOK', attempt' \in Nat \ {0}
  PROVE  SelectionInv'
<1>1. TurnsTaken'
  BY DEF SelectionInv, TurnsTaken, history
<1>. QED
  BY <1>1 DEF SelectionInv

LEMMA AnsweredKeeps ==
  ASSUME SelectionInv, Answered, FactsOK' PROVE SelectionInv'
<1>1. offered' = {} /\ rounds' = 0 /\ stage' = "idle" /\ attempt' = 1
  BY DEF Answered
<1>2. Owners(offered') = {} /\ IsFiniteSet(Owners(offered'))
  BY <1>1, FS_EmptySet DEF Owners
<1>. QED
  BY <1>1, <1>2 DEF SelectionInv, TurnsTaken, LastTurn

LEMMA SelectKeeps ==
  ASSUME SelectionInv, SelectEndpoint PROVE SelectionInv'
<1>1. /\ stage = "selecting" /\ UNCHANGED <<facts, ask, attempt>>
      /\ FactsOK' /\ AskOK' /\ attempt \in Nat \ {0} /\ attempt' = attempt
      /\ rounds \in 0..(attempt - 1)
  BY DEF SelectEndpoint, SelectionInv, FactsOK, AskOK, TurnsTaken, LastTurn
<1>2. PICK C \in Offers(ask, ProbeHolder) :
        IF C = {}
        THEN /\ stage' = "failed" /\ UNCHANGED pick
             /\ offered' = {} /\ visited' = {} /\ rounds' = 0
        ELSE /\ pick' = Offer(Choose(C, ask, attempt)) /\ stage' = "chosen"
             /\ offered' = {Offer(c) : c \in Scoped(C, ask)}
             /\ visited' = (IF offered' = offered THEN visited ELSE {}) \cup {pick'.account}
             /\ rounds' = (IF offered' = offered THEN rounds ELSE 0) + 1
  BY DEF SelectEndpoint
<1>3. CASE C = {}
  <2>1. offered' = {} /\ rounds' = 0 /\ stage' = "failed"
    BY <1>2, <1>3
  <2>2. Owners(offered') = {} /\ IsFiniteSet(Owners(offered'))
    BY <2>1, FS_EmptySet DEF Owners
  <2>. QED
    BY <1>1, <2>1, <2>2 DEF SelectionInv, TurnsTaken, LastTurn
<1>4. CASE C # {}
  <2> DEFINE scoped == Scoped(C, ask)
             O == Owners(scoped)
  <2>1. /\ pick' = Offer(Choose(C, ask, attempt)) /\ stage' = "chosen"
        /\ offered' = {Offer(c) : c \in scoped}
        /\ visited' = (IF offered' = offered THEN visited ELSE {}) \cup {pick'.account}
        /\ rounds' = (IF offered' = offered THEN rounds ELSE 0) + 1
    BY <1>2, <1>4
  <2>2. Owners(offered') = O
    BY <2>1, OfferedOwners
  <2>3. scoped \in SUBSET C /\ CandidateSet(C)
    BY OffersAre DEF SelectionInv, Scoped
  <2>4. IsFiniteSet(O) /\ O \in SUBSET AccountIds
    BY <2>3, PartOfCandidates, FewCandidates
  <2>5. O # {} /\ (attempt > 1 => pick'.account = Nth(O, (attempt - 1) % Cardinality(O)))
    BY <1>1, <1>4, <2>1, OneChosen DEF Offer
  <2>6. rounds' \in 0..attempt
    BY <1>1, <2>1
  <2> HIDE DEF O, scoped
  <2>7. ASSUME NEW t \in (attempt - rounds' + 1)..attempt, t > 1
        PROVE  Nth(O, (t - 1) % Cardinality(O)) \in visited'
    <3>1. CASE t = attempt
      BY <2>1, <2>5, <2>7, <3>1
    <3>2. CASE t # attempt
      <4>1. offered' = offered /\ t \in ((attempt - 1) - rounds + 1)..(attempt - 1)
        BY <1>1, <2>1, <2>7, <3>2
      <4>2. Nth(O, (t - 1) % Cardinality(O)) \in visited
        <5>1. LastTurn = attempt - 1
          BY <1>1 DEF LastTurn
        <5>2. Owners(offered) = O
          BY <2>2, <4>1
        <5>. QED
          BY <2>7, <4>1, <5>1, <5>2 DEF SelectionInv, TurnsTaken
      <4>. QED
        BY <2>1, <4>1, <4>2
    <3>. QED
      BY <3>1, <3>2
  <2>8. LastTurn' = attempt
    BY <1>1, <2>1 DEF LastTurn
  <2>9. TurnsTaken'
    BY <2>2, <2>4, <2>5, <2>6, <2>7, <2>8 DEF TurnsTaken
  <2>. QED
    BY <1>1, <2>1, <2>9 DEF SelectionInv
<1>. QED
  BY <1>3, <1>4

LEMMA OneMoreFact ==
  ASSUME FactsOK, NEW e
  PROVE  /\ [facts EXCEPT ![e].ok = @ + 1] \in [Endpoints -> [ok : Nat, bad : Nat]]
         /\ [facts EXCEPT ![e].bad = @ + 1] \in [Endpoints -> [ok : Nat, bad : Nat]]
<1>1. ASSUME NEW l \in [ok : Nat, bad : Nat]
      PROVE  /\ [l EXCEPT !.ok = @ + 1] \in [ok : Nat, bad : Nat]
             /\ [l EXCEPT !.bad = @ + 1] \in [ok : Nat, bad : Nat]
  OBVIOUS
<1>2. ASSUME NEW l, l \in [ok : Nat, bad : Nat]
      PROVE  [facts EXCEPT ![e] = l] \in [Endpoints -> [ok : Nat, bad : Nat]]
  BY <1>2 DEF FactsOK
<1>3. CASE e \in Endpoints
  <2>1. facts[e] \in [ok : Nat, bad : Nat]
    BY <1>3 DEF FactsOK
  <2>. QED
    BY <1>1, <1>2, <2>1
<1>4. CASE e \notin Endpoints
  BY <1>4 DEF FactsOK
<1>. QED
  BY <1>3, <1>4

LEMMA SelectionStep == ASSUME SelectionInv, [SelectionNext]_selection PROVE SelectionInv'
<1>1. CASE UNCHANGED <<facts, acquire, history>>
  BY <1>1 DEF SelectionInv, FactsOK, AskOK, TurnsTaken, LastTurn, acquire, history
<1>2. CASE UNCHANGED selection
  BY <1>1, <1>2 DEF selection, acquire, history
<1>3. CASE BeginAcquire
  <2>1. /\ UNCHANGED <<facts, attempt, history>> /\ stage' = "selecting" /\ ask' \in Requests
        /\ attempt = 1 /\ rounds = 0 /\ stage = "idle"
    BY <1>3 DEF BeginAcquire, SelectionInv
  <2>2. FactsOK' /\ AskOK'
    BY <2>1, SelectionAssumption DEF SelectionInv, FactsOK, AskOK
  <2>3. TurnsTaken'
    BY <2>1 DEF SelectionInv, TurnsTaken, LastTurn, history
  <2>. QED
    BY <2>1, <2>2, <2>3 DEF SelectionInv
<1>4. CASE SelectEndpoint
  BY <1>4, SelectKeeps
<1>5. CASE TakeSlot
  <2>1. /\ UNCHANGED <<facts, ask, attempt, history>> /\ stage = "chosen"
        /\ stage' \in {"granted", "failed"}
    BY <1>5 DEF TakeSlot
  <2>2. FactsOK' /\ AskOK' /\ LastTurn' = LastTurn /\ attempt' \in Nat \ {0} /\ stage' # "idle"
    BY <2>1 DEF SelectionInv, FactsOK, AskOK, LastTurn
  <2>. QED
    BY <2>1, <2>2, TurnsStay
<1>6. CASE AskProvider
  <2>1. PICK outcome \in {"ok", "bad"} :
          /\ facts' = IF outcome = "ok" THEN [facts EXCEPT ![pick.endpoint].ok = @ + 1]
                      ELSE [facts EXCEPT ![pick.endpoint].bad = @ + 1]
          /\ IF outcome = "ok" THEN Answered
             ELSE /\ stage' = "failed" /\ ask' = Labelled(ask, pick)
                  /\ UNCHANGED <<attempt, pick, history>>
    BY <1>6 DEF AskProvider, history
  <2>2. FactsOK'
    BY <2>1, OneMoreFact DEF SelectionInv, FactsOK
  <2>3. CASE outcome = "ok"
    BY <2>1, <2>2, <2>3, AnsweredKeeps
  <2>4. CASE outcome = "bad"
    <3>1. /\ stage' = "failed" /\ ask' = Labelled(ask, pick) /\ stage = "granted"
          /\ attempt' = attempt /\ UNCHANGED history
      BY <1>6, <2>1, <2>4 DEF AskProvider
    <3>2. AskOK'
      BY <3>1 DEF SelectionInv, AskOK, Labelled, RequestFields
    <3>3. LastTurn' = LastTurn /\ attempt' \in Nat \ {0} /\ stage' # "idle"
      BY <3>1 DEF SelectionInv, LastTurn
    <3>. QED
      BY <2>2, <3>1, <3>2, <3>3, TurnsStay
  <2>. QED
    BY <2>3, <2>4
<1>7. CASE AdapterRefused
  BY <1>7, AnsweredKeeps DEF AdapterRefused, SelectionInv, FactsOK
<1>8. CASE Retry
  <2>1. FactsOK' /\ stage = "failed"
    BY <1>8 DEF Retry, SelectionInv, FactsOK
  <2>2. CASE Answered
    BY <2>1, <2>2, AnsweredKeeps
  <2>3. CASE ~Answered
    <3>1. stage' = "selecting" /\ attempt' = attempt + 1 /\ ask' = ask /\ UNCHANGED history
      BY <1>8, <2>3 DEF Retry
    <3>2. LastTurn' = LastTurn /\ attempt' \in Nat \ {0} /\ stage' # "idle" /\ AskOK'
      BY <2>1, <3>1 DEF SelectionInv, LastTurn, AskOK
    <3>. QED
      BY <2>1, <3>1, <3>2, TurnsStay
  <2>. QED
    BY <2>2, <2>3
<1>9. CASE RefreshPool \/ OtherTakes \/ SlotEnds
  BY <1>1, <1>9 DEF RefreshPool, OtherTakes, SlotEnds
<1>10. CASE FactsAge
  <2>1. UNCHANGED <<acquire, history>> /\ FactsOK'
    BY <1>10 DEF FactsAge, FactsOK
  <2>. QED
    BY <2>1 DEF SelectionInv, AskOK, TurnsTaken, LastTurn, acquire, history
<1>. QED
  BY <1>2, <1>3, <1>4, <1>5, <1>6, <1>7, <1>8, <1>9, <1>10 DEF SelectionNext

LEMMA SelectionInvariant == SelectionSpec => []SelectionInv
<1>1. SelectionInv /\ [SelectionNext]_selection => SelectionInv'
  BY SelectionStep
<1>. QED
  BY <1>1, SelectionStart, PTL DEF SelectionSpec

\* With the types, what the number of attempts depends on.
SelectionTypes == SelectionTypeOK /\ (stage # "idle" => ask.max \in Nat)

LEMMA HeldStays ==
  ASSUME held \in [AccountIds -> SUBSET PoolHolder], NEW a, NEW h \in PoolHolder
  PROVE  /\ [held EXCEPT ![a] = @ \cup {h}] \in [AccountIds -> SUBSET PoolHolder]
         /\ [held EXCEPT ![a] = @ \ {h}] \in [AccountIds -> SUBSET PoolHolder]
<1>1. CASE a \in AccountIds
  BY <1>1
<1>2. CASE a \notin AccountIds
  BY <1>2
<1>. QED
  BY <1>1, <1>2

LEMMA SelectionTypesStep ==
  ASSUME SelectionInv, SelectionTypes, [SelectionNext]_selection PROVE SelectionTypes'
<1>. USE DEF SelectionTypes, SelectionTypeOK
<1>1. CASE BeginAcquire
  BY <1>1, SelectionAssumption DEF BeginAcquire, history
<1>2. CASE SelectEndpoint
  <2>1. /\ UNCHANGED <<held, facts, ask, attempt>> /\ stage = "selecting"
        /\ stage' \in {"chosen", "failed"}
    BY <1>2 DEF SelectEndpoint
  <2>2. PICK C \in Offers(ask, ProbeHolder) :
          IF C = {} THEN visited' = {}
          ELSE /\ pick' = Offer(Choose(C, ask, attempt))
               /\ visited' = (IF offered' = offered THEN visited ELSE {}) \cup {pick'.account}
    BY <1>2 DEF SelectEndpoint
  <2>3. visited' \subseteq AccountIds
    <3>1. CASE C = {}
      BY <2>2, <3>1
    <3>2. CASE C # {}
      <4>1. Owners(C) \subseteq AccountIds
        BY OffersAre, FewCandidates DEF SelectionInv
      <4>2. Choose(C, ask, attempt) \in C
        BY <2>1, <3>2, OneChosen
      <4>3. pick'.account \in AccountIds
        BY <2>2, <3>2, <4>1, <4>2 DEF Offer, Owners
      <4>. QED
        BY <2>2, <3>2, <4>3
    <3>. QED
      BY <3>1, <3>2
  <2>. QED
    BY <2>1, <2>3
<1>3. CASE TakeSlot
  <2>1. held' \in [AccountIds -> SUBSET PoolHolder]
    BY <1>3, HeldStays DEF TakeSlot, Slots!Take, PoolHolder
  <2>. QED
    BY <1>3, <2>1 DEF TakeSlot, history
<1>4. CASE AskProvider
  <2>1. held' \in [AccountIds -> SUBSET PoolHolder]
    BY <1>4, HeldStays DEF AskProvider, PoolHolder
  <2>2. \A e \in Endpoints : facts'[e].ok \in 0..MaxFacts /\ facts'[e].bad \in 0..MaxFacts
    <3>1. CASE pick.endpoint \in Endpoints
      <4>1. /\ facts[pick.endpoint] \in [ok : Nat, bad : Nat]
            /\ facts[pick.endpoint].ok + facts[pick.endpoint].bad < MaxFacts
        BY <1>4, <3>1 DEF AskProvider, RoomForFacts, SelectionInv, FactsOK
      <4>2. \/ facts' = [facts EXCEPT ![pick.endpoint].ok = @ + 1]
            \/ facts' = [facts EXCEPT ![pick.endpoint].bad = @ + 1]
        BY <1>4 DEF AskProvider
      <4>3. \A e \in Endpoints \ {pick.endpoint} : facts'[e] = facts[e]
        BY <4>2 DEF SelectionInv, FactsOK
      <4>4. \/ facts'[pick.endpoint] = [facts[pick.endpoint] EXCEPT !.ok = @ + 1]
            \/ facts'[pick.endpoint] = [facts[pick.endpoint] EXCEPT !.bad = @ + 1]
        BY <3>1, <4>2 DEF SelectionInv, FactsOK
      <4> DEFINE f == facts[pick.endpoint]
      <4>5. \A g : g \in {[f EXCEPT !.ok = @ + 1], [f EXCEPT !.bad = @ + 1]} =>
              g.ok \in 0..MaxFacts /\ g.bad \in 0..MaxFacts
        BY <4>1, SelectionAssumption
      <4> HIDE DEF f
      <4>6. facts'[pick.endpoint] \in {[f EXCEPT !.ok = @ + 1], [f EXCEPT !.bad = @ + 1]}
        BY <4>4 DEF f
      <4>. QED
        BY <4>3, <4>5, <4>6
    <3>2. CASE pick.endpoint \notin Endpoints
      <4>1. facts' = facts
        BY <1>4, <3>2 DEF AskProvider, SelectionInv, FactsOK
      <4>. QED
        BY <4>1
    <3>. QED
      BY <3>1, <3>2
  <2>3. stage' # "idle" => ask'.max \in Nat
    BY <1>4 DEF AskProvider, Answered, Labelled, SelectionInv, AskOK, RequestFields
  <2>4. stage' \in {"idle", "failed"} /\ attempt' \in 1..20 /\ visited' \subseteq AccountIds
    BY <1>4 DEF AskProvider, Answered
  <2>. QED
    BY <2>1, <2>2, <2>3, <2>4
<1>5. CASE AdapterRefused
  <2>1. held' \in [AccountIds -> SUBSET PoolHolder]
    BY <1>5, HeldStays DEF AdapterRefused, PoolHolder
  <2>. QED
    BY <1>5, <2>1 DEF AdapterRefused, Answered
<1>6. CASE Retry
  <2>1. attempt < MaxAttempts(ask) => attempt + 1 \in 1..20
    BY <1>6 DEF Retry, MaxAttempts, MinOf
  <2>. QED
    BY <1>6, <2>1 DEF Retry, Answered, history
<1>7. CASE RefreshPool \/ OtherTakes \/ SlotEnds
  <2>1. held' \in [AccountIds -> SUBSET PoolHolder]
    <3>1. CASE RefreshPool
      BY <3>1, HeldStays DEF RefreshPool, Slots!Take, PoolHolder
    <3>2. CASE OtherTakes
      BY <3>2, HeldStays DEF OtherTakes, Slots!Take, PoolHolder
    <3>3. CASE SlotEnds
      BY <3>3, HeldStays DEF SlotEnds
    <3>. QED
      BY <1>7, <3>1, <3>2, <3>3
  <2>2. UNCHANGED <<facts, acquire, history>>
    BY <1>7 DEF RefreshPool, OtherTakes, SlotEnds
  <2>. QED
    BY <2>1, <2>2 DEF acquire, history
<1>8. CASE FactsAge
  BY <1>8, SelectionAssumption DEF FactsAge, acquire, history
<1>9. CASE UNCHANGED selection
  BY <1>9 DEF selection
<1>. QED
  BY <1>1, <1>2, <1>3, <1>4, <1>5, <1>6, <1>7, <1>8, <1>9 DEF SelectionNext

\* The acquisition keeps to its stages and its twenty attempts, slots are held
\* by those who may hold them, and what was tried are accounts (selection.go,
\* maxDynamicIPSelectionAttempts).
THEOREM SelectionTypeCorrect == SelectionSpec => []SelectionTypeOK
<1>1. SelectionInit => SelectionTypes
  BY SelectionAssumption DEF SelectionInit, SelectionTypes, SelectionTypeOK
<1>2. SelectionInv /\ SelectionTypes /\ [SelectionNext]_selection => SelectionTypes'
  BY SelectionTypesStep
<1>3. SelectionTypes => SelectionTypeOK
  BY DEF SelectionTypes
<1>. QED
  BY <1>1, <1>2, <1>3, SelectionInvariant, PTL DEF SelectionSpec

\* What a selection chooses may be used, is in the region asked for when any
\* candidate is, and no candidate of its account in that scope scores better;
\* for any accounts, endpoints and requests (candidates.go,
\* ChooseEndpointCandidate).
THEOREM ChoiceIsGood == SelectionSpec => PickIsGood
<1>1. ASSUME SelectionInv, SelectionNext, stage' = "chosen", stage = "selecting"
      PROVE  \E C \in Offers(ask, ProbeHolder) : \E c \in C : Offer(c) = pick' /\ Good(c, C, ask)
  <2>1. SelectEndpoint
    BY <1>1 DEF SelectionNext, BeginAcquire, TakeSlot, AskProvider, AdapterRefused, Retry,
       Answered, RefreshPool, OtherTakes, SlotEnds, FactsAge, acquire
  <2>2. PICK C \in Offers(ask, ProbeHolder) : C # {} /\ pick' = Offer(Choose(C, ask, attempt))
    BY <1>1, <2>1 DEF SelectEndpoint
  <2>3. Choose(C, ask, attempt) \in C /\ Good(Choose(C, ask, attempt), C, ask)
    BY <1>1, <2>2, OneChosen
  <2>. QED
    BY <2>2, <2>3
<1>2. ASSUME SelectionInv, [SelectionNext]_selection
      PROVE  [stage' = "chosen" /\ stage = "selecting"
                => \E C \in Offers(ask, ProbeHolder) :
                     \E c \in C : Offer(c) = pick' /\ Good(c, C, ask)]_selection
  BY <1>1, <1>2
<1>. QED
  BY <1>2, SelectionInvariant, PTL DEF SelectionSpec, PickIsGood

\* While the candidates in scope stay the same, one more selection than there
\* are accounts has tried each of them, whatever their number, their hashes and
\* the key of the request (the attempt's turn in ChooseEndpointCandidate).
THEOREM RotationLeavesNoneOut == SelectionSpec => []EveryAccountTried
<1>1. ASSUME SelectionInv PROVE EveryAccountTried
  <2> DEFINE O == Owners(offered)
             N == Cardinality(O)
  <2>. SUFFICES ASSUME rounds > N, NEW a \in O PROVE a \in visited
    BY DEF EveryAccountTried
  <2>1. O \in SUBSET AccountIds /\ IsFiniteSet(O) /\ O # {}
    BY <1>1 DEF SelectionInv, TurnsTaken
  <2>2. N \in Nat \ {0}
    BY <2>1, FS_CardinalityType, FS_EmptySet
  <2>3. PICK k \in 0..(N - 1) : Nth(O, k) = a
    BY <2>1, TurnsOfAccounts
  <2>4. /\ rounds \in 0..LastTurn /\ LastTurn \in Int
        /\ \A t \in (LastTurn - rounds + 1)..LastTurn : t > 1 => Nth(O, (t - 1) % N) \in visited
    BY <1>1 DEF SelectionInv, TurnsTaken, LastTurn
  <2> HIDE DEF N, O
  <2>5. LastTurn - N \in Nat
    BY <2>2, <2>4
  <2>6. PICK i \in 0..(N - 1) : ((LastTurn - N) + i) % N = k
    BY <2>2, <2>5, EveryPlaceComes
  <2> DEFINE t == (LastTurn - N) + i + 1
  <2>7. t \in (LastTurn - rounds + 1)..LastTurn /\ t > 1 /\ t - 1 = (LastTurn - N) + i
    BY <2>2, <2>4, <2>6
  <2>. QED
    BY <2>3, <2>4, <2>6, <2>7
<1>. QED
  BY <1>1, SelectionInvariant, PTL

-----------------------------------------------------------------------------
(* The keys of a provider, round the ring.                                  *)

LookupFields == {"at", "provider", "attempt", "key", "reports", "sends", "until", "by", "last",
                 "after", "began", "tried"}
FraudShape ==
  /\ moment \in Nat
  /\ DOMAIN rests = DOMAIN KeyCount /\ DOMAIN next = DOMAIN KeyCount
  /\ \A p \in DOMAIN KeyCount : rests[p] \in [Keys(p) -> Nat] /\ next[p] \in Keys(p)
  /\ DOMAIN lookup = FraudLookup
  /\ \A c \in FraudLookup : DOMAIN lookup[c] = LookupFields

\* A lookup, and the rests of keys it depends on.
RestsSince(l, r, p, k) == r[p][k] > l.began
LookupOf(l, r, now) ==
  /\ l.at \in {"idle", "ask", "sent", "wait"}
  /\ l.attempt \in Nat /\ l.provider \in Nat /\ l.after \in Nat /\ l.began \in 0..now
  /\ l.at \in {"sent", "wait"} => l.provider \in DOMAIN KeyCount /\ l.key \in Keys(l.provider)
  /\ l.at # "idle" /\ l.provider \in DOMAIN KeyCount =>
       /\ l.tried \subseteq Keys(l.provider)
       /\ \A k \in l.tried : (l.at # "ask" /\ k = l.key) \/ RestsSince(l, r, l.provider, k)

FraudInv == FraudShape /\ \A c \in FraudLookup : LookupOf(lookup[c], rests, moment)

\* A lookup that stays as it is does not mind when time passes or a key is
\* put to rest.
LEMMA OthersStay ==
  ASSUME FraudShape, NEW l, LookupOf(l, rests, moment),
         NEW r, NEW now \in Nat, now >= moment,
         \A p \in DOMAIN KeyCount : r[p] \in [Keys(p) -> Nat],
         \A p \in DOMAIN KeyCount : \A k \in Keys(p) : r[p][k] = rests[p][k] \/ r[p][k] > moment
  PROVE  LookupOf(l, r, now)
BY DEF LookupOf, RestsSince, FraudShape

LEMMA FraudStart == FraudInit => FraudInv
BY FraudAssumption DEF FraudInit, FraudInv, FraudShape, LookupFields, LookupOf, IdleLookup, Keys

\* Steps of one lookup that put no key to rest and leave it in shape.
LEMMA OneMoves ==
  ASSUME FraudInv, NEW c \in FraudLookup, NEW l,
         lookup' = [lookup EXCEPT ![c] = l], DOMAIN l = LookupFields,
         LookupOf(l, rests, moment), UNCHANGED <<rests, moment>>,
         DOMAIN next' = DOMAIN KeyCount, \A p \in DOMAIN KeyCount : next'[p] \in Keys(p)
  PROVE  FraudInv'
<1>1. FraudShape'
  BY DEF FraudInv, FraudShape
<1>2. \A d \in FraudLookup : lookup'[d] = IF d = c THEN l ELSE lookup[d]
  BY DEF FraudInv, FraudShape
<1>3. \A d \in FraudLookup : LookupOf(lookup'[d], rests', moment')
  BY <1>2 DEF FraudInv
<1>. QED
  BY <1>1, <1>3 DEF FraudInv

\* The lookup comes to the next provider.
NextStop(l, reports) ==
  [IdleLookup EXCEPT !.at = "ask", !.provider = l.provider + 1, !.reports = reports, !.began = moment]

LEMMA OntoKeeps ==
  ASSUME FraudInv, NEW c \in FraudLookup, NEW reports, OnTo(c, reports),
         UNCHANGED <<rests, moment, next>>
  PROVE  FraudInv'
<1>1. lookup' = [lookup EXCEPT ![c] = NextStop(lookup[c], reports)]
  BY DEF OnTo, NextStop
<1>2. lookup[c].provider \in Nat /\ moment \in Nat
  BY DEF FraudInv, LookupOf, FraudShape
<1>3. DOMAIN NextStop(lookup[c], reports) = LookupFields
  BY DEF NextStop, IdleLookup, LookupFields
<1>4. LookupOf(NextStop(lookup[c], reports), rests, moment)
  BY <1>2 DEF NextStop, IdleLookup, LookupOf
<1>5. /\ DOMAIN next' = DOMAIN KeyCount
      /\ \A p \in DOMAIN KeyCount : next'[p] \in Keys(p)
  BY DEF FraudInv, FraudShape
<1>. QED
  BY <1>1, <1>3, <1>4, <1>5, OneMoves

LEMMA KeyOfRing ==
  ASSUME FraudInv, NEW p \in DOMAIN KeyCount, Awake(p) # {}
  PROVE  /\ NextKey(p) \in Keys(p)
         /\ (NextKey(p) + 1) % KeyCount[p] \in Keys(p)
<1>1. KeyCount[p] \in Nat \ {0} /\ next[p] \in Nat /\ Awake(p) \in SUBSET Nat
  BY FraudAssumption DEF FraudInv, FraudShape, Keys, Awake
<1>2. \E i \in Awake(p) : \A j \in Awake(p) : i <= j
  BY <1>1, LeastOf
<1>3. (CHOOSE i \in Awake(p) : \A j \in Awake(p) : i <= j) \in Nat
  BY <1>1, <1>2
<1>4. NextKey(p) \in Keys(p)
  <2> DEFINE i == CHOOSE i \in Awake(p) : \A j \in Awake(p) : i <= j
  <2>1. next[p] + i \in Nat /\ NextKey(p) = (next[p] + i) % KeyCount[p]
    BY <1>1, <1>3 DEF NextKey
  <2> HIDE DEF i
  <2>. QED
    BY <1>1, <2>1, RingStays DEF Keys
<1>. QED
  BY <1>1, <1>4, RingStays DEF Keys

LEMMA StartKeeps ==
  ASSUME FraudInv, NEW c \in FraudLookup, StartLookup(c)
  PROVE  FraudInv'
<1>1. CASE UNCHANGED <<lookup, kept>>
  BY <1>1 DEF StartLookup, FraudInv, FraudShape
<1>2. CASE lookup' = [lookup EXCEPT ![c] = [IdleLookup EXCEPT
             !.at = "ask", !.provider = 1, !.began = moment]]
  <2> DEFINE l == [IdleLookup EXCEPT !.at = "ask", !.provider = 1, !.began = moment]
  <2>1. DOMAIN l = LookupFields
    BY DEF IdleLookup, LookupFields
  <2>2. LookupOf(l, rests, moment)
    BY DEF IdleLookup, LookupOf, FraudInv, FraudShape
  <2>3. /\ UNCHANGED <<rests, moment>> /\ DOMAIN next' = DOMAIN KeyCount
        /\ \A p \in DOMAIN KeyCount : next'[p] \in Keys(p)
    BY DEF StartLookup, FraudInv, FraudShape
  <2> HIDE DEF l
  <2>4. lookup' = [lookup EXCEPT ![c] = l]
    BY <1>2 DEF l
  <2>. QED
    BY <2>1, <2>2, <2>3, <2>4, OneMoves
<1>. QED
  BY <1>1, <1>2 DEF StartLookup

Sent(l, k, now) ==
  [l EXCEPT !.at = "sent", !.sends = 1, !.by = now + ClientTimeout, !.key = k, !.tried = @ \cup {k}]

LEMMA TakeKeeps ==
  ASSUME FraudInv, NEW c \in FraudLookup, TakeKey(c)
  PROVE  FraudInv'
<1> DEFINE p == lookup[c].provider
<1>1. p \in DOMAIN KeyCount /\ lookup[c].at = "ask" /\ UNCHANGED <<rests, moment>>
  BY DEF TakeKey
<1>2. CASE Exhausted(c, p)
  BY <1>1, <1>2, OntoKeeps DEF TakeKey
<1>3. CASE ~Exhausted(c, p)
  <2>1. NextKey(p) \in Keys(p) /\ (NextKey(p) + 1) % KeyCount[p] \in Keys(p)
    BY <1>1, <1>3, KeyOfRing DEF Exhausted
  <2>2. /\ lookup' = [lookup EXCEPT ![c] = Sent(lookup[c], NextKey(p), moment)]
        /\ next' = [next EXCEPT ![p] = (NextKey(p) + 1) % KeyCount[p]]
    BY <1>3 DEF TakeKey, Sent
  <2>3. /\ DOMAIN lookup[c] = LookupFields /\ LookupOf(lookup[c], rests, moment)
        /\ DOMAIN next = DOMAIN KeyCount /\ \A q \in DOMAIN KeyCount : next[q] \in Keys(q)
    BY DEF FraudInv, FraudShape
  <2>4. DOMAIN Sent(lookup[c], NextKey(p), moment) = LookupFields
    BY <2>3 DEF Sent, LookupFields
  <2>5. LookupOf(Sent(lookup[c], NextKey(p), moment), rests, moment)
    BY <1>1, <2>1, <2>3 DEF Sent, LookupFields, LookupOf, RestsSince
  <2>6. DOMAIN next' = DOMAIN KeyCount /\ \A q \in DOMAIN KeyCount : next'[q] \in Keys(q)
    BY <1>1, <2>1, <2>2, <2>3
  <2>. QED
    BY <1>1, <2>2, <2>4, <2>5, <2>6, OneMoves
<1>. QED
  BY <1>2, <1>3

\* A step of a request that goes on.
Leads(l, m) ==
  /\ DOMAIN m = LookupFields /\ m.at \in {"sent", "wait"} /\ m.after \in Nat
  /\ l.at \in {"sent", "wait"}
  /\ \A x \in {"provider", "attempt", "key", "began", "tried"} : m[x] = l[x]

LEMMA RequestGoesOn ==
  ASSUME FraudInv, NEW c \in FraudLookup, NEW m, Leads(lookup[c], m),
         lookup' = [lookup EXCEPT ![c] = m], UNCHANGED <<rests, moment, next>>
  PROVE  FraudInv'
<1>1. LookupOf(lookup[c], rests, moment) /\ DOMAIN m = LookupFields
  BY DEF FraudInv, Leads
<1>2. LookupOf(m, rests, moment)
  BY <1>1 DEF Leads, LookupOf, RestsSince
<1>3. DOMAIN next' = DOMAIN KeyCount /\ \A p \in DOMAIN KeyCount : next'[p] \in Keys(p)
  BY DEF FraudInv, FraudShape
<1>. QED
  BY <1>1, <1>2, <1>3, OneMoves

LEMMA MayPassKeeps ==
  ASSUME FraudInv, NEW c \in FraudLookup, MayPass(c)
  PROVE  FraudInv'
<1>1. DOMAIN lookup[c] = LookupFields /\ lookup[c].at = "sent"
  BY DEF FraudInv, FraudShape, MayPass
<1>2. PICK answer \in {"quota", "other"} :
        \E retryAfter \in RetryAfters :
          lookup' = [lookup EXCEPT ![c] = [@ EXCEPT
            !.at = "wait", !.last = answer,
            !.after = IF answer = "quota" THEN retryAfter ELSE 0,
            !.until = IF lookup[c].sends < MaxSends THEN moment + Backoff(retryAfter) ELSE 0]]
  BY DEF MayPass
<1>3. PICK retryAfter \in RetryAfters :
          lookup' = [lookup EXCEPT ![c] = [lookup[c] EXCEPT
            !.at = "wait", !.last = answer,
            !.after = IF answer = "quota" THEN retryAfter ELSE 0,
            !.until = IF lookup[c].sends < MaxSends THEN moment + Backoff(retryAfter) ELSE 0]]
  BY <1>2
<1>4. retryAfter \in Nat
  BY FraudAssumption
<1>5. Leads(lookup[c], [lookup[c] EXCEPT
            !.at = "wait", !.last = answer,
            !.after = IF answer = "quota" THEN retryAfter ELSE 0,
            !.until = IF lookup[c].sends < MaxSends THEN moment + Backoff(retryAfter) ELSE 0])
  BY <1>1, <1>4 DEF Leads, LookupFields
<1>. QED
  BY <1>3, <1>5, RequestGoesOn DEF MayPass

LEMMA SendAgainKeeps ==
  ASSUME FraudInv, NEW c \in FraudLookup, SendAgain(c)
  PROVE  FraudInv'
<1>1. /\ DOMAIN lookup[c] = LookupFields /\ lookup[c].at = "wait" /\ lookup[c].after \in Nat
      /\ lookup' = [lookup EXCEPT ![c] = [lookup[c] EXCEPT !.at = "sent", !.sends = @ + 1, !.until = 0]]
  BY DEF FraudInv, FraudShape, LookupOf, SendAgain
<1>2. Leads(lookup[c], [lookup[c] EXCEPT !.at = "sent", !.sends = @ + 1, !.until = 0])
  BY <1>1 DEF Leads, LookupFields
<1>. QED
  BY <1>1, <1>2, RequestGoesOn DEF SendAgain

\* A key that is put to rest stays so beyond what every lookup has seen.
Spent(l) ==
  [l EXCEPT !.at = "ask", !.attempt = @ + 1, !.key = 0, !.sends = 0, !.by = 0,
            !.last = "none", !.after = 0, !.until = 0]

LEMMA UsedUpKeeps ==
  ASSUME FraudInv, NEW c \in FraudLookup, lookup[c].at \in {"sent", "wait"},
         NEW retryAfter \in Nat, UsedUp(c, retryAfter), UNCHANGED <<moment, next>>
  PROVE  FraudInv'
<1> DEFINE p == lookup[c].provider
           k == lookup[c].key
<1>1. /\ FraudShape /\ LookupOf(lookup[c], rests, moment) /\ DOMAIN lookup[c] = LookupFields
      /\ p \in DOMAIN KeyCount /\ k \in Keys(p) /\ moment \in Nat
  BY DEF FraudInv, FraudShape, LookupOf
<1>2. moment + Rest(retryAfter) \in Nat /\ moment + Rest(retryAfter) > moment
  BY <1>1, FraudAssumption DEF Rest
<1>3. /\ rests' = [rests EXCEPT ![p][k] = moment + Rest(retryAfter)]
      /\ lookup' = [lookup EXCEPT ![c] = Spent(lookup[c])]
  BY DEF UsedUp, Spent
<1>4. /\ DOMAIN rests' = DOMAIN KeyCount
      /\ \A q \in DOMAIN KeyCount : rests'[q] \in [Keys(q) -> Nat]
      /\ \A q \in DOMAIN KeyCount : \A x \in Keys(q) : rests'[q][x] = rests[q][x] \/ rests'[q][x] > moment
      /\ rests'[p][k] > moment
  BY <1>1, <1>2, <1>3 DEF FraudShape
<1>5. DOMAIN Spent(lookup[c]) = LookupFields
  BY <1>1 DEF Spent, LookupFields
<1>6. FraudShape'
  BY <1>1, <1>3, <1>4, <1>5 DEF FraudShape
<1>7. LookupOf(Spent(lookup[c]), rests', moment)
  <2>1. LookupOf(lookup[c], rests', moment)
    BY <1>1, <1>4, OthersStay
  <2>. QED
    BY <1>1, <1>4, <2>1 DEF LookupOf, RestsSince, Spent, LookupFields
<1>8. ASSUME NEW d \in FraudLookup PROVE LookupOf(lookup'[d], rests', moment')
  <2>1. CASE d = c
    BY <1>1, <1>3, <1>7, <2>1 DEF FraudShape
  <2>2. CASE d # c
    <3>1. lookup'[d] = lookup[d] /\ LookupOf(lookup[d], rests, moment)
      BY <1>1, <1>3, <2>2 DEF FraudShape, FraudInv
    <3>. QED
      BY <1>1, <1>4, <3>1, OthersStay
  <2>. QED
    BY <2>1, <2>2
<1>. QED
  BY <1>6, <1>8 DEF FraudInv

LEMMA FraudStep == ASSUME FraudInv, [FraudNext]_fraudVars PROVE FraudInv'
<1>1. CASE UNCHANGED fraudVars
  BY <1>1 DEF fraudVars, FraudInv, FraudShape
<1>2. ASSUME NEW c \in FraudLookup, StartLookup(c) PROVE FraudInv'
  BY <1>2, StartKeeps
<1>3. ASSUME NEW c \in FraudLookup, TakeKey(c) PROVE FraudInv'
  BY <1>3, TakeKeeps
<1>4. ASSUME NEW c \in FraudLookup, Reported(c) PROVE FraudInv'
  BY <1>4, OntoKeeps DEF Reported
<1>5. ASSUME NEW c \in FraudLookup, QuotaUsedUp(c) PROVE FraudInv'
  BY <1>5, UsedUpKeeps, FraudAssumption DEF QuotaUsedUp
<1>6. ASSUME NEW c \in FraudLookup, MayPass(c) \/ SendAgain(c) PROVE FraudInv'
  BY <1>6, MayPassKeeps, SendAgainKeeps
<1>7. ASSUME NEW c \in FraudLookup, LastAnswer(c) PROVE FraudInv'
  <2>1. CASE LastIsQuota(c)
    <3>1. lookup[c].at = "wait" /\ lookup[c].after \in Nat
      BY <1>7 DEF LastAnswer, FraudInv, LookupOf
    <3>. QED
      BY <1>7, <2>1, <3>1, UsedUpKeeps DEF LastAnswer
  <2>2. CASE ~LastIsQuota(c)
    BY <1>7, <2>2, OntoKeeps DEF LastAnswer
  <2>. QED
    BY <2>1, <2>2
<1>8. ASSUME NEW c \in FraudLookup, RequestEnds(c) PROVE FraudInv'
  BY <1>8, OntoKeeps DEF RequestEnds
<1>9. ASSUME NEW c \in FraudLookup, FinishLookup(c) PROVE FraudInv'
  <2>1. DOMAIN IdleLookup = LookupFields /\ LookupOf(IdleLookup, rests, moment)
    BY DEF IdleLookup, LookupFields, LookupOf, FraudInv, FraudShape
  <2>2. DOMAIN next' = DOMAIN KeyCount /\ \A p \in DOMAIN KeyCount : next'[p] \in Keys(p)
    BY <1>9 DEF FraudInv, FraudShape, FinishLookup
  <2>. QED
    BY <1>9, <2>1, <2>2, OneMoves DEF FinishLookup
<1>10. CASE MomentPasses
  <2>1. moment' \in Nat /\ moment' >= moment /\ UNCHANGED <<rests, next, lookup>> /\ FraudShape
    BY <1>10 DEF MomentPasses, FraudInv, FraudShape
  <2>2. \A c \in FraudLookup : LookupOf(lookup[c], rests, moment')
    BY <2>1, OthersStay DEF FraudInv, FraudShape
  <2>. QED
    BY <2>1, <2>2 DEF FraudInv, FraudShape
<1>. QED
  BY <1>1, <1>2, <1>3, <1>4, <1>5, <1>6, <1>7, <1>8, <1>9, <1>10 DEF FraudNext

LEMMA FraudInvHolds == FraudSpec => []FraudInv
<1>1. FraudInv /\ [FraudNext]_fraudVars => FraudInv'
  BY FraudStep
<1>. QED
  BY <1>1, FraudStart, PTL DEF FraudSpec

\* A lookup is in one of its places, and a ring points at one of its keys.
THEOREM FraudTypeCorrect == FraudSpec => []FraudTypeOK
<1>1. FraudInv => FraudTypeOK
  BY DEF FraudInv, FraudShape, LookupOf, FraudTypeOK
<1>. QED
  BY <1>1, FraudInvHolds, PTL

\* A provider is passed over only when its keys have been resting since the
\* lookup came to it, or when it did not answer that the quota is used up; for
\* any number of lookups, providers and keys (keyring.go, http_provider.go).
THEOREM KeysTriedBeforePassing == FraudSpec => PassedOverForCause
<1> DEFINE Cause(c) ==
      LET p == lookup[c].provider IN
      /\ p \in DOMAIN KeyCount /\ lookup'[c].provider = p + 1
      /\ lookup'[c].reports = lookup[c].reports
      => CASE lookup[c].at = "ask" -> \/ \A k \in Keys(p) : rests[p][k] > lookup[c].began
                                      \/ Cardinality(lookup[c].tried) # lookup[c].attempt
           [] lookup[c].at = "wait" -> lookup[c].last # "quota" \/ moment >= lookup[c].by
           [] OTHER -> TRUE
<1>1. ASSUME FraudInv, FraudNext, NEW c \in FraudLookup PROVE Cause(c)
  <2> DEFINE p == lookup[c].provider
             l == lookup[c]
  <2>. SUFFICES ASSUME p \in DOMAIN KeyCount, lookup'[c].provider = p + 1
                PROVE  /\ l.at = "ask" => \/ \A k \in Keys(p) : rests[p][k] > l.began
                                          \/ Cardinality(l.tried) # l.attempt
                       /\ l.at = "wait" => l.last # "quota" \/ moment >= l.by
    OBVIOUS
  <2>1. /\ FraudShape /\ LookupOf(l, rests, moment) /\ DOMAIN l = LookupFields
        /\ p \in Nat /\ l.began <= moment /\ l.began \in Nat /\ moment \in Nat
    BY <1>1 DEF FraudInv, FraudShape, LookupOf
  <2>2. lookup'[c] # lookup[c]
    BY <2>1
  <2>3. PICK d \in FraudLookup :
          \/ StartLookup(d) \/ TakeKey(d) \/ Reported(d) \/ QuotaUsedUp(d) \/ MayPass(d)
          \/ SendAgain(d) \/ LastAnswer(d) \/ RequestEnds(d) \/ FinishLookup(d)
    BY <1>1, <2>2 DEF FraudNext, MomentPasses
  <2>4. d = c
    BY <2>1, <2>2, <2>3 DEF StartLookup, TakeKey, Reported, QuotaUsedUp, UsedUp, MayPass,
       SendAgain, LastAnswer, RequestEnds, FinishLookup, OnTo, FraudShape
  <2>5. CASE l.at = "ask"
    <3>1. TakeKey(c) \/ FinishLookup(c)
      BY <2>3, <2>4, <2>5 DEF StartLookup, Reported, QuotaUsedUp, MayPass, SendAgain, LastAnswer,
         RequestEnds
    <3>2. TakeKey(c)
      BY <3>1 DEF FinishLookup
    <3>3. Exhausted(c, p)
      <4>1. SUFFICES ASSUME ~Exhausted(c, p) PROVE lookup'[c].provider = p
        BY <2>1
      <4>2. lookup' = [lookup EXCEPT ![c] = Sent(lookup[c], NextKey(p), moment)]
        BY <3>2, <4>1 DEF TakeKey, Sent
      <4>. QED
        BY <2>1, <4>2 DEF Sent, FraudShape, LookupFields
    <3>4. CASE Awake(p) = {}
      <4>1. ASSUME NEW k \in Keys(p) PROVE rests[p][k] > l.began
        <5>1. KeyCount[p] \in Nat \ {0} /\ next[p] \in Nat
          BY <2>1, FraudAssumption DEF FraudShape, Keys
        <5>2. PICK i \in 0..(KeyCount[p] - 1) : (next[p] + i) % KeyCount[p] = k
          BY <5>1, EveryPlaceComes DEF Keys
        <5>3. ~(rests[p][k] <= moment)
          BY <3>4, <5>2 DEF Awake, Keys
        <5>. QED
          BY <2>1, <5>3 DEF FraudShape
      <4>. QED
        BY <2>5, <4>1
    <3>5. CASE l.attempt = KeyCount[p] /\ Cardinality(l.tried) = l.attempt
      <4>1. l.tried \subseteq Keys(p) /\ \A k \in l.tried : rests[p][k] > l.began
        BY <2>1, <2>5 DEF LookupOf, RestsSince
      <4>2. IsFiniteSet(Keys(p)) /\ Cardinality(Keys(p)) = KeyCount[p]
        BY FraudAssumption, RingSize DEF Keys
      <4>3. l.tried = Keys(p)
        BY <3>5, <4>1, <4>2, FS_Subset
      <4>. QED
        BY <2>5, <4>1, <4>3
    <3>. QED
      BY <2>5, <3>3, <3>4, <3>5 DEF Exhausted
  <2>6. CASE l.at = "wait"
    <3>1. LastAnswer(c) \/ RequestEnds(c) \/ SendAgain(c)
      BY <2>3, <2>4, <2>6 DEF StartLookup, TakeKey, Reported, QuotaUsedUp, MayPass, FinishLookup
    <3>2. CASE RequestEnds(c)
      BY <2>6, <3>2 DEF RequestEnds, LookupOf
    <3>3. CASE SendAgain(c)
      BY <2>1, <3>3 DEF SendAgain, FraudShape, LookupFields
    <3>4. CASE LastAnswer(c)
      <4>1. ~LastIsQuota(c)
        <5>1. SUFFICES ASSUME LastIsQuota(c) PROVE lookup'[c].provider = p
          BY <2>1
        <5>2. lookup' = [lookup EXCEPT ![c] = Spent(lookup[c])]
          BY <3>4, <5>1 DEF LastAnswer, UsedUp, Spent
        <5>. QED
          BY <2>1, <5>2 DEF Spent, FraudShape, LookupFields
      <4>. QED
        BY <2>6, <4>1 DEF LastIsQuota
    <3>. QED
      BY <3>1, <3>2, <3>3, <3>4
  <2>. QED
    BY <2>5, <2>6
<1>2. ASSUME FraudInv, [FraudNext]_fraudVars
      PROVE  [\A c \in FraudLookup : Cause(c)]_fraudVars
  BY <1>1, <1>2
<1>. QED
  BY <1>2, FraudInvHolds, PTL DEF FraudSpec, PassedOverForCause

-----------------------------------------------------------------------------
(* Reports: ranks, and what the merge makes of any number of them.          *)

\* One report after the other is merged: the definition by recursion has the
\* value it describes.
Merges(f, reports, k) ==
  f = [n \in 0..k |-> IF n = 0 THEN NoReports ELSE MergeReport(f[n - 1], reports[n])]

LEMMA MergingExists ==
  ASSUME NEW reports, NEW k \in Nat
  PROVE  \E f : Merges(f, reports, k)
<1>. DEFINE bad == {n \in Nat : ~ \E f : Merges(f, reports, n)}
<1>1. ASSUME bad # {} PROVE FALSE
  <2>1. PICK n \in bad : \A m \in bad : n <= m
    BY <1>1, LeastOf
  <2>2. CASE n = 0
    <3>. DEFINE g == [i \in 0..0 |-> NoReports]
    <3>1. Merges(g, reports, 0)
      BY DEF Merges
    <3>. QED
      BY <2>1, <2>2, <3>1
  <2>3. CASE n # 0
    <3>1. n - 1 \in Nat /\ n - 1 \notin bad
      BY <2>1, <2>3
    <3>2. PICK f : Merges(f, reports, n - 1)
      BY <3>1
    <3>. DEFINE g == [i \in 0..n |-> IF i = n THEN MergeReport(f[n - 1], reports[n]) ELSE f[i]]
    <3>3. \A i \in 0..(n - 1) : g[i] = f[i] /\ f[i] = IF i = 0 THEN NoReports ELSE MergeReport(f[i - 1], reports[i])
      BY <3>1, <3>2 DEF Merges
    <3>4. g[n] = MergeReport(g[n - 1], reports[n])
      BY <3>1, <3>3
    <3>5. \A i \in 0..n : g[i] = IF i = 0 THEN NoReports ELSE MergeReport(g[i - 1], reports[i])
      <4>1. ASSUME NEW i \in 0..(n - 1)
            PROVE  g[i] = IF i = 0 THEN NoReports ELSE MergeReport(g[i - 1], reports[i])
        <5>1. CASE i = 0
          BY <3>3, <5>1
        <5>2. CASE i # 0
          <6>1. i - 1 \in 0..(n - 1)
            BY <3>1, <5>2
          <6>2. g[i] = f[i] /\ g[i - 1] = f[i - 1]
            BY <3>3, <6>1
          <6>3. f[i] = MergeReport(f[i - 1], reports[i])
            BY <3>3, <5>2
          <6>. QED
            BY <5>2, <6>2, <6>3
        <5>. QED
          BY <5>1, <5>2
      <4>. HIDE DEF g
      <4>. QED
        BY <2>3, <3>1, <3>4, <4>1
    <3>6. Merges(g, reports, n)
      BY <3>5 DEF Merges
    <3>. QED
      BY <2>1, <3>6
  <2>. QED
    BY <2>2, <2>3
<1>. QED
  BY <1>1

LEMMA MergingMerges ==
  ASSUME NEW reports, Len(reports) \in Nat
  PROVE  Merges(Merging(reports), reports, Len(reports))
<1>1. PICK f : Merges(f, reports, Len(reports))
  BY MergingExists
<1>. QED
  BY <1>1 DEF Merging, Merges

\* What a report may say.
IsReport(r) ==
  /\ r.network \in ToSet(Networks) /\ r.anonymizer \in ToSet(Anonymizers)
  /\ r.level \in {"unknown", "low", "medium", "high", "critical"}
  /\ r.score \in 0..100 /\ r.signals \in SUBSET Flag

\* Ranks, one for each word.
LEMMA Ranks ==
  /\ \A x \in ToSet(Networks) : NetworkRank(x) \in 1..9
  /\ \A x, y \in ToSet(Networks) : NetworkRank(x) = NetworkRank(y) => x = y
  /\ \A x \in ToSet(Anonymizers) : AnonymizerRank(x) \in 1..6
  /\ \A x, y \in ToSet(Anonymizers) : AnonymizerRank(x) = AnonymizerRank(y) => x = y
  /\ \A x \in ToSet(Levels) : RiskRank(x) \in 1..6
  /\ \A x, y \in ToSet(Levels) : RiskRank(x) = RiskRank(y) => x = y
<1>1. ASSUME NEW order, NEW m \in Nat, DOMAIN order = 1..m
      PROVE  /\ \A x \in ToSet(order) : RankIn(order, x) \in 1..m /\ order[RankIn(order, x)] = x
             /\ \A x, y \in ToSet(order) : RankIn(order, x) = RankIn(order, y) => x = y
  <2>1. ASSUME NEW x \in ToSet(order) PROVE RankIn(order, x) \in 1..m /\ order[RankIn(order, x)] = x
    <3>1. \E i \in DOMAIN order : order[i] = x
      BY DEF ToSet
    <3>. QED
      BY <1>1, <3>1 DEF RankIn
  <2>. QED
    BY <2>1
<1>2. DOMAIN Networks = 1..9 /\ DOMAIN Anonymizers = 1..6 /\ DOMAIN Levels = 1..6
  BY DEF Networks, Anonymizers, Levels
<1>. QED
  BY <1>1, <1>2 DEF NetworkRank, AnonymizerRank, RiskRank

LEMMA LevelRanks ==
  /\ ToSet(Levels) = {"unsupported", "unknown", "low", "medium", "high", "critical"}
  /\ RiskRank("unsupported") = 1 /\ RiskRank("unknown") = 2 /\ RiskRank("low") = 3
  /\ RiskRank("medium") = 4 /\ RiskRank("high") = 5 /\ RiskRank("critical") = 6
<1>1. /\ DOMAIN Levels = 1..6
      /\ Levels[1] = "unsupported" /\ Levels[2] = "unknown" /\ Levels[3] = "low"
      /\ Levels[4] = "medium" /\ Levels[5] = "high" /\ Levels[6] = "critical"
  BY DEF Levels
<1>2. ToSet(Levels) = {"unsupported", "unknown", "low", "medium", "high", "critical"}
  BY <1>1 DEF ToSet
<1>. HIDE DEF Levels
<1>. QED
  BY <1>1, <1>2 DEF RiskRank, RankIn

\* A report without word for the risk has a level all the same.
LEMMA NormalLevels ==
  ASSUME NEW r, IsReport(r) PROVE NormalLevel(r) \in {"low", "medium", "high", "critical"}
BY DEF IsReport, NormalLevel, LevelFromScore

\* What the verdict v is of n reports: of each kind the strongest of the reports
\* and of what it was without any.
VerdictOf(v, rs, n) ==
  /\ v.network \in {"unknown"} \cup {rs[i].network : i \in 1..n}
  /\ v.anonymizer \in {"unknown"} \cup {rs[i].anonymizer : i \in 1..n}
  /\ v.level \in {"unknown"} \cup {NormalLevel(rs[i]) : i \in 1..n}
  /\ v.score \in {0} \cup {rs[i].score : i \in 1..n}
  /\ v.signals = UNION {rs[i].signals : i \in 1..n}
  /\ \A i \in 1..n : /\ NetworkRank(rs[i].network) <= NetworkRank(v.network)
                     /\ AnonymizerRank(rs[i].anonymizer) <= AnonymizerRank(v.anonymizer)
                     /\ RiskRank(NormalLevel(rs[i])) <= RiskRank(v.level)
                     /\ rs[i].score <= v.score

VerdictTyped(v) ==
  /\ v.network \in ToSet(Networks) /\ v.anonymizer \in ToSet(Anonymizers)
  /\ v.level \in ToSet(Levels) \ {"unsupported"} /\ v.score \in 0..100

LEMMA VerdictsTyped ==
  ASSUME NEW rs, NEW n \in Nat, \A i \in 1..n : IsReport(rs[i]), NEW v, VerdictOf(v, rs, n)
  PROVE  VerdictTyped(v)
<1>1. "unknown" \in ToSet(Networks) /\ "unknown" \in ToSet(Anonymizers)
  <2>1. /\ 1 \in DOMAIN Networks /\ Networks[1] = "unknown"
        /\ 1 \in DOMAIN Anonymizers /\ Anonymizers[1] = "unknown"
    BY DEF Networks, Anonymizers
  <2>. QED
    BY <2>1 DEF ToSet
<1>2. v.network \in ToSet(Networks) /\ v.anonymizer \in ToSet(Anonymizers) /\ v.score \in 0..100
  BY <1>1 DEF VerdictOf, IsReport
<1>3. v.level \in {"unknown", "low", "medium", "high", "critical"}
  BY NormalLevels DEF VerdictOf
<1>. QED
  BY <1>2, <1>3, LevelRanks DEF VerdictTyped

LEMMA ReportScore == ASSUME NEW r, IsReport(r) PROVE 0 <= r.score /\ r.score \in Int
BY DEF IsReport

LEMMA TypedScore == ASSUME NEW v, VerdictTyped(v) PROVE 0 <= v.score
BY DEF VerdictTyped

LEMMA VerdictStep ==
  ASSUME NEW rs, NEW n \in Nat, \A i \in 1..(n + 1) : IsReport(rs[i]),
         NEW v, VerdictOf(v, rs, n)
  PROVE  VerdictOf(MergeReport(v, rs[n + 1]), rs, n + 1)
<1>. DEFINE r == rs[n + 1]
            w == MergeReport(v, r)
<1>1. 1..(n + 1) = (1..n) \cup {n + 1} /\ n + 1 \in 1..(n + 1)
  OBVIOUS
<1>2. /\ v.network \in ToSet(Networks) /\ r.network \in ToSet(Networks)
      /\ v.anonymizer \in ToSet(Anonymizers) /\ r.anonymizer \in ToSet(Anonymizers)
      /\ v.level \in ToSet(Levels) /\ NormalLevel(r) \in ToSet(Levels)
      /\ v.score \in Int /\ r.score \in Int
  <2>1. IsReport(r) /\ VerdictTyped(v)
    BY <1>1, VerdictsTyped
  <2>2. NormalLevel(r) \in ToSet(Levels)
    BY <2>1, NormalLevels, LevelRanks
  <2>. QED
    BY <2>1, <2>2 DEF IsReport, VerdictTyped
<1>3. /\ w.network = Stronger(NetworkRank, v.network, r.network)
      /\ w.anonymizer = Stronger(AnonymizerRank, v.anonymizer, r.anonymizer)
      /\ w.level = Stronger(RiskRank, v.level, NormalLevel(r))
      /\ w.score = IF r.score > v.score THEN r.score ELSE v.score
      /\ w.signals = v.signals \cup r.signals
  BY DEF MergeReport
<1>4. /\ w.network \in {v.network, r.network}
      /\ NetworkRank(v.network) <= NetworkRank(w.network) /\ NetworkRank(r.network) <= NetworkRank(w.network)
      /\ w.anonymizer \in {v.anonymizer, r.anonymizer}
      /\ AnonymizerRank(v.anonymizer) <= AnonymizerRank(w.anonymizer)
      /\ AnonymizerRank(r.anonymizer) <= AnonymizerRank(w.anonymizer)
      /\ w.level \in {v.level, NormalLevel(r)}
      /\ RiskRank(v.level) <= RiskRank(w.level) /\ RiskRank(NormalLevel(r)) <= RiskRank(w.level)
      /\ w.score \in {v.score, r.score} /\ v.score <= w.score /\ r.score <= w.score
  BY <1>2, <1>3, Ranks DEF Stronger
<1>. HIDE DEF w
<1>5. /\ \A i \in 1..n : IsReport(rs[i])
      /\ \A i \in 1..(n + 1) : i # n + 1 => i \in 1..n
  BY <1>1
<1>6. /\ w.network \in {"unknown"} \cup {rs[i].network : i \in 1..(n + 1)}
      /\ w.anonymizer \in {"unknown"} \cup {rs[i].anonymizer : i \in 1..(n + 1)}
      /\ w.level \in {"unknown"} \cup {NormalLevel(rs[i]) : i \in 1..(n + 1)}
      /\ w.score \in {0} \cup {rs[i].score : i \in 1..(n + 1)}
  BY <1>1, <1>4 DEF VerdictOf
<1>7. w.signals = UNION {rs[i].signals : i \in 1..(n + 1)}
  BY <1>1, <1>3 DEF VerdictOf
<1>8. ASSUME NEW i \in 1..(n + 1)
      PROVE  /\ NetworkRank(rs[i].network) <= NetworkRank(w.network)
             /\ AnonymizerRank(rs[i].anonymizer) <= AnonymizerRank(w.anonymizer)
             /\ RiskRank(NormalLevel(rs[i])) <= RiskRank(w.level)
             /\ rs[i].score <= w.score
  <2>1. CASE i = n + 1
    BY <1>4, <2>1
  <2>2. CASE i # n + 1
    <3>1. /\ i \in 1..n /\ IsReport(rs[i])
          /\ NetworkRank(rs[i].network) <= NetworkRank(v.network)
          /\ AnonymizerRank(rs[i].anonymizer) <= AnonymizerRank(v.anonymizer)
          /\ RiskRank(NormalLevel(rs[i])) <= RiskRank(v.level)
          /\ rs[i].score <= v.score
      BY <1>5, <2>2 DEF VerdictOf
    <3>2. /\ NetworkRank(rs[i].network) \in Int /\ AnonymizerRank(rs[i].anonymizer) \in Int
          /\ RiskRank(NormalLevel(rs[i])) \in Int /\ rs[i].score \in Int
      BY <3>1, Ranks, NormalLevels, LevelRanks DEF IsReport
    <3>3. /\ NetworkRank(v.network) \in Int /\ AnonymizerRank(v.anonymizer) \in Int
          /\ RiskRank(v.level) \in Int
          /\ NetworkRank(w.network) \in Int /\ AnonymizerRank(w.anonymizer) \in Int
          /\ RiskRank(w.level) \in Int /\ w.score \in Int
      BY <1>2, <1>4, Ranks
    <3>. QED
      BY <1>2, <1>4, <3>1, <3>2, <3>3
  <2>. QED
    BY <2>1, <2>2
<1>9. w = MergeReport(v, rs[n + 1])
  BY DEF w
<1>. QED
  BY <1>6, <1>7, <1>8, <1>9 DEF VerdictOf

LEMMA MergedVerdict ==
  ASSUME NEW rs, Len(rs) \in Nat, \A i \in 1..Len(rs) : IsReport(rs[i])
  PROVE  VerdictOf(Merging(rs)[Len(rs)], rs, Len(rs))
<1>. DEFINE bad == {n \in Nat : n <= Len(rs) /\ ~VerdictOf(Merging(rs)[n], rs, n)}
<1>1. \A n \in 0..Len(rs) :
        Merging(rs)[n] = IF n = 0 THEN NoReports ELSE MergeReport(Merging(rs)[n - 1], rs[n])
  BY MergingMerges DEF Merges
<1>2. ASSUME bad # {} PROVE FALSE
  <2>1. PICK n \in bad : \A m \in bad : n <= m
    BY <1>2, LeastOf
  <2>2. CASE n = 0
    <3>1. VerdictOf(NoReports, rs, 0)
      <4>1. 1..0 = {}
        OBVIOUS
      <4>. QED
        BY <4>1 DEF VerdictOf, NoReports
    <3>. QED
      BY <1>1, <2>1, <2>2, <3>1
  <2>3. CASE n # 0
    <3>. DEFINE k == n - 1
    <3>1. k \in Nat /\ k + 1 = n /\ k <= Len(rs) /\ n \in 0..Len(rs) /\ k \notin bad
      BY <2>1, <2>3
    <3>2. VerdictOf(Merging(rs)[k], rs, k)
      BY <3>1
    <3>3. \A i \in 1..(k + 1) : IsReport(rs[i])
      BY <3>1
    <3>4. VerdictOf(MergeReport(Merging(rs)[k], rs[k + 1]), rs, k + 1)
      <4>. HIDE DEF k
      <4>. QED
        BY <3>1, <3>2, <3>3, VerdictStep
    <3>5. Merging(rs)[n] = MergeReport(Merging(rs)[k], rs[k + 1])
      BY <1>1, <2>3, <3>1
    <3>. QED
      BY <2>1, <3>1, <3>4, <3>5
  <2>. QED
    BY <2>2, <2>3
<1>. QED
  BY <1>2

\* The parts of a verdict that are about the address.
Said == {"network", "anonymizer", "level", "score", "signals"}

LEMMA VerdictParts ==
  ASSUME NEW rs, Len(rs) \in Nat, rs # <<>>, \A i \in 1..Len(rs) : IsReport(rs[i])
  PROVE  LET m == Merging(rs)[Len(rs)]
             v == MergeReports(rs)
         IN /\ v.network = m.network /\ v.score = m.score /\ v.signals = m.signals
            /\ v.anonymizer = IF m.anonymizer = "unknown" /\ m.signals = {} THEN "none" ELSE m.anonymizer
            /\ v.level = IF m.level = "unknown" /\ m.score = 0 THEN "low" ELSE m.level
<1>. DEFINE m == Merging(rs)[Len(rs)]
<1>1. \A n \in 0..Len(rs) :
        Merging(rs)[n] = IF n = 0 THEN NoReports ELSE MergeReport(Merging(rs)[n - 1], rs[n])
  BY MergingMerges DEF Merges
<1>2. m = NoReports \/ \E w, r : m = MergeReport(w, r)
  BY <1>1
<1>3. DOMAIN m = {"network", "anonymizer", "level", "score", "signals", "country", "by"}
  BY <1>2 DEF NoReports, MergeReport
<1>. HIDE DEF m
<1>4. MergeReports(rs) = [m EXCEPT
        !.by = IF @ = 0 THEN Head(rs).by ELSE @,
        !.anonymizer = IF @ = "unknown" /\ m.signals = {} THEN "none" ELSE @,
        !.level = IF @ = "unknown" /\ m.score = 0 THEN "low" ELSE @]
  BY DEF MergeReports, m
<1>5. /\ MergeReports(rs).network = m.network /\ MergeReports(rs).score = m.score
      /\ MergeReports(rs).signals = m.signals
      /\ MergeReports(rs).anonymizer = IF m.anonymizer = "unknown" /\ m.signals = {} THEN "none" ELSE m.anonymizer
      /\ MergeReports(rs).level = IF m.level = "unknown" /\ m.score = 0 THEN "low" ELSE m.level
  BY <1>3, <1>4
<1>. QED
  BY <1>5 DEF m

\* Of one strength there is one word, so that the strongest of the reports is
\* the same in any order of them, and however often each is there.
LEMMA SameStrongest ==
  ASSUME NEW rs, Len(rs) \in Nat, \A i \in 1..Len(rs) : IsReport(rs[i]),
         NEW ss, Len(ss) \in Nat, \A i \in 1..Len(ss) : IsReport(ss[i]),
         {rs[i] : i \in 1..Len(rs)} \subseteq {ss[i] : i \in 1..Len(ss)},
         NEW v, VerdictOf(v, rs, Len(rs)), NEW w, VerdictOf(w, ss, Len(ss))
  PROVE  /\ NetworkRank(v.network) <= NetworkRank(w.network)
         /\ AnonymizerRank(v.anonymizer) <= AnonymizerRank(w.anonymizer)
         /\ RiskRank(v.level) <= RiskRank(w.level)
         /\ v.score <= w.score /\ v.signals \subseteq w.signals
<1>1. \A i \in 1..Len(rs) : \E j \in 1..Len(ss) : rs[i] = ss[j]
  OBVIOUS
<1>2. /\ NetworkRank("unknown") = 1 /\ AnonymizerRank("unknown") = 1 /\ RiskRank("unknown") = 2
  <2>1. /\ DOMAIN Networks = 1..9 /\ DOMAIN Anonymizers = 1..6
        /\ Networks[1] = "unknown" /\ Anonymizers[1] = "unknown"
        /\ \A i \in 2..9 : Networks[i] # "unknown"
        /\ \A i \in 2..6 : Anonymizers[i] # "unknown"
    BY DEF Networks, Anonymizers
  <2>2. NetworkRank("unknown") = 1 /\ AnonymizerRank("unknown") = 1
    BY <2>1 DEF NetworkRank, AnonymizerRank, RankIn, ToSet
  <2>. QED
    BY <2>2, LevelRanks
<1>3. VerdictTyped(w)
  BY VerdictsTyped
<1>4. /\ NetworkRank(w.network) >= 1 /\ AnonymizerRank(w.anonymizer) >= 1 /\ RiskRank(w.level) >= 2
  BY <1>3, Ranks, LevelRanks DEF VerdictTyped
<1>5. NetworkRank(v.network) <= NetworkRank(w.network)
  <2>1. CASE v.network = "unknown"
    BY <1>2, <1>4, <2>1
  <2>2. ASSUME NEW i \in 1..Len(rs), v.network = rs[i].network
        PROVE  NetworkRank(v.network) <= NetworkRank(w.network)
    BY <1>1, <2>2 DEF VerdictOf
  <2>. QED
    BY <2>1, <2>2 DEF VerdictOf
<1>6. AnonymizerRank(v.anonymizer) <= AnonymizerRank(w.anonymizer)
  <2>1. CASE v.anonymizer = "unknown"
    BY <1>2, <1>4, <2>1
  <2>2. ASSUME NEW i \in 1..Len(rs), v.anonymizer = rs[i].anonymizer
        PROVE  AnonymizerRank(v.anonymizer) <= AnonymizerRank(w.anonymizer)
    BY <1>1, <2>2 DEF VerdictOf
  <2>. QED
    BY <2>1, <2>2 DEF VerdictOf
<1>7. RiskRank(v.level) <= RiskRank(w.level)
  <2>1. CASE v.level = "unknown"
    BY <1>2, <1>4, <2>1
  <2>2. ASSUME NEW i \in 1..Len(rs), v.level = NormalLevel(rs[i])
        PROVE  RiskRank(v.level) <= RiskRank(w.level)
    BY <1>1, <2>2 DEF VerdictOf
  <2>. QED
    BY <2>1, <2>2 DEF VerdictOf
<1>8. v.score <= w.score
  <2>0. 0 <= w.score
    BY <1>3, TypedScore
  <2>1. CASE v.score = 0
    BY <2>0, <2>1
  <2>2. ASSUME NEW i \in 1..Len(rs), v.score = rs[i].score PROVE v.score <= w.score
    BY <1>1, <2>2 DEF VerdictOf
  <2>. QED
    BY <2>1, <2>2 DEF VerdictOf
<1>9. v.signals \subseteq w.signals
  <2>1. ASSUME NEW x \in v.signals PROVE x \in w.signals
    <3>1. PICK i \in 1..Len(rs) : x \in rs[i].signals
      BY DEF VerdictOf
    <3>2. PICK j \in 1..Len(ss) : rs[i] = ss[j]
      BY <1>1
    <3>. QED
      BY <3>1, <3>2 DEF VerdictOf
  <2>. QED
    BY <2>1
<1>. QED
  BY <1>5, <1>6, <1>7, <1>8, <1>9

\* Reports may come in any order and any number, as weights and failures of the
\* providers change: what is said of the address is made by which reports there
\* are; only who is named for it, and the place, depend on the order
\* (normalize.go:11-69).
THEOREM VerdictOfReports ==
  ASSUME NEW rs, Len(rs) \in Nat \ {0}, \A i \in 1..Len(rs) : IsReport(rs[i]),
         NEW ss, Len(ss) \in Nat \ {0}, \A i \in 1..Len(ss) : IsReport(ss[i]),
         {rs[i] : i \in 1..Len(rs)} = {ss[i] : i \in 1..Len(ss)}
  PROVE  \A x \in Said : MergeReports(rs)[x] = MergeReports(ss)[x]
<1>. DEFINE v == Merging(rs)[Len(rs)]
            w == Merging(ss)[Len(ss)]
<1>1. VerdictOf(v, rs, Len(rs)) /\ VerdictOf(w, ss, Len(ss))
  BY MergedVerdict
<1>2. rs # <<>> /\ ss # <<>>
  OBVIOUS
<1>3. /\ MergeReports(rs).network = v.network /\ MergeReports(rs).score = v.score
      /\ MergeReports(rs).signals = v.signals
      /\ MergeReports(rs).anonymizer = IF v.anonymizer = "unknown" /\ v.signals = {} THEN "none" ELSE v.anonymizer
      /\ MergeReports(rs).level = IF v.level = "unknown" /\ v.score = 0 THEN "low" ELSE v.level
  BY <1>2, VerdictParts
<1>4. /\ MergeReports(ss).network = w.network /\ MergeReports(ss).score = w.score
      /\ MergeReports(ss).signals = w.signals
      /\ MergeReports(ss).anonymizer = IF w.anonymizer = "unknown" /\ w.signals = {} THEN "none" ELSE w.anonymizer
      /\ MergeReports(ss).level = IF w.level = "unknown" /\ w.score = 0 THEN "low" ELSE w.level
  BY <1>2, VerdictParts
<1>. HIDE DEF v, w
<1>5. /\ NetworkRank(v.network) <= NetworkRank(w.network)
      /\ AnonymizerRank(v.anonymizer) <= AnonymizerRank(w.anonymizer)
      /\ RiskRank(v.level) <= RiskRank(w.level)
      /\ v.score <= w.score /\ v.signals \subseteq w.signals
  BY <1>1, SameStrongest
<1>6. /\ NetworkRank(w.network) <= NetworkRank(v.network)
      /\ AnonymizerRank(w.anonymizer) <= AnonymizerRank(v.anonymizer)
      /\ RiskRank(w.level) <= RiskRank(v.level)
      /\ w.score <= v.score /\ w.signals \subseteq v.signals
  BY <1>1, SameStrongest
<1>7. /\ VerdictTyped(v) /\ VerdictTyped(w)
  BY <1>1, VerdictsTyped
<1>8. /\ v.network = w.network /\ v.anonymizer = w.anonymizer /\ v.level = w.level
      /\ v.score = w.score /\ v.signals = w.signals
  BY <1>5, <1>6, <1>7, Ranks DEF VerdictTyped
<1>. QED
  BY <1>3, <1>4, <1>8 DEF Said

\* No report is outvoted, however many there are: the verdict is never milder
\* than one of them, and names no level or score that none of them gave
\* (normalize.go:23-58).
THEOREM NoReportOutvoted ==
  ASSUME NEW rs, Len(rs) \in Nat \ {0}, \A i \in 1..Len(rs) : IsReport(rs[i])
  PROVE  LET v == MergeReports(rs) IN
         /\ \A i \in 1..Len(rs) : /\ rs[i].score <= v.score
                                  /\ RiskRank(NormalLevel(rs[i])) <= RiskRank(v.level)
                                  /\ NetworkRank(rs[i].network) <= NetworkRank(v.network)
                                  /\ rs[i].signals \subseteq v.signals
         /\ v.score \in {rs[i].score : i \in 1..Len(rs)}
         /\ v.level \in {NormalLevel(rs[i]) : i \in 1..Len(rs)}
<1>. DEFINE m == Merging(rs)[Len(rs)]
            v == MergeReports(rs)
<1>1. VerdictOf(m, rs, Len(rs))
  BY MergedVerdict
<1>2. rs # <<>> /\ 1 \in 1..Len(rs)
  OBVIOUS
<1>3. /\ v.network = m.network /\ v.score = m.score /\ v.signals = m.signals
      /\ v.level = IF m.level = "unknown" /\ m.score = 0 THEN "low" ELSE m.level
  BY <1>2, VerdictParts
<1>. HIDE DEF m, v
<1>4. VerdictTyped(m)
  BY <1>1, VerdictsTyped
<1>5. /\ IsReport(rs[1]) /\ NormalLevel(rs[1]) \in {"low", "medium", "high", "critical"}
      /\ RiskRank(NormalLevel(rs[1])) <= RiskRank(m.level) /\ rs[1].score <= m.score
  BY <1>1, <1>2, NormalLevels DEF VerdictOf
<1>6. m.level # "unknown"
  BY <1>5, LevelRanks
<1>7. v.level = m.level
  BY <1>3, <1>6
<1>8. m.level \in {NormalLevel(rs[i]) : i \in 1..Len(rs)}
  BY <1>1, <1>6 DEF VerdictOf
<1>9. m.score \in {rs[i].score : i \in 1..Len(rs)}
  <2>1. CASE m.score = 0
    <3>1. 0 <= rs[1].score /\ rs[1].score \in Int
      BY <1>5, ReportScore
    <3>2. rs[1].score = m.score
      BY <1>5, <2>1, <3>1
    <3>. QED
      BY <1>2, <3>2
  <2>2. CASE m.score # 0
    BY <1>1, <2>2 DEF VerdictOf
  <2>. QED
    BY <2>1, <2>2
<1>10. ASSUME NEW i \in 1..Len(rs)
       PROVE  /\ rs[i].score <= v.score
              /\ RiskRank(NormalLevel(rs[i])) <= RiskRank(v.level)
              /\ NetworkRank(rs[i].network) <= NetworkRank(v.network)
              /\ rs[i].signals \subseteq v.signals
  BY <1>1, <1>3, <1>7 DEF VerdictOf
<1>11. v = MergeReports(rs)
  BY DEF v
<1>. QED
  BY <1>3, <1>7, <1>8, <1>9, <1>10, <1>11

-----------------------------------------------------------------------------
(* What an answer is made into.                                             *)

\* What is read of a provider's answer.
IsAnswer(answer) ==
  /\ answer.risk \in {"unknown", "low", "medium", "high", "critical"}
  /\ answer.score = <<>> \/ answer.score[1] \in Int

LEMMA KindsOfNetwork ==
  ToSet(Networks) = {"unknown", "residential", "isp", "business", "mobile", "satellite",
                     "anycast", "broadcast", "datacenter"}
<1>1. /\ DOMAIN Networks = 1..9
      /\ Networks[1] = "unknown" /\ Networks[2] = "residential" /\ Networks[3] = "isp"
      /\ Networks[4] = "business" /\ Networks[5] = "mobile" /\ Networks[6] = "satellite"
      /\ Networks[7] = "anycast" /\ Networks[8] = "broadcast" /\ Networks[9] = "datacenter"
  BY DEF Networks
<1>. QED
  BY <1>1 DEF ToSet

LEMMA KindsOfAnonymizer ==
  ToSet(Anonymizers) = {"unknown", "none", "crawler", "proxy", "vpn", "tor"}
<1>1. /\ DOMAIN Anonymizers = 1..6
      /\ Anonymizers[1] = "unknown" /\ Anonymizers[2] = "none" /\ Anonymizers[3] = "crawler"
      /\ Anonymizers[4] = "proxy" /\ Anonymizers[5] = "vpn" /\ Anonymizers[6] = "tor"
  BY DEF Anonymizers
<1>. QED
  BY <1>1 DEF ToSet

LEMMA UsageNetwork == ASSUME NEW usage PROVE ClassifyNetwork(usage) \in ToSet(Networks)
<1>. DEFINE order == <<"datacenter", "mobile", "residential", "satellite", "broadcast",
                       "anycast", "business", "isp">>
            found == {i \in DOMAIN order : order[i] \in usage}
<1>1. DOMAIN order = 1..8 /\ \A i \in 1..8 : order[i] \in ToSet(Networks)
  BY KindsOfNetwork
<1>2. CASE found = {}
  BY <1>2, KindsOfNetwork DEF ClassifyNetwork
<1>3. CASE found # {}
  <2>1. found \in SUBSET Nat
    BY <1>1
  <2>2. \E i \in found : \A j \in found : i <= j
    BY <1>3, <2>1, LeastOf
  <2>3. Min(found) \in found
    <3>. HIDE DEF found
    <3>. QED
      BY <2>2 DEF Min
  <2>4. order[Min(found)] \in ToSet(Networks)
    BY <1>1, <2>3
  <2>. QED
    BY <1>3, <2>4 DEF ClassifyNetwork
<1>. QED
  BY <1>2, <1>3

LEMMA FlaggedNetwork ==
  ASSUME NEW base \in ToSet(Networks), NEW flags
  PROVE  NetworkWithFlags(base, flags) \in ToSet(Networks)
<1>. DEFINE kinds == {base} \cup (flags \cap {"mobile", "satellite", "broadcast", "anycast"})
                       \cup {k \in {"datacenter"} : {"datacenter", "hosting"} \cap flags # {}}
<1>1. kinds \subseteq ToSet(Networks) /\ base \in kinds
  BY KindsOfNetwork
<1>. HIDE DEF kinds
<1>. DEFINE ranks == {NetworkRank(k) : k \in kinds}
<1>2. ranks \in SUBSET Int /\ ranks # {} /\ \A x \in ranks : x <= 9
  BY <1>1, Ranks
<1>3. \E x \in ranks : \A y \in ranks : y <= x
  <2>. HIDE DEF ranks
  <2>. QED
    BY <1>2, GreatestOf
<1>4. \E k \in kinds : \A l \in kinds : NetworkRank(l) <= NetworkRank(k)
  BY <1>3
<1>. QED
  BY <1>1, <1>4 DEF NetworkWithFlags, kinds

LEMMA FlagScores ==
  /\ \A f \in Flag : FlagScore[f] \in 15..95 /\ (f # "mobile" => FlagScore[f] >= 45)
BY DEF Flag, FlagScore

LEMMA ScoresOfFlags ==
  ASSUME NEW flags \in SUBSET Flag
  PROVE  /\ ScoreFromFlags(flags) \in 0..95
         /\ \A f \in flags : FlagScore[f] <= ScoreFromFlags(flags)
<1>. DEFINE S == {FlagScore[f] : f \in flags} \cup {0}
<1>1. S \in SUBSET Int /\ S # {} /\ \A x \in S : 0 <= x /\ x <= 95
  BY FlagScores
<1>2. \E x \in S : \A y \in S : y <= x
  <2>. HIDE DEF S
  <2>. QED
    BY <1>1, GreatestOf
<1>3. Max(S) \in S /\ \A y \in S : y <= Max(S)
  <2>. HIDE DEF S
  <2>1. \E x \in S : \A y \in S : x >= y
    BY <1>1, <1>2
  <2>. QED
    BY <1>1, <2>1 DEF Max
<1>4. ScoreFromFlags(flags) = Max(S)
  BY DEF ScoreFromFlags
<1>. QED
  BY <1>1, <1>3, <1>4

LEMMA FlaggedLevel ==
  ASSUME NEW flags \in SUBSET Flag, NEW f \in flags, f # "mobile"
  PROVE  LevelFromScore(ClampScore(ScoreFromFlags(flags))) \in {"medium", "high", "critical"}
<1>. DEFINE n == FlagScore[f]
            m == ScoreFromFlags(flags)
<1>1. n \in Int /\ n >= 45
  BY FlagScores
<1>2. m \in Int /\ m <= 95 /\ n <= m
  BY ScoresOfFlags
<1>. HIDE DEF n, m
<1>3. ClampScore(m) = m /\ m >= 45
  BY <1>1, <1>2 DEF ClampScore
<1>4. LevelFromScore(m) \in {"medium", "high", "critical"}
  BY <1>2, <1>3 DEF LevelFromScore
<1>. QED
  BY <1>3, <1>4 DEF m

LEMMA ReportsOfFlags ==
  ASSUME NEW answer, IsAnswer(answer), NEW flags \in SUBSET Flag, NEW anonymous,
         NEW level \in {"unknown", "low", "medium", "high", "critical"}, NEW default \in Int
  PROVE  IsReport(ReportWith(answer, flags, anonymous, level, default))
<1>. DEFINE r == ReportWith(answer, flags, anonymous, level, default)
<1>1. r.network \in ToSet(Networks)
  BY UsageNetwork, FlaggedNetwork DEF ReportWith
<1>2. r.anonymizer \in ToSet(Anonymizers)
  BY KindsOfAnonymizer DEF ReportWith, ClassifyAnonymizer
<1>3. r.level = level /\ r.signals = flags
  BY DEF ReportWith
<1>4. r.score \in 0..100
  <2>1. ASSUME NEW x \in Int PROVE ClampScore(x) \in 0..100
    BY DEF ClampScore
  <2>2. (IF answer.score = <<>> THEN default ELSE answer.score[1]) \in Int
    BY DEF IsAnswer
  <2>3. r.score = ClampScore(IF answer.score = <<>> THEN default ELSE answer.score[1])
    BY DEF ReportWith
  <2>. QED
    BY <2>1, <2>2, <2>3
<1>. HIDE DEF r
<1>5. IsReport(r)
  BY <1>1, <1>2, <1>3, <1>4 DEF IsReport
<1>. QED
  BY <1>5 DEF r

FraudKinds == {"ipapi", "ipqualityscore", "abuseipdb"}

LEMMA ParsedIsReport ==
  ASSUME NEW kind \in FraudKinds, NEW answer, IsAnswer(answer)
  PROVE  IsReport(ParseReport(kind, answer))
<1>1. CASE kind = "ipapi"
  <2>. DEFINE flags == answer.said \cap Flag
  <2>1. flags \in SUBSET Flag /\ ScoreFromFlags(flags) \in Int
    BY ScoresOfFlags
  <2>2. ParseReport(kind, answer) = ReportWith(answer, flags, Flag, answer.risk, ScoreFromFlags(flags))
    BY <1>1 DEF ParseReport, ParseIPAPI
  <2>. HIDE DEF flags
  <2>. QED
    BY <2>1, <2>2, ReportsOfFlags DEF IsAnswer
<1>2. CASE kind = "ipqualityscore"
  <2>. DEFINE hosted == {f \in {"datacenter", "hosting"} :
                           "hosting" \in answer.said \/ "datacenter" \in answer.usage}
              flags == hosted \cup (answer.said \cap {"proxy", "vpn", "tor", "abuser", "crawler", "mobile"})
  <2>0. flags \in SUBSET Flag
    BY DEF Flag
  <2>1. flags \in SUBSET Flag /\ ScoreFromFlags(flags) \in Int
    BY <2>0, ScoresOfFlags
  <2>2. ParseReport(kind, answer) = ReportWith(answer, flags, Flag, answer.risk, ScoreFromFlags(flags))
    BY <1>2 DEF ParseReport, ParseIPQualityScore
  <2>. HIDE DEF flags
  <2>. QED
    BY <2>1, <2>2, ReportsOfFlags DEF IsAnswer
<1>3. CASE kind = "abuseipdb"
  <2>1. PICK flags \in SUBSET Flag :
          ParseReport(kind, answer) = ReportWith(answer, flags, {"tor", "crawler"}, "unknown", 0)
    <3>. DEFINE flags == {f \in {"datacenter", "hosting"} : "datacenter" \in answer.usage}
                           \cup ({"mobile"} \cap answer.usage)
                           \cup (answer.said \cap {"tor", "crawler"})
                           \cup {f \in {"abuser"} : \/ "reported" \in answer.said
                                                    \/ answer.score # <<>> /\ answer.score[1] > 0}
    <3>1. flags \in SUBSET Flag
      BY DEF Flag
    <3>2. ParseReport(kind, answer) = ReportWith(answer, flags, {"tor", "crawler"}, "unknown", 0)
      BY <1>3 DEF ParseReport, ParseAbuseIPDB
    <3>. QED
      BY <3>1, <3>2
  <2>. QED
    BY <2>1, ReportsOfFlags
<1>. QED
  BY <1>1, <1>2, <1>3 DEF FraudKinds

\* A flagged address without score and word is never low, unless mobile is all
\* that is said of it, whatever the flags (classify.go:80-106).
THEOREM FlaggedNeverLow ==
  ASSUME NEW kind \in FraudKinds, NEW answer PROVE FlaggedNotLow(kind, answer)
<1>. DEFINE r == ParseReport(kind, answer)
<1>. SUFFICES ASSUME kind # "abuseipdb", answer.score = <<>>, answer.risk = "unknown",
                     r.signals \ {"mobile"} # {}
              PROVE  RiskRank(NormalLevel(r)) >= RiskRank("medium")
  BY DEF FlaggedNotLow
<1>1. PICK flags \in SUBSET Flag : r = ReportWith(answer, flags, Flag, answer.risk, ScoreFromFlags(flags))
  <2>1. CASE kind = "ipapi"
    <3>1. answer.said \cap Flag \in SUBSET Flag
      OBVIOUS
    <3>. QED
      BY <2>1, <3>1 DEF ParseReport, ParseIPAPI
  <2>2. CASE kind = "ipqualityscore"
    <3>. DEFINE flags == {f \in {"datacenter", "hosting"} :
                            "hosting" \in answer.said \/ "datacenter" \in answer.usage}
                           \cup (answer.said \cap {"proxy", "vpn", "tor", "abuser", "crawler", "mobile"})
    <3>1. flags \in SUBSET Flag
      BY DEF Flag
    <3>2. r = ReportWith(answer, flags, Flag, answer.risk, ScoreFromFlags(flags))
      BY <2>2 DEF ParseReport, ParseIPQualityScore
    <3>. QED
      BY <3>1, <3>2
  <2>. QED
    BY <2>1, <2>2 DEF FraudKinds
<1>2. /\ r.signals = flags /\ r.level = "unknown" /\ r.score = ClampScore(ScoreFromFlags(flags))
  BY <1>1 DEF ReportWith
<1>. HIDE DEF r
<1>3. PICK f \in flags : f # "mobile"
  BY <1>2
<1>7. NormalLevel(r) \in {"medium", "high", "critical"}
  BY <1>2, <1>3, FlaggedLevel DEF NormalLevel
<1>8. RiskRank(NormalLevel(r)) >= RiskRank("medium")
  BY <1>7, LevelRanks
<1>. QED
  BY <1>8

-----------------------------------------------------------------------------
(* What an edge check says of an exit.                                       *)

EdgeKinds == {"unsupported", "unknown", "low", "medium", "high", "challenge", "block"}

LEMMA EdgeRanks ==
  /\ EdgeRank("unsupported") = 1 /\ EdgeRank("unknown") = 2 /\ EdgeRank("low") = 3
  /\ EdgeRank("medium") = 4 /\ EdgeRank("high") = 5 /\ EdgeRank("challenge") = 6
  /\ EdgeRank("block") = 7
<1>1. /\ DOMAIN EdgeLevels = 1..7
      /\ EdgeLevels[1] = "unsupported" /\ EdgeLevels[2] = "unknown" /\ EdgeLevels[3] = "low"
      /\ EdgeLevels[4] = "medium" /\ EdgeLevels[5] = "high" /\ EdgeLevels[6] = "challenge"
      /\ EdgeLevels[7] = "block"
  BY DEF EdgeLevels
<1>2. EdgeKinds = ToSet(EdgeLevels)
  BY <1>1 DEF ToSet, EdgeKinds
<1>. HIDE DEF EdgeLevels
<1>. QED
  BY <1>1, <1>2 DEF EdgeRank, RankIn, EdgeKinds

\* What a canary may have met.
CanaryOutcomes ==
  {CanaryOutcome("unsupported", 0, "unsupported"), CanaryOutcome("unknown", 0, "unavailable"),
   CanaryOutcome("challenge", 85, "challenged"), CanaryOutcome("high", 70, "limited"),
   CanaryOutcome("block", 90, "blocked"), CanaryOutcome("low", 0, "passed")}

LEMMA CanaryMet ==
  ASSUME NEW canary, NEW answer PROVE RunEdgeCanary(canary, answer) \in CanaryOutcomes
<1>1. EdgeUnavailable \in CanaryOutcomes
  BY DEF EdgeUnavailable, CanaryOutcomes
<1>2. /\ CanaryOutcome("unsupported", 0, "unsupported") \in CanaryOutcomes
      /\ CanaryOutcome("challenge", 85, "challenged") \in CanaryOutcomes
      /\ CanaryOutcome("high", 70, "limited") \in CanaryOutcomes
      /\ CanaryOutcome("block", 90, "blocked") \in CanaryOutcomes
      /\ CanaryOutcome("low", 0, "passed") \in CanaryOutcomes
  BY DEF CanaryOutcomes
<1>3. ASSUME NEW status
      PROVE  (CASE status = 429 -> CanaryOutcome("high", 70, "limited")
                [] status = 403 -> CanaryOutcome("block", 90, "blocked")
                [] status \in 200..299 -> CanaryOutcome("low", 0, "passed")
                [] OTHER -> EdgeUnavailable) \in CanaryOutcomes
  <2>1. CASE status = 429
    BY <1>2, <2>1
  <2>2. CASE status = 403
    BY <1>2, <2>2
  <2>3. CASE status \in 200..299
    BY <1>2, <2>3
  <2>4. CASE status # 429 /\ status # 403 /\ status \notin 200..299
    BY <1>1, <2>4
  <2>. QED
    BY <2>1, <2>2, <2>3, <2>4
<1>. QED
  BY <1>1, <1>2, <1>3 DEF RunEdgeCanary

LEMMA GreaterOf ==
  ASSUME NEW x \in Int, NEW y \in Int, NEW z \in Int
  PROVE  /\ Max({x, y, z}) \in {x, y, z}
         /\ Max({x, y, z}) >= x /\ Max({x, y, z}) >= y /\ Max({x, y, z}) >= z
<1>1. \E m \in {x, y, z} : \A n \in {x, y, z} : m >= n
  <2>1. CASE x >= y /\ x >= z
    BY <2>1
  <2>2. CASE y >= x /\ y >= z
    BY <2>2
  <2>3. CASE z >= x /\ z >= y
    BY <2>3
  <2>. QED
    BY <2>1, <2>2, <2>3
<1>. QED
  BY <1>1 DEF Max

\* What the canary met is told apart by the level of the check alone, whatever
\* it answered: the level is all that is shown of a kept check
\* (edge_access.go:26-86, proxy_edge_canary.go).
THEOREM CanaryAlwaysToldApart ==
  ASSUME NEW c1, NEW a1, NEW c2, NEW a2
  PROVE  CanaryToldApart(RunEdgeCanary(c1, a1), RunEdgeCanary(c2, a2))
<1>1. ASSUME NEW o \in CanaryOutcomes
      PROVE  /\ o.signal = "unsupported" <=> CheckEdge(o, "").level = "unsupported"
             /\ o.signal = "unavailable" <=> CheckEdge(o, "").level = "unknown"
             /\ o.signal = "challenged" <=> CheckEdge(o, "").level = "challenge"
             /\ o.signal = "limited" <=> CheckEdge(o, "").level = "high"
             /\ o.signal = "blocked" <=> CheckEdge(o, "").level = "block"
             /\ o.signal = "passed" <=> CheckEdge(o, "").level = "low"
  <2>. DEFINE score == Max({ClampScore(EdgeBaseFraudCheck.score), o.score, 0})
              level == MaxEdgeRisk(MaxEdgeRisk(EdgeRiskFromScore(score), "low"), o.level)
  <2>1. ClampScore(EdgeBaseFraudCheck.score) = 0
    BY DEF ClampScore, EdgeBaseFraudCheck
  <2>2. o.score \in Nat
    BY DEF CanaryOutcomes, CanaryOutcome
  <2>3. score = o.score
    <3>1. \A n \in Nat : Max({0, n, 0}) = n
      <4>. TAKE n \in Nat
      <4>1. /\ Max({0, n, 0}) \in {0, n, 0}
            /\ Max({0, n, 0}) >= n /\ Max({0, n, 0}) >= 0
        BY GreaterOf
      <4>. QED
        BY <4>1
    <3>2. Max({0, o.score, 0}) = o.score
      BY <2>2, <3>1
    <3>. QED
      BY <2>1, <3>2
  <2>4. ~CountryMismatch(EdgeBaseFraudCheck.country, "")
    BY DEF CountryMismatch
  <2>5. EdgeRiskFromIP(EdgeBaseFraudCheck.level) = "low"
    BY DEF EdgeRiskFromIP, EdgeBaseFraudCheck
  <2>6. CheckEdge(o, "").level =
          IF o.level = "unsupported" THEN o.level
          ELSE IF o.signal = "unavailable" /\ level = "low" THEN "unknown" ELSE level
    BY <2>4, <2>5 DEF CheckEdge, BuildEdgeAccessCheck
  <2>7. /\ EdgeRiskFromScore(0) = "unknown" /\ EdgeRiskFromScore(85) = "high"
        /\ EdgeRiskFromScore(70) = "medium" /\ EdgeRiskFromScore(90) = "high"
    BY DEF EdgeRiskFromScore
  <2>8. /\ MaxEdgeRisk("unknown", "low") = "low" /\ MaxEdgeRisk("high", "low") = "high"
        /\ MaxEdgeRisk("medium", "low") = "medium"
        /\ MaxEdgeRisk("low", "unknown") = "low" /\ MaxEdgeRisk("low", "low") = "low"
        /\ MaxEdgeRisk("high", "challenge") = "challenge" /\ MaxEdgeRisk("high", "block") = "block"
        /\ MaxEdgeRisk("medium", "high") = "high"
    BY EdgeRanks DEF MaxEdgeRisk, Stronger
  <2>9. level = MaxEdgeRisk(MaxEdgeRisk(EdgeRiskFromScore(o.score), "low"), o.level)
    BY <2>3
  <2>10. /\ o.level = "unknown" /\ o.score = 0 /\ o.signal = "unavailable" => level = "low"
         /\ o.level = "challenge" /\ o.score = 85 => level = "challenge"
         /\ o.level = "high" /\ o.score = 70 => level = "high"
         /\ o.level = "block" /\ o.score = 90 => level = "block"
         /\ o.level = "low" /\ o.score = 0 => level = "low"
    BY <2>7, <2>8, <2>9
  <2>11. \/ o.level = "unsupported" /\ o.signal = "unsupported"
         \/ o.level = "unknown" /\ o.score = 0 /\ o.signal = "unavailable"
         \/ o.level = "challenge" /\ o.score = 85 /\ o.signal = "challenged"
         \/ o.level = "high" /\ o.score = 70 /\ o.signal = "limited"
         \/ o.level = "block" /\ o.score = 90 /\ o.signal = "blocked"
         \/ o.level = "low" /\ o.score = 0 /\ o.signal = "passed"
    BY DEF CanaryOutcomes, CanaryOutcome
  <2>12. \/ o.signal = "unsupported" /\ CheckEdge(o, "").level = "unsupported"
         \/ o.signal = "unavailable" /\ CheckEdge(o, "").level = "unknown"
         \/ o.signal = "challenged" /\ CheckEdge(o, "").level = "challenge"
         \/ o.signal = "limited" /\ CheckEdge(o, "").level = "high"
         \/ o.signal = "blocked" /\ CheckEdge(o, "").level = "block"
         \/ o.signal = "passed" /\ CheckEdge(o, "").level = "low"
    <3>. DEFINE s == o.signal
                l == o.level
                told == CheckEdge(o, "").level
    <3>1. told = IF l = "unsupported" THEN l ELSE IF s = "unavailable" /\ level = "low" THEN "unknown" ELSE level
      BY <2>6
    <3>2. \/ l = "unsupported" /\ s = "unsupported"
          \/ l = "unknown" /\ s = "unavailable" /\ level = "low"
          \/ l = "challenge" /\ s = "challenged" /\ level = "challenge"
          \/ l = "high" /\ s = "limited" /\ level = "high"
          \/ l = "block" /\ s = "blocked" /\ level = "block"
          \/ l = "low" /\ s = "passed" /\ level = "low"
      <4>. HIDE DEF level
      <4>. QED
        BY <2>10, <2>11
    <3>. HIDE DEF s, l, told, level
    <3>3. \/ s = "unsupported" /\ told = "unsupported"
          \/ s = "unavailable" /\ told = "unknown"
          \/ s = "challenged" /\ told = "challenge"
          \/ s = "limited" /\ told = "high"
          \/ s = "blocked" /\ told = "block"
          \/ s = "passed" /\ told = "low"
      BY <3>1, <3>2
    <3>. QED
      BY <3>3 DEF s, told
  <2>. QED
    BY <2>12
<1>2. \A o \in CanaryOutcomes :
        o.signal \in {"unsupported", "unavailable", "challenged", "limited", "blocked", "passed"}
  BY DEF CanaryOutcomes, CanaryOutcome
<1>. QED
  BY <1>1, <1>2, CanaryMet DEF CanaryToldApart

\* With a canary the level is never milder than the canary's, the fraud report's
\* or the score's, but for the low risk that nobody vouched for, whatever the
\* report and the answer; and what is told to callers of the contracts keeps the
\* order of the levels (edge_access.go:26-86, contracts_gateway.go).
THEOREM EdgeNeverMilder ==
  ASSUME NEW fraud, fraud.level \in ToSet(Levels), fraud.score \in Int,
         NEW expected, NEW canary, NEW answer
  PROVE  EdgeNotMilder(fraud, expected, RunEdgeCanary(canary, answer))
<1>. DEFINE outcome == RunEdgeCanary(canary, answer)
            check == BuildEdgeAccessCheck(fraud, expected, outcome)
            told(level) == RankIn(<<"unknown", "low", "medium", "high">>, MapEdgeRiskLevel(level))
            mismatch == CountryMismatch(fraud.country, expected)
            score == Max({ClampScore(fraud.score), outcome.score, IF mismatch THEN 60 ELSE 0})
            a == EdgeRiskFromScore(score)
            b == EdgeRiskFromIP(fraud.level)
            c == outcome.level
            level == MaxEdgeRisk(MaxEdgeRisk(a, b), c)
<1>. SUFFICES ASSUME outcome.level # "unsupported", check.level # "unknown",
                     NEW x \in {c, b, EdgeRiskFromScore(check.score)}
              PROVE  EdgeRank(check.level) >= EdgeRank(x) /\ told(check.level) >= told(x)
  BY DEF EdgeNotMilder
<1>1. check.score = score /\ check.level = level
  BY DEF BuildEdgeAccessCheck
<1>2. a \in EdgeKinds
  BY DEF EdgeRiskFromScore, EdgeKinds
<1>3. b \in EdgeKinds
  BY LevelRanks DEF EdgeRiskFromIP, EdgeKinds
<1>4. c \in EdgeKinds
  BY CanaryMet DEF CanaryOutcomes, CanaryOutcome, EdgeKinds
<1>5. \A y \in EdgeKinds : EdgeRank(y) \in Int
  BY EdgeRanks DEF EdgeKinds
<1>6. level \in EdgeKinds /\ EdgeRank(level) >= EdgeRank(a) /\ EdgeRank(level) >= EdgeRank(b)
      /\ EdgeRank(level) >= EdgeRank(c)
  <2>. HIDE DEF a, b, c
  <2>. QED
    BY <1>2, <1>3, <1>4, <1>5 DEF MaxEdgeRisk, Stronger
<1>7. x \in {a, b, c}
  BY <1>1
<1>8. \A y, z \in EdgeKinds : EdgeRank(y) >= EdgeRank(z) => told(y) >= told(z)
  <2>. DEFINE order == <<"unknown", "low", "medium", "high">>
  <2>1. /\ DOMAIN order = 1..4 /\ order[1] = "unknown" /\ order[2] = "low"
        /\ order[3] = "medium" /\ order[4] = "high"
    OBVIOUS
  <2>2. ToSet(order) = {"unknown", "low", "medium", "high"}
    BY <2>1 DEF ToSet
  <2>3. /\ RankIn(order, "unknown") = 1 /\ RankIn(order, "low") = 2
        /\ RankIn(order, "medium") = 3 /\ RankIn(order, "high") = 4
    <3>. HIDE DEF order
    <3>. QED
      BY <2>1, <2>2 DEF RankIn
  <2>4. /\ told("unsupported") = 1 /\ told("unknown") = 1 /\ told("low") = 2 /\ told("medium") = 3
        /\ told("high") = 4 /\ told("challenge") = 4 /\ told("block") = 4
    BY <2>3 DEF MapEdgeRiskLevel
  <2>. HIDE DEF told
  <2>. QED
    BY <2>4, EdgeRanks DEF EdgeKinds
<1>. HIDE DEF level, a, b, c, told, check
<1>. QED
  BY <1>1, <1>2, <1>3, <1>4, <1>6, <1>7, <1>8
=============================================================================
