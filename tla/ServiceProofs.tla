--------------------------- MODULE ServiceProofs ---------------------------
(* The services beside the leases and the settings: the connections that    *)
(* are closed, who is answered, what the checks of an exit keep, and the    *)
(* terms of a lease.                                                        *)
EXTENDS ConnectionCleanup, ControlAuth, ExitChecks, LeaseTerms, SequenceTheorems, TLAPS

-----------------------------------------------------------------------------
(* Connections: which of them go on by an old way.                          *)

ConnectionFields == {"user", "seen", "way", "late", "spared"}
ConnectionShape ==
  /\ wanted \in [User -> 0..MaxWays] /\ running \in [User -> 0..MaxWays]
  /\ leaseWay \in 0..MaxWays
  /\ DOMAIN conn = Connection /\ \A c \in Connection : DOMAIN conn[c] = ConnectionFields
  /\ \A c \in Open : conn[c].user \in User
  /\ closer \in [Closer -> [at    : {"idle", "saved", "list", "delete"},
                            users : SUBSET (User \cup {PlaygroundUsername}),
                            left  : SUBSET Connection]]

\* A closer has connections left to delete only while it deletes.
NoneLeft == \A x \in Closer : closer[x].at # "delete" => closer[x].left = {}

ConnectionInv == ConnectionShape /\ NoneLeft /\ OldWayExplained

LEMMA ConnectionsStart == ConnectionsInit => ConnectionInv
<1>. SUFFICES ASSUME ConnectionsInit PROVE ConnectionInv
  OBVIOUS
<1>1. Open = {}
  BY DEF ConnectionsInit, Open
<1>2. ConnectionShape
  <2>1. wanted \in [User -> 0..MaxWays] /\ running \in [User -> 0..MaxWays] /\ leaseWay \in 0..MaxWays
    BY ConnectionAssumption DEF ConnectionsInit
  <2>2. DOMAIN conn = Connection /\ \A c \in Connection : DOMAIN conn[c] = ConnectionFields
    BY DEF ConnectionsInit, ConnectionFields, Closed
  <2>3. closer \in [Closer -> [at    : {"idle", "saved", "list", "delete"},
                              users : SUBSET (User \cup {PlaygroundUsername}),
                              left  : SUBSET Connection]]
    BY DEF ConnectionsInit, IdleCloser
  <2>. QED
    BY <1>1, <2>1, <2>2, <2>3 DEF ConnectionShape
<1>3. NoneLeft /\ OldWayExplained
  BY <1>1 DEF ConnectionsInit, NoneLeft, OldWayExplained, IdleCloser
<1>. QED
  BY <1>2, <1>3 DEF ConnectionInv

\* Connections that are left alone stay what they are, and are marked.
LEMMA Spared ==
  ASSUME ConnectionShape, NEW cs, Spare(cs)
  PROVE  /\ Open' = Open
         /\ DOMAIN conn' = Connection /\ \A c \in Connection : DOMAIN conn'[c] = ConnectionFields
         /\ \A c \in Open : /\ conn'[c].user = conn[c].user /\ conn'[c].way = conn[c].way
                            /\ conn'[c].late = conn[c].late
                            /\ conn[c].spared \/ c \in cs => conn'[c].spared
<1>1. /\ DOMAIN conn' = Connection
      /\ \A c \in Connection : c \notin cs \cap Open => conn'[c] = conn[c]
      /\ \A c \in cs \cap Open : c \in Connection /\ conn'[c] = [conn[c] EXCEPT !.spared = TRUE]
  BY DEF Spare, Open
<1>2. Closed.spared = FALSE
  BY DEF Closed
<1>3. ASSUME NEW c \in cs \cap Open
      PROVE  /\ conn'[c].spared = TRUE /\ DOMAIN conn'[c] = ConnectionFields
             /\ conn'[c].user = conn[c].user /\ conn'[c].way = conn[c].way
             /\ conn'[c].late = conn[c].late
  <2>1. DOMAIN conn[c] = ConnectionFields /\ conn'[c] = [conn[c] EXCEPT !.spared = TRUE]
    BY <1>1 DEF ConnectionShape
  <2>. QED
    BY <2>1 DEF ConnectionFields
<1>4. \A c \in cs \cap Open : conn'[c] # Closed
  BY <1>2, <1>3
<1>5. Open' = Open
  BY <1>1, <1>4 DEF Open
<1>6. \A c \in Connection : DOMAIN conn'[c] = ConnectionFields
  BY <1>1, <1>3 DEF ConnectionShape
<1>. QED
  BY <1>1, <1>3, <1>5, <1>6 DEF Open

\* The invariant goes through a step that opens no connection and changes no
\* way, when a connection that is not closed any more is marked.
LEMMA StillExplained ==
  ASSUME OldWayExplained, UNCHANGED <<wanted, leaseWay>>, Open' \subseteq Open,
         \A c \in Open' : /\ conn'[c].user = conn[c].user /\ conn'[c].way = conn[c].way
                          /\ conn'[c].late = conn[c].late
                          /\ conn[c].spared => conn'[c].spared
                          /\ Closing(c) => Closing(c)' \/ conn'[c].spared
  PROVE  OldWayExplained'
<1>. SUFFICES ASSUME NEW c \in Open', conn'[c].way # WayBy(wanted, conn[c].user)'
              PROVE  \/ Closing(c)' \/ conn'[c].late \/ conn'[c].spared
                     \/ conn'[c].user \in OfPlayground \ {PlaygroundUsername}
  BY DEF OldWayExplained
<1>1. conn[c].way # WayBy(wanted, conn[c].user)
  BY DEF WayBy
<1>2. \/ Closing(c) \/ conn[c].late \/ conn[c].spared
      \/ conn[c].user \in OfPlayground \ {PlaygroundUsername}
  BY <1>1 DEF OldWayExplained
<1>. QED
  BY <1>2

\* What a step leaves of the closers' shape.
CloserShape ==
  closer \in [Closer -> [at    : {"idle", "saved", "list", "delete"},
                         users : SUBSET (User \cup {PlaygroundUsername}),
                         left  : SUBSET Connection]]

LEMMA ConnectionComesAndGoes ==
  ASSUME ConnectionInv, NEW c \in Connection, Disconnect(c) \/ \E u \in User : Connect(c, u)
  PROVE  ConnectionInv'
<1>1. CASE Disconnect(c)
  <2>1. UNCHANGED <<wanted, running, leaseWay>> /\ Open' = Open \ {c}
        /\ conn' = [conn EXCEPT ![c] = Closed] /\ DOMAIN conn = Connection
    BY <1>1 DEF Disconnect, Open, ConnectionInv, ConnectionShape
  <2>2. \A x \in Closer : /\ closer'[x].at = closer[x].at /\ closer'[x].users = closer[x].users
                          /\ closer'[x].left = closer[x].left \ {c}
    BY <1>1 DEF Disconnect, ConnectionInv, ConnectionShape
  <2>3. CloserShape'
    BY <1>1 DEF Disconnect, ConnectionInv, ConnectionShape, CloserShape
  <2>4. ConnectionShape'
    <3>1. DOMAIN Closed = ConnectionFields
      BY DEF Closed, ConnectionFields
    <3>2. DOMAIN conn' = Connection /\ \A d \in Connection : DOMAIN conn'[d] = ConnectionFields
      BY <2>1, <3>1 DEF ConnectionInv, ConnectionShape
    <3>3. \A d \in Open' : conn'[d].user \in User
      BY <2>1 DEF ConnectionInv, ConnectionShape, Open
    <3>. QED
      BY <2>1, <2>3, <3>2, <3>3 DEF ConnectionInv, ConnectionShape, CloserShape
  <2>5. NoneLeft'
    BY <2>2 DEF ConnectionInv, NoneLeft
  <2>6. \A d \in Open' : conn'[d] = conn[d] /\ (Closing(d) => Closing(d)')
    BY <2>1, <2>2 DEF Closing, Open
  <2>. QED
    BY <2>1, <2>4, <2>5, <2>6, StillExplained DEF ConnectionInv
<1>2. ASSUME NEW u \in User, Connect(c, u) PROVE ConnectionInv'
  <2>1. UNCHANGED <<wanted, running, leaseWay, closer>>
    BY <1>2 DEF Connect
  <2>2. PICK seen \in {"inboundUser", "rulePayload"} :
          conn' = [conn EXCEPT ![c] = [user |-> u, seen |-> seen, way |-> WayBy(running, u),
                                       late |-> running[u] # wanted[u], spared |-> FALSE]]
    BY <1>2 DEF Connect
  <2>3. /\ DOMAIN conn' = Connection /\ \A d \in Connection \ {c} : conn'[d] = conn[d]
        /\ conn'[c].user = u /\ conn'[c].way = WayBy(running, u)
        /\ conn'[c].late = (running[u] # wanted[u]) /\ DOMAIN conn'[c] = ConnectionFields
    BY <2>2 DEF ConnectionInv, ConnectionShape, ConnectionFields
  <2>4. ConnectionShape'
    BY <2>1, <2>3 DEF ConnectionInv, ConnectionShape, Open
  <2>5. NoneLeft'
    BY <2>1 DEF ConnectionInv, NoneLeft
  <2>6. ASSUME NEW d \in Open', conn'[d].way # WayBy(wanted, conn[d].user)'
        PROVE  \/ Closing(d)' \/ conn'[d].late \/ conn'[d].spared
               \/ conn'[d].user \in OfPlayground \ {PlaygroundUsername}
    <3>1. CASE d = c
      BY <2>1, <2>3, <2>6, <3>1 DEF WayBy
    <3>2. CASE d # c
      BY <2>1, <2>3, <2>6, <3>2 DEF ConnectionInv, OldWayExplained, WayBy, Closing, Open
    <3>. QED
      BY <3>1, <3>2
  <2>. QED
    BY <2>4, <2>5, <2>6 DEF ConnectionInv, OldWayExplained
<1>. QED
  BY <1>1, <1>2

\* A closer that begins: the connections of the users it is for are about to
\* be closed.
LEMMA ChangeExplained ==
  ASSUME ConnectionInv, NEW x \in Closer,
         (\E u \in User : SaveChange(x, u)) \/ ChangeLease(x)
  PROVE  ConnectionInv'
<1>1. /\ closer[x].at = "idle" /\ closer[x].left = {} /\ UNCHANGED <<running, conn>>
  BY DEF SaveChange, ChangeLease, ConnectionInv, NoneLeft
<1>2. PICK at \in {"saved", "list"}, users \in SUBSET (User \cup {PlaygroundUsername}) :
        /\ closer' = [closer EXCEPT ![x] = [at |-> at, users |-> users, left |-> {}]]
        /\ \A u \in User : WayBy(wanted, u)' # WayBy(wanted, u) => u \in users \/ u \in OfPlayground \ {PlaygroundUsername}
        /\ wanted' \in [User -> 0..MaxWays] /\ leaseWay' \in 0..MaxWays
  <2>1. ASSUME NEW u \in User, SaveChange(x, u)
        PROVE  /\ closer' = [closer EXCEPT ![x] = [at |-> "saved", users |-> {u}, left |-> {}]]
               /\ \A v \in User : WayBy(wanted, v)' # WayBy(wanted, v) => v \in {u}
               /\ wanted' \in [User -> 0..MaxWays] /\ leaseWay' \in 0..MaxWays
    BY <2>1, ConnectionAssumption DEF SaveChange, WayBy, ConnectionInv, ConnectionShape
  <2>2. ASSUME ChangeLease(x)
        PROVE  /\ closer' = [closer EXCEPT ![x] =
                    [at |-> "list", users |-> {PlaygroundUsername}, left |-> {}]]
               /\ \A v \in User : WayBy(wanted, v)' # WayBy(wanted, v) => v \in OfPlayground
               /\ wanted' \in [User -> 0..MaxWays] /\ leaseWay' \in 0..MaxWays
    BY <2>2, ConnectionAssumption DEF ChangeLease, WayBy, ConnectionInv, ConnectionShape
  <2>. QED
    BY <2>1, <2>2
<1>3. /\ closer'[x] = [at |-> at, users |-> users, left |-> {}]
      /\ \A y \in Closer \ {x} : closer'[y] = closer[y]
      /\ CloserShape'
  BY <1>2 DEF ConnectionInv, ConnectionShape, CloserShape
<1>4. ConnectionShape'
  BY <1>1, <1>2, <1>3 DEF ConnectionInv, ConnectionShape, CloserShape, Open
<1>5. NoneLeft'
  BY <1>3 DEF ConnectionInv, NoneLeft
<1>6. ASSUME NEW c \in Open', conn'[c].way # WayBy(wanted, conn[c].user)'
      PROVE  \/ Closing(c)' \/ conn'[c].late \/ conn'[c].spared
             \/ conn'[c].user \in OfPlayground \ {PlaygroundUsername}
  <2>1. c \in Open /\ conn'[c] = conn[c] /\ conn[c].user \in User
    BY <1>1 DEF Open, ConnectionInv, ConnectionShape
  <2>2. CASE conn[c].user \in users
    BY <1>3, <2>1, <2>2 DEF Closing
  <2>3. CASE conn[c].way # WayBy(wanted, conn[c].user)
    <3>1. Closing(c) => Closing(c)'
      BY <1>1, <1>3, <2>1 DEF Closing
    <3>. QED
      BY <2>1, <2>3, <3>1 DEF ConnectionInv, OldWayExplained
  <2>. QED
    BY <1>1, <1>2, <1>6, <2>1, <2>2, <2>3
<1>. QED
  BY <1>4, <1>5, <1>6 DEF ConnectionInv, OldWayExplained

\* The steps of a cleanup. Each shows what it does to the closer, and that a
\* connection it lets go is marked.
LEMMA CleanupExplained ==
  ASSUME ConnectionInv, NEW x \in Closer,
         \/ StartCleanup(x) \/ CompareAgainFails(x) \/ ListConnections(x)
         \/ FinishCleanup(x) \/ AbandonCleanup(x)
  PROVE  ConnectionInv'
<1>1. UNCHANGED <<wanted, running, leaseWay>> /\ ConnectionShape
  BY DEF StartCleanup, CompareAgainFails, ListConnections, FinishCleanup, AbandonCleanup, ConnectionInv
<1>2. /\ CloserShape' /\ \A y \in Closer \ {x} : closer'[y] = closer[y]
      /\ closer'[x].at # "delete" => closer'[x].left = {}
  <2>1. CASE StartCleanup(x)
    BY <1>1, <2>1 DEF StartCleanup, ConnectionShape, CloserShape, ConnectionInv, NoneLeft
  <2>2. CASE ListConnections(x)
    BY <1>1, <2>2 DEF ListConnections, Matched, Open, ConnectionShape, CloserShape
  <2>3. CASE CompareAgainFails(x) \/ FinishCleanup(x) \/ AbandonCleanup(x)
    BY <1>1, <2>3 DEF CompareAgainFails, FinishCleanup, AbandonCleanup, IdleCloser,
       ConnectionShape, CloserShape
  <2>. QED
    BY <2>1, <2>2, <2>3
<1>3. NoneLeft'
  BY <1>2 DEF NoneLeft, ConnectionInv
<1>4. \A c \in Connection : Closing(c) /\ UNCHANGED conn =>
        \/ Closing(c)'
        \/ closer[x].at \in {"saved", "list"} /\ conn[c].user \in closer[x].users
        \/ c \in closer[x].left
  BY <1>2 DEF Closing
<1>5. CASE StartCleanup(x) \/ ListConnections(x) \/ FinishCleanup(x)
  <2>1. UNCHANGED conn
    BY <1>5 DEF StartCleanup, ListConnections, FinishCleanup
  <2>2. ASSUME NEW c \in Open, Closing(c) PROVE Closing(c)'
    <3>1. CASE StartCleanup(x)
      BY <1>1, <1>4, <2>1, <2>2, <3>1 DEF StartCleanup, Closing, ConnectionShape, ConnectionInv, NoneLeft, Open
    <3>2. CASE ListConnections(x)
      BY <1>1, <1>4, <2>1, <2>2, <3>2 DEF ListConnections, Matched, OfUsers, Closing, ConnectionShape,
         ConnectionInv, NoneLeft, Open
    <3>3. CASE FinishCleanup(x)
      BY <1>4, <2>1, <2>2, <3>3 DEF FinishCleanup, Open
    <3>. QED
      BY <1>5, <3>1, <3>2, <3>3
  <2>. QED
    BY <1>1, <1>2, <1>3, <2>1, <2>2, StillExplained DEF ConnectionInv, ConnectionShape, CloserShape, Open
<1>6. CASE CompareAgainFails(x) \/ AbandonCleanup(x)
  <2>1. PICK cs : /\ Spare(cs)
                  /\ closer[x].at \in {"saved", "list"} => cs = Matched(x)
                  /\ closer[x].at = "delete" => cs = closer[x].left
    BY <1>6 DEF CompareAgainFails, AbandonCleanup
  <2>2. \A c \in Open : \/ closer[x].at \in {"saved", "list"} /\ conn[c].user \in closer[x].users
                        \/ c \in closer[x].left
                        => c \in cs
    BY <1>1, <2>1 DEF Matched, OfUsers, ConnectionInv, NoneLeft, ConnectionShape
  <2>3. /\ Open' = Open
        /\ DOMAIN conn' = Connection /\ \A c \in Connection : DOMAIN conn'[c] = ConnectionFields
        /\ \A c \in Open : /\ conn'[c].user = conn[c].user /\ conn'[c].way = conn[c].way
                           /\ conn'[c].late = conn[c].late
                           /\ conn[c].spared \/ c \in cs => conn'[c].spared
    BY <1>1, <2>1, Spared
  <2>4. \A c \in Open : Closing(c) => Closing(c)' \/ conn'[c].spared
    BY <1>2, <2>2, <2>3 DEF Closing
  <2>5. ConnectionShape'
    BY <1>1, <1>2, <2>3 DEF ConnectionShape, CloserShape
  <2>. QED
    BY <1>1, <1>3, <2>3, <2>4, <2>5, StillExplained DEF ConnectionInv
<1>. QED
  BY <1>5, <1>6

LEMMA DeletionExplained ==
  ASSUME ConnectionInv, NEW x \in Closer, NEW d \in Connection, DeleteConnection(x, d)
  PROVE  ConnectionInv'
<1>1. /\ UNCHANGED <<wanted, running, leaseWay>> /\ ConnectionShape
      /\ closer[x].at = "delete" /\ d \in closer[x].left
  BY DEF DeleteConnection, ConnectionInv
<1>2. CASE conn' = [conn EXCEPT ![d] = Closed]
           /\ closer' = [y \in Closer |-> [closer[y] EXCEPT !.left = @ \ {d}]]
  <2>1. /\ DOMAIN conn' = Connection /\ conn'[d] = Closed
        /\ \A c \in Connection \ {d} : conn'[c] = conn[c]
        /\ Open' = Open \ {d}
    BY <1>1, <1>2 DEF ConnectionShape, Open
  <2>2. \A y \in Closer : /\ closer'[y].at = closer[y].at /\ closer'[y].users = closer[y].users
                          /\ closer'[y].left = closer[y].left \ {d}
    BY <1>1, <1>2 DEF ConnectionShape
  <2>3. CloserShape'
    BY <1>1, <1>2 DEF ConnectionShape, CloserShape
  <2>4. DOMAIN Closed = ConnectionFields
    BY DEF Closed, ConnectionFields
  <2>5. \A c \in Connection : DOMAIN conn'[c] = ConnectionFields
    BY <1>1, <2>1, <2>4 DEF ConnectionShape
  <2>6. \A c \in Open' : conn'[c].user \in User
    BY <1>1, <2>1 DEF ConnectionShape, Open
  <2>7. ConnectionShape'
    BY <1>1, <2>1, <2>3, <2>5, <2>6 DEF ConnectionShape, CloserShape
  <2>8. NoneLeft'
    BY <2>2 DEF NoneLeft, ConnectionInv
  <2>9. \A c \in Open' : conn'[c] = conn[c] /\ (Closing(c) => Closing(c)')
    BY <2>1, <2>2 DEF Closing, Open
  <2>. QED
    BY <1>1, <2>1, <2>7, <2>8, <2>9, StillExplained DEF ConnectionInv
<1>3. CASE Spare({d}) /\ closer' = [closer EXCEPT ![x].left = @ \ {d}]
  <2>1. /\ Open' = Open
        /\ DOMAIN conn' = Connection /\ \A c \in Connection : DOMAIN conn'[c] = ConnectionFields
        /\ \A c \in Open : /\ conn'[c].user = conn[c].user /\ conn'[c].way = conn[c].way
                           /\ conn'[c].late = conn[c].late
                           /\ conn[c].spared \/ c \in {d} => conn'[c].spared
    BY <1>1, <1>3, Spared
  <2>2. /\ CloserShape' /\ \A y \in Closer \ {x} : closer'[y] = closer[y]
        /\ closer'[x].at = "delete" /\ closer'[x].left = closer[x].left \ {d}
    BY <1>1, <1>3 DEF ConnectionShape, CloserShape
  <2>3. ConnectionShape'
    BY <1>1, <2>1, <2>2 DEF ConnectionShape, CloserShape
  <2>4. NoneLeft'
    BY <2>2 DEF NoneLeft, ConnectionInv
  <2>5. \A c \in Open : Closing(c) => Closing(c)' \/ conn'[c].spared
    BY <1>1, <2>1, <2>2 DEF Closing
  <2>. QED
    BY <1>1, <2>1, <2>3, <2>4, <2>5, StillExplained DEF ConnectionInv
<1>. QED
  BY <1>2, <1>3 DEF DeleteConnection

LEMMA ConnectionInvHolds == ConnectionsSpec => []ConnectionInv
<1>1. ConnectionInv /\ [ConnectionsNext]_connectionVars => ConnectionInv'
  <2>. SUFFICES ASSUME ConnectionInv, [ConnectionsNext]_connectionVars PROVE ConnectionInv'
    OBVIOUS
  <2>1. CASE UNCHANGED connectionVars
    BY <2>1 DEF connectionVars, ConnectionInv, ConnectionShape, Open, NoneLeft, OldWayExplained,
       WayBy, Closing
  <2>2. CASE ApplyWays
    BY <2>2 DEF ApplyWays, ConnectionInv, ConnectionShape, Open, NoneLeft, OldWayExplained,
       WayBy, Closing
  <2>3. CASE RestartBoth
    <3>1. Open' = {} /\ UNCHANGED <<wanted, leaseWay>> /\ running' = wanted
      BY <2>3 DEF RestartBoth, Open
    <3>2. CloserShape' /\ NoneLeft'
      BY <2>3 DEF RestartBoth, CloserShape, NoneLeft, IdleCloser
    <3>3. DOMAIN Closed = ConnectionFields
      BY DEF Closed, ConnectionFields
    <3>4. DOMAIN conn' = Connection /\ \A c \in Connection : DOMAIN conn'[c] = ConnectionFields
      BY <2>3, <3>3 DEF RestartBoth
    <3>. QED
      BY <3>1, <3>2, <3>4 DEF ConnectionInv, ConnectionShape, CloserShape, OldWayExplained
  <2>4. ASSUME NEW c \in Connection, Disconnect(c) \/ \E u \in User : Connect(c, u)
        PROVE  ConnectionInv'
    BY <2>4, ConnectionComesAndGoes
  <2>5. ASSUME NEW x \in Closer,
               \/ \E u \in User : SaveChange(x, u)
               \/ StartCleanup(x) \/ CompareAgainFails(x) \/ ChangeLease(x)
               \/ ListConnections(x) \/ FinishCleanup(x) \/ AbandonCleanup(x)
               \/ \E c \in Connection : DeleteConnection(x, c)
        PROVE  ConnectionInv'
    BY <2>5, ChangeExplained, CleanupExplained, DeletionExplained
  <2>. QED
    BY <2>1, <2>2, <2>3, <2>4, <2>5 DEF ConnectionsNext
<1>. QED
  BY <1>1, ConnectionsStart, PTL DEF ConnectionsSpec

\* A connection that goes on by a way its user no longer has is about to be
\* closed, or the code tells why it is not (runtime_settings.go:75-85,
\* connection.go:43-66, lease_route.go:107-123).
THEOREM OldWaysExplained == ConnectionsSpec => []OldWayExplained
<1>1. ConnectionInv => OldWayExplained
  BY DEF ConnectionInv
<1>. QED
  BY <1>1, ConnectionInvHolds, PTL

\* Users, connections and closers are what they are said to be.
THEOREM ConnectionsTypeCorrect == ConnectionsSpec => []ConnectionsTypeOK
<1>1. ConnectionInv => ConnectionsTypeOK
  BY DEF ConnectionInv, ConnectionShape, ConnectionsTypeOK
<1>. QED
  BY <1>1, ConnectionInvHolds, PTL

-----------------------------------------------------------------------------
(* Who is answered, and on what that rests.                                 *)

AuthShape ==
  /\ control \in 0..MaxSecret /\ service \in BOOLEAN /\ hour \in Nat
  /\ DOMAIN visit = Browser
  /\ \A b \in Browser : DOMAIN visit[b] = {"at", "request", "hops"} /\ visit[b].hops \in Nat
  /\ DOMAIN cookie = Browser /\ DOMAIN token = Browser /\ DOMAIN login = Browser
  /\ \A b \in Browser : login[b] \in [1..MaxSecret -> [at  : Nat \cup {NoSession},
                                                       out : Nat \cup {NoSession}]]

\* The cookie is that of the last login with its secret.
CookieInv(b) ==
  cookie[b] # NoSession =>
    \E s \in 1..MaxSecret :
      /\ login[b][s].at \in Nat /\ login[b][s].out = NoSession
      /\ cookie[b] = [secret |-> s, ends |-> login[b][s].at + SessionTTL]

\* A token was fetched during a login with its secret.
TokenInv(b) ==
  token[b] # NoSession =>
    \E s \in 1..MaxSecret, ends \in Nat :
      /\ token[b] = [secret |-> s, ends |-> ends] /\ ends =< hour + TokenTTL
      /\ login[b][s].at \in Nat /\ ends =< login[b][s].at + SessionTTL + TokenTTL
      /\ login[b][s].out # NoSession => ends =< login[b][s].out + TokenTTL

\* Only pages are redirected, and those that come back are not again.
Redirectable(r) == r.under \notin {"/api", "/mihomo/controller"}
VisitInv(b) ==
  LET way == visit[b] IN
  /\ way.at \in {"page", "login", "form"} =>
       DOMAIN way.request = {"path", "under", "method", "html", "bearer"} /\ Placed(way.request)
  /\ way.at \in {"login", "form"} => way.hops =< 1 /\ Redirectable(way.request)
  /\ way.at = "page" /\ way.hops > 0 =>
       way.hops =< 2 /\ SessionAuthenticated(b) /\ Redirectable(way.request)
  /\ way.at \in {"none", "served"} => way.hops = 0
  /\ way.at \in {"none", "page", "login", "form", "served"}

AuthInv == AuthShape /\ \A b \in Browser : CookieInv(b) /\ TokenInv(b) /\ VisitInv(b)

LEMMA AuthStart == AuthInit => AuthInv
<1>. SUFFICES ASSUME AuthInit PROVE AuthInv
  OBVIOUS
<1>1. AuthShape
  BY ControlAuthAssumption DEF AuthInit, AuthShape, NoVisit, NeverIn
<1>2. ASSUME NEW b \in Browser PROVE CookieInv(b) /\ TokenInv(b) /\ VisitInv(b)
  <2>1. cookie[b] = NoSession /\ token[b] = NoSession /\ visit[b] = NoVisit
    BY DEF AuthInit
  <2>. QED
    BY <2>1 DEF CookieInv, TokenInv, VisitInv, NoVisit
<1>. QED
  BY <1>1, <1>2 DEF AuthInv

\* A page is served only if what it asks for is not required, or granted; and
\* one that came back from the login page is not redirected.
LEMMA AnswerIsGranted ==
  ASSUME AuthInv, NEW b \in Browser, Guarded(visit[b].request), visit[b].at = "page",
         LET r == visit[b].request IN
         Authorize(b, r) = "authorized" /\ ~LoginRedirectIfRequired(b, r),
         MethodAllowed(visit[b].request)
  PROVE  Entitled(b, visit[b].request)
<1>. DEFINE r == visit[b].request
<1>1. RequestRequired(r) => RequestAuthenticated(b, r)
  BY DEF Authorize, LoginRedirectPreferred
<1>2. ASSUME VerifySession(cookie[b]) PROVE Entitled(b, r)
  <2>1. PICK s \in 1..MaxSecret :
          /\ login[b][s].at \in Nat /\ login[b][s].out = NoSession
          /\ cookie[b] = [secret |-> s, ends |-> login[b][s].at + SessionTTL]
    BY <1>2 DEF AuthInv, CookieInv, VerifySession
  <2>2. control = s /\ control # 0 /\ hour =< login[b][s].at + SessionTTL
    BY <1>2, <2>1 DEF VerifySession
  <2>. QED
    BY <2>1, <2>2, ControlAuthAssumption DEF Entitled, AuthInv, AuthShape
<1>3. ASSUME r.under = "/mihomo/controller", VerifySession(token[b]) PROVE Entitled(b, r)
  <2>1. PICK s \in 1..MaxSecret, ends \in Nat :
          /\ token[b] = [secret |-> s, ends |-> ends] /\ ends =< hour + TokenTTL
          /\ login[b][s].at \in Nat /\ ends =< login[b][s].at + SessionTTL + TokenTTL
          /\ login[b][s].out # NoSession => ends =< login[b][s].out + TokenTTL
    BY <1>3 DEF AuthInv, TokenInv, VerifySession
  <2>2. control = s /\ control # 0 /\ hour =< ends
    BY <1>3, <2>1 DEF VerifySession
  <2>3. login[b][s].out # NoSession => login[b][s].out \in Nat
    BY <2>1 DEF AuthInv, AuthShape
  <2>. QED
    BY <1>3, <2>1, <2>2, <2>3, ControlAuthAssumption DEF Entitled, AuthInv, AuthShape
<1>4. CASE RequestRequired(r)
  BY <1>1, <1>2, <1>3, <1>4 DEF RequestAuthenticated, Entitled
<1>5. CASE ~RequestRequired(r)
  <2>1. control # 0 /\ r.path = ""
    BY <1>5 DEF Guarded, RequestRequired, Required
  <2>2. r.under = ""
    BY <2>1 DEF AuthInv, VisitInv, Placed
  <2>3. Required("/ui")
    BY <2>1 DEF Required, PublicRuntimePath
  <2>4. SessionAuthenticated(b)
    BY <2>1, <2>2, <2>3 DEF LoginRedirectIfRequired
  <2>. QED
    BY <1>2, <2>1, <2>4 DEF SessionAuthenticated
<1>. QED
  BY <1>4, <1>5

LEMMA BackIsNotRedirected ==
  ASSUME AuthInv, NEW b \in Browser, NEW r, Placed(r),
         DOMAIN r = {"path", "under", "method", "html", "bearer"},
         Redirectable(r), SessionAuthenticated(b)
  PROVE  Authorize(b, r) = "authorized" /\ ~LoginRedirectIfRequired(b, r)
<1>1. ~LoginRedirectIfRequired(b, r)
  BY DEF LoginRedirectIfRequired
<1>2. ~ServiceRuntimePath(r)
  <2>. DEFINE q == [r EXCEPT !.method = r.method]
  <2>1. q.path = r.path /\ q.method = r.method
    OBVIOUS
  <2>2. ServiceRuntimePath(r) => ServiceRuntimePath(q)
    BY <2>1 DEF ServiceRuntimePath
  <2>3. ServiceRuntimePath(r) => r.method \in {"GET", "POST"}
    BY DEF ServiceRuntimePath
  <2>. QED
    BY <2>2, <2>3 DEF Redirectable, Placed
<1>3. RequestRequired(r) => RequestAuthenticated(b, r)
  BY <1>2 DEF RequestRequired, Required, RequestAuthenticated, SessionAuthenticated
<1>. QED
  BY <1>1, <1>3 DEF Authorize

\* The login page sends a page on with GET, and it stays where it is.
LEMMA ReturnedPage ==
  ASSUME NEW r, DOMAIN r = {"path", "under", "method", "html", "bearer"}, Placed(r)
  PROVE  LET q == [r EXCEPT !.method = "GET", !.html = TRUE, !.bearer = FALSE] IN
         /\ DOMAIN q = {"path", "under", "method", "html", "bearer"} /\ Placed(q)
         /\ q.under = r.under
<1>. DEFINE q == [r EXCEPT !.method = "GET", !.html = TRUE, !.bearer = FALSE]
<1>1. DOMAIN q = {"path", "under", "method", "html", "bearer"} /\ q.path = r.path /\ q.under = r.under
  OBVIOUS
<1>2. ASSUME NEW m \in {"GET", "POST"}, ServiceRuntimePath([q EXCEPT !.method = m])
      PROVE  q.under = "/api"
  <2>1. /\ [q EXCEPT !.method = m].path = q.path /\ [q EXCEPT !.method = m].method = m
        /\ [r EXCEPT !.method = m].path = r.path /\ [r EXCEPT !.method = m].method = m
    BY <1>1
  <2>2. ServiceRuntimePath([r EXCEPT !.method = m])
    BY <1>1, <1>2, <2>1 DEF ServiceRuntimePath
  <2>. QED
    BY <1>1, <2>2 DEF Placed
<1>. QED
  BY <1>1, <1>2 DEF Placed

\* The invariant of a browser whose visit is as it was, or is counted anew.
LEMMA VisitAnew ==
  ASSUME NEW b \in Browser, VisitInv(b), DOMAIN visit[b] = {"at", "request", "hops"},
         visit'[b] = [visit[b] EXCEPT !.hops = 0]
  PROVE  VisitInv(b)' /\ DOMAIN visit'[b] = {"at", "request", "hops"} /\ visit'[b].hops \in Nat
<1>1. /\ visit'[b].at = visit[b].at /\ visit'[b].request = visit[b].request /\ visit'[b].hops = 0
      /\ DOMAIN visit'[b] = {"at", "request", "hops"}
  OBVIOUS
<1>. QED
  BY <1>1 DEF VisitInv

LEMMA AskKeeps ==
  ASSUME AuthInv, NEW b \in Browser, Ask(b)
  PROVE  /\ AuthInv'
         /\ visit'[b].at = "served" => (Guarded(visit[b].request) => Entitled(b, visit[b].request))
<1>. DEFINE r == visit[b].request
<1>1. /\ UNCHANGED <<control, service, hour, cookie, token, login>> /\ visit[b].at = "page"
      /\ DOMAIN visit = Browser /\ DOMAIN visit[b] = {"at", "request", "hops"} /\ visit[b].hops \in Nat
      /\ DOMAIN r = {"path", "under", "method", "html", "bearer"} /\ Placed(r)
  BY DEF Ask, AuthInv, AuthShape, VisitInv
<1>2. ASSUME NEW c \in Browser, c # b, visit'[c] = visit[c] PROVE VisitInv(c)'
  <2>1. VisitInv(c)
    BY DEF AuthInv
  <2>. QED
    BY <1>1, <1>2, <2>1 DEF VisitInv, SessionAuthenticated, VerifySession
<1>3. CASE Authorize(b, r) = "redirect" \/ (Authorize(b, r) = "authorized" /\ LoginRedirectIfRequired(b, r))
  <2>1. visit' = Hop(b, "login")
    BY <1>3 DEF Ask
  <2>2. visit[b].hops = 0
    BY <1>1, <1>3, BackIsNotRedirected DEF AuthInv, VisitInv
  <2>3. Redirectable(r)
    BY <1>3 DEF Redirectable, Authorize, LoginRedirectPreferred, LoginRedirectIfRequired
  <2>4. /\ DOMAIN visit' = Browser /\ \A c \in Browser \ {b} : visit'[c] = visit[c]
        /\ visit'[b].at = "login" /\ visit'[b].request = r /\ visit'[b].hops \in {0, 1}
        /\ DOMAIN visit'[b] = {"at", "request", "hops"}
    BY <1>1, <2>1, <2>2 DEF Hop
  <2>5. VisitInv(b)'
    BY <1>1, <2>3, <2>4 DEF VisitInv
  <2>6. AuthShape'
    BY <1>1, <2>4 DEF AuthInv, AuthShape
  <2>7. \A c \in Browser : CookieInv(c)' /\ TokenInv(c)'
    BY <1>1 DEF AuthInv, CookieInv, TokenInv
  <2>. QED
    BY <1>2, <2>4, <2>5, <2>6, <2>7 DEF AuthInv
<1>4. CASE ~(Authorize(b, r) = "redirect" \/ (Authorize(b, r) = "authorized" /\ LoginRedirectIfRequired(b, r)))
  <2>. DEFINE served == Authorize(b, r) = "authorized" /\ MethodAllowed(r)
  <2>1. visit' = [visit EXCEPT ![b] = [NoVisit EXCEPT !.at = IF served THEN "served" ELSE "none"]]
    BY <1>4 DEF Ask
  <2>. HIDE DEF served
  <2>2. /\ DOMAIN visit' = Browser /\ \A c \in Browser \ {b} : visit'[c] = visit[c]
        /\ visit'[b].at = (IF served THEN "served" ELSE "none")
        /\ visit'[b].hops = 0 /\ DOMAIN visit'[b] = {"at", "request", "hops"}
    BY <1>1, <2>1 DEF NoVisit
  <2>3. VisitInv(b)'
    BY <2>2 DEF VisitInv
  <2>4. AuthShape'
    BY <1>1, <2>2 DEF AuthInv, AuthShape
  <2>5. \A c \in Browser : CookieInv(c)' /\ TokenInv(c)'
    BY <1>1 DEF AuthInv, CookieInv, TokenInv
  <2>6. visit'[b].at = "served" => (Guarded(r) => Entitled(b, r))
    BY <1>1, <1>4, <2>2, AnswerIsGranted DEF served
  <2>. QED
    BY <1>2, <2>2, <2>3, <2>4, <2>5, <2>6 DEF AuthInv
<1>. QED
  BY <1>3, <1>4

LoginShape ==
  /\ DOMAIN cookie = Browser /\ DOMAIN token = Browser /\ DOMAIN login = Browser
  /\ \A b \in Browser : login[b] \in [1..MaxSecret -> [at  : Nat \cup {NoSession},
                                                       out : Nat \cup {NoSession}]]

\* A login: its cookie is good at once, and tokens of an earlier one with the
\* same secret last no longer than one of this.
LEMMA EnterKeeps ==
  ASSUME AuthInv, NEW b \in Browser, control # 0, Enter(b), UNCHANGED <<control, hour, token>>
  PROVE  /\ LoginShape' /\ \A c \in Browser : CookieInv(c)' /\ TokenInv(c)'
         /\ SessionAuthenticated(b)'
<1>1. /\ control \in 1..MaxSecret /\ hour \in Nat /\ LoginShape
  BY ControlAuthAssumption DEF AuthInv, AuthShape, LoginShape
<1>2. /\ cookie' = [cookie EXCEPT ![b] = [secret |-> control, ends |-> hour + SessionTTL]]
      /\ login' = [login EXCEPT ![b][control] = [at |-> hour, out |-> NoSession]]
  BY DEF Enter, SignSession
<1>3. /\ LoginShape' /\ login'[b][control] = [at |-> hour, out |-> NoSession]
      /\ \A s \in 1..MaxSecret : s # control => login'[b][s] = login[b][s]
      /\ \A c \in Browser \ {b} : login'[c] = login[c] /\ cookie'[c] = cookie[c]
      /\ cookie'[b] = [secret |-> control, ends |-> hour + SessionTTL]
  BY <1>1, <1>2 DEF LoginShape
<1>4. ASSUME NEW c \in Browser PROVE CookieInv(c)'
  <2>1. CASE c = b
    BY <1>1, <1>3, <2>1 DEF CookieInv
  <2>2. CASE c # b
    BY <1>3, <2>2 DEF AuthInv, CookieInv
  <2>. QED
    BY <2>1, <2>2
<1>5. ASSUME NEW c \in Browser PROVE TokenInv(c)'
  <2>1. CASE c # b \/ token[c] = NoSession
    BY <1>3, <2>1 DEF AuthInv, TokenInv
  <2>2. CASE c = b /\ token[b] # NoSession
    <3>1. PICK s \in 1..MaxSecret, ends \in Nat :
            /\ token[b] = [secret |-> s, ends |-> ends] /\ ends =< hour + TokenTTL
            /\ login[b][s].at \in Nat /\ ends =< login[b][s].at + SessionTTL + TokenTTL
            /\ login[b][s].out # NoSession => ends =< login[b][s].out + TokenTTL
      BY <2>2 DEF AuthInv, TokenInv
    <3>2. /\ login'[b][s].at \in Nat /\ ends =< login'[b][s].at + SessionTTL + TokenTTL
          /\ login'[b][s].out # NoSession => ends =< login'[b][s].out + TokenTTL
      BY <1>1, <1>3, <3>1, ControlAuthAssumption
    <3>. QED
      BY <2>2, <3>1, <3>2 DEF TokenInv
  <2>. QED
    BY <2>1, <2>2
<1>6. SessionAuthenticated(b)'
  <2>1. hour =< hour + SessionTTL
    BY <1>1, ControlAuthAssumption
  <2>2. cookie'[b].secret = control /\ cookie'[b].ends = hour + SessionTTL
    BY <1>3
  <2>3. cookie'[b] # NoSession
    BY <1>1, <1>3, ControlAuthAssumption
  <2>. QED
    BY <2>1, <2>2, <2>3 DEF SessionAuthenticated, VerifySession
<1>. QED
  BY <1>3, <1>4, <1>5, <1>6

\* The end of a session: the tokens it fetched outlast it by their own time.
LEMMA LogoutKeeps ==
  ASSUME AuthInv, NEW b \in Browser, Logout(b)
  PROVE  LoginShape' /\ \A c \in Browser : CookieInv(c)' /\ TokenInv(c)'
<1>1. /\ hour \in Nat /\ LoginShape /\ UNCHANGED <<control, hour, token>>
      /\ cookie' = [cookie EXCEPT ![b] = NoSession] /\ login' = Left(b)
  BY DEF Logout, AuthInv, AuthShape, LoginShape
<1>2. /\ LoginShape' /\ \A c \in Browser \ {b} : login'[c] = login[c] /\ cookie'[c] = cookie[c]
      /\ cookie'[b] = NoSession
      /\ \A s \in 1..MaxSecret :
           /\ login'[b][s].at = login[b][s].at
           /\ login'[b][s].out = IF login[b][s].out = NoSession THEN hour ELSE login[b][s].out
  <2>1. \A s \in 1..MaxSecret : login[b][s] \in [at : Nat \cup {NoSession}, out : Nat \cup {NoSession}]
    BY <1>1 DEF LoginShape
  <2>2. DOMAIN login' = Browser /\ \A c \in Browser \ {b} : login'[c] = login[c]
    BY <1>1 DEF LoginShape, Left
  <2>3. login'[b] = [s \in 1..MaxSecret |->
          IF login[b][s].out = NoSession THEN [login[b][s] EXCEPT !.out = hour] ELSE login[b][s]]
    BY <1>1 DEF LoginShape, Left
  <2>4. ASSUME NEW s \in 1..MaxSecret
        PROVE  /\ login'[b][s] \in [at : Nat \cup {NoSession}, out : Nat \cup {NoSession}]
               /\ login'[b][s].at = login[b][s].at
               /\ login'[b][s].out = IF login[b][s].out = NoSession THEN hour ELSE login[b][s].out
    BY <1>1, <2>1, <2>3
  <2>5. login'[b] \in [1..MaxSecret -> [at  : Nat \cup {NoSession}, out : Nat \cup {NoSession}]]
    BY <2>3, <2>4
  <2>6. DOMAIN cookie' = Browser /\ DOMAIN token' = Browser /\ cookie'[b] = NoSession
        /\ \A c \in Browser \ {b} : cookie'[c] = cookie[c]
    BY <1>1 DEF LoginShape
  <2>7. \A c \in Browser : login'[c] \in [1..MaxSecret -> [at  : Nat \cup {NoSession}, out : Nat \cup {NoSession}]]
    BY <1>1, <2>2, <2>5 DEF LoginShape
  <2>. QED
    BY <2>2, <2>4, <2>6, <2>7 DEF LoginShape
<1>3. ASSUME NEW c \in Browser PROVE CookieInv(c)'
  BY <1>2 DEF AuthInv, CookieInv
<1>4. ASSUME NEW c \in Browser PROVE TokenInv(c)'
  <2>1. CASE token[c] = NoSession
    BY <1>1, <2>1 DEF TokenInv
  <2>2. CASE c # b
    <3>1. login'[c] = login[c] /\ token' = token /\ hour' = hour
      BY <1>1, <1>2, <2>2
    <3>2. TokenInv(c)
      BY DEF AuthInv
    <3>. QED
      BY <3>1, <3>2 DEF TokenInv
  <2>3. CASE c = b /\ token[b] # NoSession
    BY <1>1, <1>2, <2>3 DEF AuthInv, TokenInv
  <2>. QED
    BY <2>1, <2>2, <2>3
<1>. QED
  BY <1>2, <1>3, <1>4

\* A step after which every visit is counted anew, and that leaves what
\* sessions rest on as it must be.
LEMMA AnewKeeps ==
  ASSUME AuthInv, visit' = Anew, control' \in 0..MaxSecret, service' \in BOOLEAN, hour' \in Nat,
         LoginShape', \A b \in Browser : CookieInv(b)' /\ TokenInv(b)'
  PROVE  AuthInv' /\ \A b \in Browser : visit'[b].at = visit[b].at /\ visit'[b].hops = 0
<1>1. DOMAIN visit' = Browser /\ \A b \in Browser : visit'[b] = [visit[b] EXCEPT !.hops = 0]
  BY DEF Anew
<1>2. \A b \in Browser : VisitInv(b) /\ DOMAIN visit[b] = {"at", "request", "hops"}
  BY DEF AuthInv, AuthShape
<1>3. \A b \in Browser : /\ VisitInv(b)' /\ DOMAIN visit'[b] = {"at", "request", "hops"}
                         /\ visit'[b].hops \in Nat
  BY <1>1, <1>2, VisitAnew
<1>4. \A b \in Browser : visit'[b].at = visit[b].at /\ visit'[b].hops = 0
  BY <1>1, <1>2
<1>. QED
  BY <1>1, <1>3, <1>4 DEF AuthInv, AuthShape, LoginShape

\* The steps of a browser from one page to the next.
LEMMA VisitKeeps ==
  ASSUME AuthInv, NEW b \in Browser,
         LoginPage(b) \/ \E r \in Asked : Visit(b, r)
  PROVE  AuthInv' /\ visit[b].at # "page"
<1>1. /\ UNCHANGED <<control, service, hour, cookie, token, login>> /\ AuthShape
      /\ DOMAIN visit = Browser /\ DOMAIN visit[b] = {"at", "request", "hops"}
      /\ visit[b].hops \in Nat /\ VisitInv(b) /\ visit[b].at # "page"
  BY DEF LoginPage, Visit, AuthInv, AuthShape
<1>. DEFINE OneVisit == /\ \A c \in Browser \ {b} : visit'[c] = visit[c]
                        /\ DOMAIN visit' = Browser /\ DOMAIN visit'[b] = {"at", "request", "hops"}
                        /\ visit'[b].hops \in Nat /\ VisitInv(b)'
<1>2. OneVisit
  <2>1. ASSUME NEW r \in Asked, Visit(b, r)
        PROVE  OneVisit
    <3>1. /\ \A c \in Browser \ {b} : visit'[c] = visit[c]
          /\ DOMAIN visit' = Browser /\ visit'[b] = [at |-> "page", request |-> r, hops |-> 0]
      BY <1>1, <2>1 DEF Visit
    <3>2. DOMAIN r = {"path", "under", "method", "html", "bearer"} /\ Placed(r)
      BY ControlAuthAssumption, PathAssumption
    <3>. QED
      BY <3>1, <3>2 DEF VisitInv
  <2>2. ASSUME LoginPage(b), SessionAuthenticated(b)
        PROVE  OneVisit
    <3>. DEFINE r == visit[b].request
                q == [r EXCEPT !.method = "GET", !.html = TRUE, !.bearer = FALSE]
    <3>1. /\ visit[b].hops =< 1 /\ Redirectable(r)
          /\ DOMAIN r = {"path", "under", "method", "html", "bearer"} /\ Placed(r)
      BY <1>1, <2>2 DEF LoginPage, VisitInv
    <3>2. visit' = Returning(b, Hop(b, "page"))
      BY <2>2 DEF LoginPage
    <3>3. /\ \A c \in Browser \ {b} : visit'[c] = visit[c]
          /\ DOMAIN visit' = Browser /\ DOMAIN visit'[b] = {"at", "request", "hops"}
          /\ visit'[b].at = "page" /\ visit'[b].hops \in {visit[b].hops, visit[b].hops + 1}
          /\ visit'[b].request = q
      BY <1>1, <3>2 DEF Returning, Hop
    <3>4. DOMAIN q = {"path", "under", "method", "html", "bearer"} /\ Placed(q) /\ Redirectable(q)
      BY <3>1, ReturnedPage DEF Redirectable
    <3>5. SessionAuthenticated(b)'
      BY <1>1, <2>2 DEF SessionAuthenticated, VerifySession
    <3>. QED
      BY <1>1, <3>1, <3>3, <3>4, <3>5 DEF VisitInv
  <2>3. ASSUME LoginPage(b), ~SessionAuthenticated(b)
        PROVE  OneVisit
    <3>1. visit[b].at = "login" /\ visit' = [visit EXCEPT ![b].at = "form"]
      BY <2>3 DEF LoginPage
    <3>2. /\ \A c \in Browser \ {b} : visit'[c] = visit[c]
          /\ DOMAIN visit' = Browser /\ DOMAIN visit'[b] = {"at", "request", "hops"}
          /\ visit'[b].at = "form" /\ visit'[b].hops = visit[b].hops
          /\ visit'[b].request = visit[b].request
      BY <1>1, <3>1
    <3>. QED
      BY <1>1, <3>1, <3>2 DEF VisitInv
  <2>. QED
    BY <2>1, <2>2, <2>3
<1>3. ASSUME NEW c \in Browser, c # b PROVE VisitInv(c)'
  <2>1. VisitInv(c)
    BY DEF AuthInv
  <2>. QED
    BY <1>1, <1>2, <1>3, <2>1 DEF VisitInv, SessionAuthenticated, VerifySession
<1>4. AuthShape'
  BY <1>1, <1>2 DEF AuthShape
<1>5. \A c \in Browser : CookieInv(c)' /\ TokenInv(c)'
  BY <1>1 DEF AuthInv, CookieInv, TokenInv
<1>. QED
  BY <1>1, <1>2, <1>3, <1>4, <1>5 DEF AuthInv

LEMMA SubmitKeeps ==
  ASSUME AuthInv, NEW b \in Browser, SubmitLogin(b)
  PROVE  /\ AuthInv' /\ visit[b].at # "page" /\ visit'[b].at # "served"
         /\ \A c \in Browser \ {b} : visit'[c].at = visit[c].at
<1>. DEFINE r == visit[b].request
            q == [r EXCEPT !.method = "GET", !.html = TRUE, !.bearer = FALSE]
<1>1. /\ visit[b].at = "form" /\ UNCHANGED <<control, service, hour, token>> /\ AuthShape
      /\ \A c \in Browser : VisitInv(c) /\ DOMAIN visit[c] = {"at", "request", "hops"}
      /\ DOMAIN Anew = Browser /\ \A c \in Browser : Anew[c] = [visit[c] EXCEPT !.hops = 0]
  BY DEF SubmitLogin, AuthInv, AuthShape, Anew
<1>2. /\ DOMAIN r = {"path", "under", "method", "html", "bearer"} /\ Placed(r) /\ Redirectable(r)
  BY <1>1 DEF VisitInv
<1>3. ASSUME NEW c \in Browser \ {b}, visit'[c] = Anew[c]
      PROVE  /\ VisitInv(c)' /\ DOMAIN visit'[c] = {"at", "request", "hops"}
             /\ visit'[c].hops \in Nat /\ visit'[c].at = visit[c].at
  <2>1. visit'[c] = [visit[c] EXCEPT !.hops = 0] /\ c \in Browser
    BY <1>1, <1>3
  <2>2. VisitInv(c) /\ DOMAIN visit[c] = {"at", "request", "hops"}
    BY <1>1
  <2>3. visit'[c].at = visit[c].at
    BY <2>1, <2>2
  <2>. QED
    BY <2>1, <2>2, <2>3, VisitAnew
<1>4. CASE /\ control # 0 /\ Enter(b)
           /\ visit' = Returning(b, [Anew EXCEPT ![b].at = "page", ![b].hops = 1])
  <2>1. /\ LoginShape' /\ \A c \in Browser : CookieInv(c)' /\ TokenInv(c)'
        /\ SessionAuthenticated(b)'
    BY <1>1, <1>4, EnterKeeps
  <2>2. /\ DOMAIN visit' = Browser /\ \A c \in Browser \ {b} : visit'[c] = Anew[c]
        /\ visit'[b].at = "page" /\ visit'[b].hops = 1 /\ visit'[b].request = q
        /\ DOMAIN visit'[b] = {"at", "request", "hops"}
    BY <1>1, <1>4 DEF Returning
  <2>3. DOMAIN q = {"path", "under", "method", "html", "bearer"} /\ Placed(q) /\ Redirectable(q)
    BY <1>2, ReturnedPage DEF Redirectable
  <2>4. VisitInv(b)'
    BY <2>1, <2>2, <2>3 DEF VisitInv
  <2>5. \A c \in Browser : /\ VisitInv(c)' /\ DOMAIN visit'[c] = {"at", "request", "hops"}
                           /\ visit'[c].hops \in Nat
    BY <1>3, <2>2, <2>4
  <2>6. AuthShape'
    BY <1>1, <2>1, <2>2, <2>5 DEF AuthShape, LoginShape
  <2>7. \A c \in Browser \ {b} : visit'[c].at = visit[c].at
    BY <1>3, <2>2
  <2>. QED
    BY <1>1, <2>1, <2>2, <2>5, <2>6, <2>7 DEF AuthInv
<1>5. CASE /\ visit' = [Anew EXCEPT ![b].at = "login", ![b].hops = 1]
           /\ UNCHANGED <<cookie, login>>
  <2>1. /\ DOMAIN visit' = Browser /\ \A c \in Browser \ {b} : visit'[c] = Anew[c]
        /\ visit'[b].at = "login" /\ visit'[b].hops = 1 /\ visit'[b].request = r
        /\ DOMAIN visit'[b] = {"at", "request", "hops"}
    BY <1>1, <1>5
  <2>2. VisitInv(b)'
    BY <1>2, <2>1 DEF VisitInv
  <2>3. \A c \in Browser : CookieInv(c)' /\ TokenInv(c)'
    BY <1>1, <1>5 DEF AuthInv, CookieInv, TokenInv
  <2>. QED
    BY <1>1, <1>3, <1>5, <2>1, <2>2, <2>3 DEF AuthInv, AuthShape
<1>. QED
  BY <1>4, <1>5 DEF SubmitLogin

LEMMA FetchKeeps ==
  ASSUME AuthInv, NEW b \in Browser, FetchToken(b)
  PROVE  AuthInv'
<1>1. /\ UNCHANGED <<control, service, hour, cookie, visit, login>> /\ AuthShape
      /\ token' = [token EXCEPT ![b] = [secret |-> control, ends |-> hour + TokenTTL]]
      /\ VerifySession(cookie[b])
  BY DEF FetchToken, SignSession, AuthInv
<1>2. PICK s \in 1..MaxSecret :
        /\ login[b][s].at \in Nat /\ login[b][s].out = NoSession
        /\ cookie[b] = [secret |-> s, ends |-> login[b][s].at + SessionTTL]
  BY <1>1 DEF AuthInv, CookieInv, VerifySession
<1>3. s = control /\ hour =< login[b][s].at + SessionTTL
  BY <1>1, <1>2 DEF VerifySession
<1>4. TokenInv(b)'
  <2>1. /\ token'[b] = [secret |-> s, ends |-> hour + TokenTTL]
        /\ hour + TokenTTL \in Nat /\ hour + TokenTTL =< login[b][s].at + SessionTTL + TokenTTL
    BY <1>1, <1>2, <1>3, ControlAuthAssumption DEF AuthShape
  <2>2. \E ends \in Nat : /\ token'[b] = [secret |-> s, ends |-> ends] /\ ends =< hour + TokenTTL
                          /\ ends =< login[b][s].at + SessionTTL + TokenTTL
    BY <2>1, ControlAuthAssumption DEF AuthShape
  <2>. QED
    BY <1>1, <1>2, <2>2 DEF TokenInv
<1>5. \A c \in Browser \ {b} : TokenInv(c)'
  BY <1>1 DEF AuthInv, AuthShape, TokenInv
<1>6. AuthShape' /\ \A c \in Browser : CookieInv(c)' /\ VisitInv(c)'
  BY <1>1 DEF AuthInv, AuthShape, CookieInv, VisitInv, SessionAuthenticated, VerifySession
<1>. QED
  BY <1>4, <1>5, <1>6 DEF AuthInv

\* Time goes on, or the gateway starts again with other secrets.
LEMMA WorldKeeps ==
  ASSUME AuthInv, Tick \/ Restart
  PROVE  AuthInv' /\ \A b \in Browser : visit'[b].at = visit[b].at /\ visit'[b].hops = 0
<1>1. /\ UNCHANGED <<cookie, token, login>> /\ visit' = Anew /\ AuthShape
      /\ control' \in 0..MaxSecret /\ service' \in BOOLEAN /\ hour' \in {hour, hour + 1}
  BY DEF Tick, Restart, AuthInv, AuthShape
<1>2. LoginShape' /\ \A b \in Browser : CookieInv(b)'
  BY <1>1 DEF AuthInv, AuthShape, LoginShape, CookieInv
<1>3. ASSUME NEW b \in Browser, token[b] # NoSession PROVE TokenInv(b)'
  <2>1. PICK s \in 1..MaxSecret, ends \in Nat :
          /\ token[b] = [secret |-> s, ends |-> ends] /\ ends =< hour + TokenTTL
          /\ login[b][s].at \in Nat /\ ends =< login[b][s].at + SessionTTL + TokenTTL
          /\ login[b][s].out # NoSession => ends =< login[b][s].out + TokenTTL
    BY <1>3 DEF AuthInv, TokenInv
  <2>2. hour \in Nat /\ TokenTTL \in Nat /\ hour =< hour'
    BY <1>1, ControlAuthAssumption DEF AuthShape
  <2>3. ends =< hour' + TokenTTL
    <3>1. hour' \in Nat
      BY <1>1 DEF AuthShape
    <3>. QED
      BY <2>1, <2>2, <3>1
  <2>. QED
    BY <1>1, <2>1, <2>3 DEF TokenInv
<1>4. \A b \in Browser : TokenInv(b)'
  BY <1>1, <1>3 DEF TokenInv
<1>5. hour' \in Nat
  BY <1>1 DEF AuthShape
<1>. QED
  BY <1>1, <1>2, <1>4, <1>5, AnewKeeps

\* What every step keeps, and what it answers.
AnswerRests(b) ==
  /\ visit[b].at = "page" /\ visit'[b].at = "served" /\ Guarded(visit[b].request)
       => Entitled(b, visit[b].request)
  /\ visit'[b].hops =< 2

LEMMA AuthStep == AuthInv /\ [AuthNext]_authVars => AuthInv' /\ \A b \in Browser : AnswerRests(b)
<1>. SUFFICES ASSUME AuthInv, [AuthNext]_authVars
              PROVE  /\ AuthInv'
                     /\ \A b \in Browser : /\ visit[b].at = "page" /\ visit'[b].at = "served" =>
                                                (Guarded(visit[b].request) => Entitled(b, visit[b].request))
  <2>1. AuthInv' => \A b \in Browser : visit'[b].hops =< 2
    BY DEF AuthInv, AuthShape, VisitInv
  <2>. QED
    BY <2>1 DEF AnswerRests
<1>1. CASE UNCHANGED authVars
  BY <1>1 DEF authVars, AuthInv, AuthShape, CookieInv, TokenInv, VisitInv, SessionAuthenticated, VerifySession
<1>2. ASSUME NEW b \in Browser, Ask(b) \/ LoginPage(b) \/ \E r \in Asked : Visit(b, r)
      PROVE  /\ AuthInv'
             /\ \A c \in Browser : visit[c].at = "page" /\ visit'[c].at = "served" =>
                                     (Guarded(visit[c].request) => Entitled(c, visit[c].request))
  <2>1. \A c \in Browser \ {b} : visit'[c] = visit[c]
    BY <1>2 DEF Ask, LoginPage, Visit, Hop, Returning, AuthInv, AuthShape
  <2>. QED
    BY <1>2, <2>1, AskKeeps, VisitKeeps
<1>3. ASSUME NEW b \in Browser, SubmitLogin(b)
      PROVE  AuthInv' /\ \A c \in Browser : ~(visit[c].at = "page" /\ visit'[c].at = "served")
  BY <1>3, SubmitKeeps
<1>4. ASSUME NEW b \in Browser, LoginWithoutForm(b) \/ Logout(b)
      PROVE  AuthInv' /\ \A c \in Browser : visit'[c].at = visit[c].at
  <2>1. visit' = Anew /\ UNCHANGED <<control, service, hour>> /\ AuthShape
    BY <1>4 DEF LoginWithoutForm, Logout, AuthInv
  <2>2. LoginShape' /\ \A c \in Browser : CookieInv(c)' /\ TokenInv(c)'
    BY <1>4, EnterKeeps, LogoutKeeps DEF LoginWithoutForm
  <2>. QED
    BY <2>1, <2>2, AnewKeeps DEF AuthShape
<1>5. ASSUME NEW b \in Browser, FetchToken(b)
      PROVE  AuthInv' /\ visit' = visit
  BY <1>5, FetchKeeps DEF FetchToken
<1>6. CASE Tick \/ Restart
  BY <1>6, WorldKeeps
<1>. QED
  BY <1>1, <1>2, <1>3, <1>4, <1>5, <1>6 DEF AuthNext

LEMMA AuthInvHolds == AuthSpec => []AuthInv
BY AuthStart, AuthStep, PTL DEF AuthSpec

\* What a browser is served at a guarded path rests on its login, its token or
\* the secret of services, and nobody is redirected for ever
\* (authorization.go, application.go:132-156, login_decision.go).
THEOREM AnswersRest == AuthSpec => AnswersRestOnLogin
<1>1. AuthInv /\ [AuthNext]_authVars => [\A b \in Browser : AnswerRests(b)]_authVars
  BY AuthStep
<1>. QED
  BY <1>1, AuthInvHolds, PTL DEF AuthSpec, AnswersRestOnLogin, AnswerRests

\* Time and the redirects that are counted keep to their bounds.
HopsBounded == hour \in 0..MaxHour /\ \A b \in Browser : visit[b].hops \in 0..MaxHops

LEMMA HopsStep == ASSUME AuthInv, HopsBounded, [AuthNext]_authVars PROVE HopsBounded'
<1>. USE ControlAuthAssumption DEF HopsBounded
<1>1. AuthShape
  BY DEF AuthInv
<1>2. ASSUME visit' = Anew \/ visit' = visit PROVE \A b \in Browser : visit'[b].hops \in 0..MaxHops
  BY <1>1, <1>2 DEF Anew, AuthShape
<1>3. ASSUME NEW b \in Browser, \E r \in Asked : Visit(b, r) PROVE HopsBounded'
  BY <1>1, <1>3 DEF Visit, AuthShape
<1>4. ASSUME NEW b \in Browser, Ask(b) PROVE HopsBounded'
  <2>1. /\ UNCHANGED <<control, service, hour, cookie, token, login>>
        /\ \/ visit' = Hop(b, "login")
           \/ \E at \in {"served", "none"} : visit' = [visit EXCEPT ![b] = [NoVisit EXCEPT !.at = at]]
    BY <1>4 DEF Ask
  <2>2. CASE visit' = Hop(b, "login")
    BY <1>1, <2>1, <2>2 DEF Hop, AuthShape
  <2>3. ASSUME NEW at, visit' = [visit EXCEPT ![b] = [NoVisit EXCEPT !.at = at]] PROVE HopsBounded'
    BY <1>1, <2>1, <2>3 DEF NoVisit, AuthShape
  <2>. QED
    BY <2>1, <2>2, <2>3
<1>5. ASSUME NEW b \in Browser, LoginPage(b) PROVE HopsBounded'
  BY <1>1, <1>5 DEF LoginPage, Returning, Hop, AuthShape
<1>6. ASSUME NEW b \in Browser, SubmitLogin(b) PROVE HopsBounded'
  <2>1. /\ DOMAIN Anew = Browser /\ \A c \in Browser : Anew[c] = [visit[c] EXCEPT !.hops = 0]
        /\ \A c \in Browser : Anew[c].hops = 0 /\ DOMAIN Anew[c] = {"at", "request", "hops"}
    BY <1>1 DEF Anew, AuthShape
  <2>2. CASE visit' = Returning(b, [Anew EXCEPT ![b].at = "page", ![b].hops = 1])
    <3>1. visit'[b].hops = 1 /\ \A c \in Browser \ {b} : visit'[c] = Anew[c]
      BY <2>1, <2>2 DEF Returning
    <3>. QED
      BY <1>6, <2>1, <3>1 DEF SubmitLogin
  <2>3. CASE visit' = [Anew EXCEPT ![b].at = "login", ![b].hops = 1]
    <3>1. visit'[b].hops = 1 /\ \A c \in Browser \ {b} : visit'[c] = Anew[c]
      BY <2>1, <2>3
    <3>. QED
      BY <1>6, <2>1, <3>1 DEF SubmitLogin
  <2>. QED
    BY <1>6, <2>2, <2>3 DEF SubmitLogin
<1>7. ASSUME NEW b \in Browser, LoginWithoutForm(b) \/ Logout(b) \/ FetchToken(b) PROVE HopsBounded'
  BY <1>2, <1>7 DEF LoginWithoutForm, Logout, FetchToken
<1>8. CASE Tick \/ Restart
  BY <1>2, <1>8 DEF Tick, Restart
<1>9. CASE UNCHANGED authVars
  BY <1>9 DEF authVars
<1>. QED
  BY <1>3, <1>4, <1>5, <1>6, <1>7, <1>8, <1>9 DEF AuthNext

\* A browser is at one of the places of its way, and what it asks for there is
\* a request.
THEOREM AuthTypeCorrect == AuthSpec => []AuthTypeOK
<1>1. AuthInit => HopsBounded
  BY ControlAuthAssumption DEF AuthInit, HopsBounded, NoVisit
<1>2. AuthInv /\ HopsBounded /\ [AuthNext]_authVars => HopsBounded'
  BY HopsStep
<1>3. AuthInv /\ HopsBounded => AuthTypeOK
  BY DEF AuthInv, AuthShape, VisitInv, HopsBounded, AuthTypeOK
<1>. QED
  BY <1>1, <1>2, <1>3, AuthInvHolds, PTL DEF AuthSpec

-----------------------------------------------------------------------------
(* The terms of leases: how long their slots last, and how they come back.  *)

\* The wait for the provider's lock left the rounding its part of the buffer.
InTime(waited) == waited + Minute - 1 <= SlotBuffer

FlowInv ==
  flow # NoFlow =>
    /\ flow.at \in {"select", "wait", "open"} /\ flow.policy.ttl \in Nat
    /\ flow.at # "select" => flow.lease \in TermLease /\ Unused(flow.lease)
    /\ flow.at = "wait" =>
         /\ flow.since \in Nat /\ flow.since <= termClock
         /\ slotEnds[flow.lease] = flow.since + SlotTTL(flow.policy)
    /\ flow.at = "open" =>
         /\ flow.ends \in Nat /\ flow.session.ttl \in Nat
         /\ flow.ends <= termClock + flow.session.ttl
         /\ InTime(flow.waited) => slotEnds[flow.lease] >= flow.ends

\* A slot that lasts as long as the session of its lease.
Covered(l) == InTime(terms[l].waited) => slotEnds[l] >= terms[l].ends

RecordInv(l) ==
  terms[l] # NoTerms =>
    /\ terms[l].ends \in Nat /\ terms[l].session.ttl \in Nat
    /\ terms[l].ends <= termClock + terms[l].session.ttl
    /\ terms[l].made = RouteFrom(terms[l].listener, terms[l].session, terms[l].made.gateway)
    /\ terms[l].plan = terms[l].made.gateway.id
    /\ toRestore[l] \in {NoTerms, terms[l]}
    /\ installed[l] # NoRoute => Covered(l)

RestoreInv(l) ==
  toRestore[l] # NoTerms => installed[l] = NoRoute /\ toRestore[l].session.ttl \in Nat

MendingInv ==
  mending # NoFlow =>
    /\ mending.lease \in TermLease /\ toRestore[mending.lease] # NoTerms
    /\ terms[mending.lease] # NoTerms => Covered(mending.lease)

TermsShape ==
  /\ termClock \in Nat /\ slotEnds \in [TermLease -> Nat]
  /\ DOMAIN terms = TermLease /\ DOMAIN installed = TermLease /\ DOMAIN toRestore = TermLease

TermsInv ==
  /\ TermsShape /\ FlowInv /\ MendingInv
  /\ \A l \in TermLease : RecordInv(l) /\ RestoreInv(l)

LEMMA TermsStart == TermsInit => TermsInv
  BY DEF TermsInit, TermsInv, TermsShape, FlowInv, MendingInv, RecordInv, RestoreInv

LEMMA PolicyTime ==
  ASSUME NEW a \in LeaseAsks, NEW d, NEW account
  PROVE  PolicyFor(d, account, Prepared(a)).ttl \in Nat
<1>1. Prepared(a).ttl \in Int
  BY TermsAssumption DEF Prepared
<1>2. NormalPolicy(Prepared(a)).ttl \in Nat
  BY <1>1, TermsAssumption DEF NormalPolicy
<1>. DEFINE p == CHOOSE p \in ProfileOfId(d, account) : TRUE
<1>3. [NormalPolicy(p) EXCEPT !.ttl = NormalPolicy(Prepared(a)).ttl].ttl = NormalPolicy(Prepared(a)).ttl
  BY DEF NormalPolicy
<1>. QED
  BY <1>2, <1>3 DEF PolicyFor

\* Rounding up to minutes adds less than a minute, and clamping nothing.
LEMMA RoundingBound ==
  ASSUME NEW policy, policy.ttl \in Nat
  PROVE  /\ TimeOf(policy) \in Nat /\ SlotTTL(policy) = TimeOf(policy) + SlotBuffer
         /\ policy.ttl <= TimeOf(policy)
         /\ SessionMinutes(policy) * Minute \in Nat
         /\ SessionMinutes(policy) * Minute <= TimeOf(policy) + Minute - 1
<1>. DEFINE t == TimeOf(policy)
            c == (t + Minute - 1) \div Minute
<1>1. t \in Nat /\ SlotTTL(policy) = t + SlotBuffer /\ policy.ttl <= t /\ Minute \in Nat /\ Minute > 0
  BY TermsAssumption DEF TimeOf, SlotTTL
<1>2. c \in Nat /\ c * Minute <= t + Minute - 1
  BY <1>1
<1>3. SessionMinutes(policy) \in Nat /\ SessionMinutes(policy) <= c
  BY <1>1, <1>2, TermsAssumption DEF SessionMinutes
<1>4. \A m, n, k \in Nat : m <= n => m * k <= n * k /\ m * k \in Nat
  OBVIOUS
<1>. QED
  BY <1>1, <1>2, <1>3, <1>4

\* A step that leaves a lease alone, or forgets it, or does not shorten its slot
\* below its session.
Untouched(l) ==
  /\ installed'[l] = installed[l] /\ toRestore'[l] = toRestore[l]
  /\ terms'[l] = terms[l]
  /\ terms[l] # NoTerms => slotEnds'[l] >= slotEnds[l] \/ slotEnds'[l] >= terms[l].ends
Forgotten(l) == terms'[l] = NoTerms /\ installed'[l] = NoRoute /\ toRestore'[l] = toRestore[l]

LEMMA LeaseStays ==
  ASSUME TermsInv, TermsShape', NEW l \in TermLease, termClock' >= termClock,
         Untouched(l) \/ Forgotten(l)
  PROVE  RecordInv(l)' /\ RestoreInv(l)' /\ (terms'[l] # NoTerms => (Covered(l) => Covered(l)'))
<1>1. RecordInv(l) /\ RestoreInv(l) /\ slotEnds[l] \in Nat /\ slotEnds'[l] \in Nat
      /\ termClock \in Nat /\ termClock' \in Nat
  BY DEF TermsInv, TermsShape
<1>2. CASE Forgotten(l)
  BY <1>1, <1>2 DEF Forgotten, RecordInv, RestoreInv
<1>3. CASE Untouched(l)
  <2>1. RestoreInv(l)'
    BY <1>1, <1>3 DEF Untouched, RestoreInv
  <2>2. CASE terms[l] = NoTerms
    BY <1>3, <2>1, <2>2 DEF Untouched, RecordInv
  <2>3. CASE terms[l] # NoTerms
    <3>1. terms[l].ends \in Nat /\ terms[l].session.ttl \in Nat /\ UNCHANGED terms[l]
      BY <1>1, <1>3, <2>3 DEF RecordInv, Untouched
    <3>2. Covered(l) => Covered(l)'
      BY <1>1, <1>3, <2>3, <3>1 DEF Covered, Untouched
    <3>3. terms'[l].ends <= termClock' + terms'[l].session.ttl
      BY <1>1, <2>3, <3>1 DEF RecordInv
    <3>. QED
      BY <1>1, <1>3, <2>1, <2>3, <3>1, <3>2, <3>3 DEF RecordInv, Untouched
  <2>. QED
    BY <2>2, <2>3
<1>. QED
  BY <1>2, <1>3

LEMMA MendingStays ==
  ASSUME TermsInv, TermsShape', termClock' >= termClock, mending' = mending,
         \A l \in TermLease : Untouched(l) \/ Forgotten(l)
  PROVE  MendingInv' /\ \A l \in TermLease : RecordInv(l)' /\ RestoreInv(l)'
<1>1. \A l \in TermLease : /\ RecordInv(l)' /\ RestoreInv(l)'
                           /\ terms'[l] # NoTerms => (Covered(l) => Covered(l)')
  BY LeaseStays
<1>2. MendingInv'
  <2>. SUFFICES ASSUME mending # NoFlow PROVE MendingInv'
    BY DEF MendingInv
  <2>. DEFINE l == mending.lease
  <2>1. l \in TermLease /\ toRestore[l] # NoTerms /\ (terms[l] # NoTerms => Covered(l))
    BY DEF TermsInv, MendingInv
  <2>2. toRestore'[l] # NoTerms /\ (terms'[l] # NoTerms => terms[l] # NoTerms)
    BY <2>1 DEF Untouched, Forgotten
  <2>. QED
    BY <1>1, <2>1, <2>2 DEF MendingInv
<1>. QED
  BY <1>1, <1>2

LEMMA ForgetForgets ==
  ASSUME TermsInv, NEW l \in TermLease, Forget(l), UNCHANGED <<termClock, toRestore>>
  PROVE  TermsShape' /\ \A k \in TermLease : Untouched(k) \/ Forgotten(k)
<1>1. TermsShape
  BY DEF TermsInv
<1>. QED
  BY <1>1 DEF Forget, TermsShape, Untouched, Forgotten

LEMMA AcquireKeeps ==
  ASSUME TermsInv, NEW asked \in LeaseAsks, StartTerms(asked)
  PROVE  TermsInv'
<1>. DEFINE a == Prepared(asked)
            account == TermAccount(termsDoc, a.account)
            held == Held(account, a)
<1>1. flow = NoFlow /\ UNCHANGED <<termClock, toRestore, mending>> /\ TermsShape
  BY DEF StartTerms, TermsInv
<1>2. CASE flow' = flow /\ \E l \in held :
             /\ \E end \in {slotEnds[l], termClock + SlotTTL(terms[l].session)} :
                  slotEnds' = [slotEnds EXCEPT ![l] = end]
             /\ UNCHANGED <<terms, installed>>
  <2>0. PICK l \in held :
          /\ \E end \in {slotEnds[l], termClock + SlotTTL(terms[l].session)} :
               slotEnds' = [slotEnds EXCEPT ![l] = end]
          /\ UNCHANGED <<terms, installed>>
    BY <1>2
  <2>1. PICK end \in {slotEnds[l], termClock + SlotTTL(terms[l].session)} :
          slotEnds' = [slotEnds EXCEPT ![l] = end]
    BY <2>0
  <2>2. l \in TermLease /\ terms[l] # NoTerms /\ RecordInv(l)
    BY DEF Held, TermsInv
  <2>3. end \in Nat /\ (end = slotEnds[l] \/ end >= terms[l].ends)
    <3>1. CASE end = slotEnds[l]
      BY <1>1, <2>2, <3>1 DEF TermsShape
    <3>2. CASE end = termClock + SlotTTL(terms[l].session)
      <4>1. /\ terms[l].session.ttl \in Nat /\ terms[l].ends \in Nat
            /\ terms[l].ends <= termClock + terms[l].session.ttl
        BY <2>2 DEF RecordInv
      <4>2. /\ TimeOf(terms[l].session) \in Nat /\ SlotTTL(terms[l].session) = TimeOf(terms[l].session) + SlotBuffer
            /\ terms[l].session.ttl <= TimeOf(terms[l].session)
        BY <4>1, RoundingBound
      <4>. QED
        BY <1>1, <3>2, <4>1, <4>2, TermsAssumption DEF TermsShape
    <3>. QED
      BY <3>1, <3>2
  <2>4. TermsShape' /\ \A k \in TermLease : Untouched(k)
    BY <1>1, <2>0, <2>1, <2>2, <2>3 DEF TermsShape, Untouched
  <2>5. FlowInv'
    BY <1>1, <1>2 DEF FlowInv
  <2>. QED
    BY <1>1, <2>4, <2>5, MendingStays DEF TermsInv, TermsShape
<1>3. CASE /\ flow' = [at |-> "select", ask |-> a, account |-> account, doc |-> termsDoc,
                       policy |-> PolicyFor(termsDoc, account, a)]
           /\ (\E l \in held : Forget(l)) \/ UNCHANGED <<terms, slotEnds, installed>>
  <2>1. TermsShape' /\ \A k \in TermLease : Untouched(k) \/ Forgotten(k)
    <3>1. CASE UNCHANGED <<terms, slotEnds, installed>>
      BY <1>1, <3>1 DEF TermsShape, Untouched
    <3>2. ASSUME NEW l \in held, Forget(l) PROVE TermsShape' /\ \A k \in TermLease : Untouched(k) \/ Forgotten(k)
      BY <1>1, <3>2, ForgetForgets DEF Held
    <3>. QED
      BY <1>3, <3>1, <3>2
  <2>2. FlowInv'
    BY <1>3, PolicyTime DEF FlowInv
  <2>. QED
    BY <1>1, <2>1, <2>2, MendingStays DEF TermsInv, TermsShape
<1>. QED
  BY <1>2, <1>3 DEF StartTerms

\* The acquisition under way does not mind what happens to other leases.
LEMMA FlowStays ==
  ASSUME FlowInv, flow' = flow, termClock \in Nat, termClock' \in Nat, termClock' >= termClock,
         \A l \in TermLease : Unused(l) => Unused(l)' /\ slotEnds'[l] = slotEnds[l]
  PROVE  FlowInv'
<1>. SUFFICES ASSUME flow # NoFlow PROVE FlowInv'
  BY DEF FlowInv
<1>1. /\ flow.at \in {"select", "wait", "open"} /\ flow.policy.ttl \in Nat
      /\ flow.at # "select" => /\ flow.lease \in TermLease /\ Unused(flow.lease)
                               /\ Unused(flow.lease)' /\ slotEnds'[flow.lease] = slotEnds[flow.lease]
  BY DEF FlowInv
<1>2. flow.at = "wait" => flow.since \in Nat /\ flow.since <= termClock'
        /\ slotEnds'[flow.lease] = flow.since + SlotTTL(flow.policy)
  BY <1>1 DEF FlowInv
<1>3. flow.at = "open" => /\ flow.ends \in Nat /\ flow.session.ttl \in Nat
                          /\ flow.ends <= termClock' + flow.session.ttl
                          /\ InTime(flow.waited) => slotEnds'[flow.lease] >= flow.ends
  BY <1>1 DEF FlowInv
<1>. QED
  BY <1>1, <1>2, <1>3 DEF FlowInv

LEMMA ChooseKeeps == ASSUME TermsInv, SelectTerms PROVE TermsInv'
<1>1. /\ flow # NoFlow /\ UNCHANGED <<termClock, termsDoc, terms, installed, toRestore, mending>>
      /\ TermsShape /\ flow.policy.ttl \in Nat
  BY DEF SelectTerms, TermsInv, FlowInv
<1>2. PICK l \in TermLease, i \in DOMAIN termsDoc.gateways :
        /\ Unused(l)
        /\ flow' = [at |-> "wait", ask |-> flow.ask, account |-> flow.account, doc |-> flow.doc,
                    policy |-> flow.policy, lease |-> l, gateway |-> termsDoc.gateways[i],
                    since |-> termClock]
        /\ slotEnds' = [slotEnds EXCEPT ![l] = termClock + SlotTTL(flow.policy)]
  BY DEF SelectTerms
<1>3. termClock + SlotTTL(flow.policy) \in Nat
  BY <1>1, RoundingBound, TermsAssumption DEF TermsShape
<1>4. TermsShape' /\ \A k \in TermLease : Untouched(k)
  BY <1>1, <1>2, <1>3 DEF TermsShape, Untouched, Unused
<1>5. FlowInv'
  BY <1>1, <1>2 DEF FlowInv, Unused, TermsShape
<1>. QED
  BY <1>1, <1>4, <1>5, MendingStays DEF TermsInv, TermsShape

LEMMA OpenKeeps == ASSUME TermsInv, OpenSession PROVE TermsInv'
<1>. DEFINE minutes == SessionMinutes(flow.policy)
<1>1. /\ UNCHANGED <<termClock, termsDoc, terms, slotEnds, installed, toRestore, mending>>
      /\ TermsShape /\ flow.policy.ttl \in Nat
      /\ flow.lease \in TermLease /\ Unused(flow.lease)
      /\ flow.since \in Nat /\ flow.since <= termClock
      /\ slotEnds[flow.lease] = flow.since + SlotTTL(flow.policy)
  BY DEF OpenSession, TermsInv, FlowInv
<1>2. /\ flow'.at = "open" /\ flow'.policy = flow.policy /\ flow'.lease = flow.lease
      /\ flow'.waited = termClock - flow.since /\ flow'.ends = termClock + minutes * Minute
      /\ flow'.session.ttl = minutes * Minute
  BY DEF OpenSession
<1>3. /\ minutes * Minute \in Nat /\ minutes * Minute <= TimeOf(flow.policy) + Minute - 1
      /\ TimeOf(flow.policy) \in Nat /\ SlotTTL(flow.policy) = TimeOf(flow.policy) + SlotBuffer
  BY <1>1, RoundingBound
<1>4. /\ flow'.ends \in Nat /\ flow'.session.ttl \in Nat
      /\ flow'.ends <= termClock + flow'.session.ttl
      /\ InTime(flow'.waited) => slotEnds[flow.lease] >= flow'.ends
  BY <1>1, <1>2, <1>3, TermsAssumption DEF InTime, TermsShape
<1>5. FlowInv'
  BY <1>1, <1>2, <1>4 DEF FlowInv, Unused
<1>6. TermsShape' /\ \A k \in TermLease : Untouched(k)
  BY <1>1 DEF TermsShape, Untouched
<1>. QED
  BY <1>1, <1>5, <1>6, MendingStays DEF TermsInv, TermsShape

LEMMA GiveUpKeeps == ASSUME TermsInv, GiveUp PROVE TermsInv'
<1>1. /\ flow # NoFlow /\ UNCHANGED <<termClock, termsDoc, terms, installed, toRestore, mending>>
      /\ TermsShape /\ flow.policy.ttl \in Nat
      /\ flow.at # "select" => flow.lease \in TermLease /\ Unused(flow.lease)
  BY DEF GiveUp, TermsInv, FlowInv
<1>2. TermsShape' /\ \A k \in TermLease : Untouched(k)
  BY <1>1 DEF GiveUp, TermsShape, Untouched, Unused
<1>3. FlowInv'
  BY <1>1 DEF GiveUp, FlowInv
<1>. QED
  BY <1>1, <1>2, <1>3, MendingStays DEF TermsInv, TermsShape

LEMMA ApplyTermsKeeps == ASSUME TermsInv, ApplyTerms PROVE TermsInv'
<1>. PICK l \in TermLease : l = flow.lease
  BY DEF ApplyTerms, TermsInv, FlowInv
<1>. DEFINE listener == ListenerOf(flow.doc, flow.account)
            made == RouteFrom(listener, flow.session, flow.gateway)
<1>1. /\ UNCHANGED <<termClock, termsDoc, slotEnds, toRestore, mending>> /\ TermsShape
      /\ l \in TermLease /\ Unused(l) /\ flow' = NoFlow
      /\ flow.ends \in Nat /\ flow.session.ttl \in Nat
      /\ flow.ends <= termClock + flow.session.ttl
      /\ InTime(flow.waited) => slotEnds[l] >= flow.ends
  BY DEF ApplyTerms, TermsInv, FlowInv
<1>2. /\ installed' = [installed EXCEPT ![l] = made]
      /\ terms' = [terms EXCEPT ![l] =
           [account |-> flow.account, purpose |-> flow.ask.purpose, session |-> flow.session,
            listener |-> listener, plan |-> flow.gateway.id, ends |-> flow.ends,
            made |-> made, waited |-> flow.waited]]
  BY DEF ApplyTerms
<1>3. TermsShape' /\ \A k \in TermLease \ {l} : Untouched(k)
  BY <1>1, <1>2 DEF TermsShape, Untouched
<1>4. toRestore'[l] = NoTerms
  BY <1>1 DEF Unused
<1>5. /\ terms'[l].ends = flow.ends /\ terms'[l].session = flow.session /\ terms'[l].waited = flow.waited
      /\ terms'[l].made = made /\ terms'[l].listener = listener /\ terms'[l].plan = flow.gateway.id
      /\ made.gateway = flow.gateway
  BY <1>1, <1>2 DEF TermsShape, RouteFrom
<1>6. RecordInv(l)' /\ RestoreInv(l)'
  BY <1>1, <1>4, <1>5 DEF RecordInv, RestoreInv, Covered
<1>7. \A k \in TermLease \ {l} : /\ RecordInv(k)' /\ RestoreInv(k)'
                                 /\ terms'[k] # NoTerms => (Covered(k) => Covered(k)')
  BY <1>1, <1>3, LeaseStays DEF TermsShape
<1>8. MendingInv'
  <2>. SUFFICES ASSUME mending # NoFlow PROVE MendingInv'
    BY <1>1 DEF MendingInv
  <2>1. mending.lease \in TermLease \ {l} /\ toRestore[mending.lease] # NoTerms
        /\ (terms[mending.lease] # NoTerms => Covered(mending.lease))
    BY <1>1, <1>4 DEF TermsInv, MendingInv
  <2>. QED
    BY <1>1, <1>3, <1>7, <2>1 DEF MendingInv, Untouched
<1>9. FlowInv'
  BY <1>1 DEF FlowInv
<1>. QED
  BY <1>3, <1>6, <1>7, <1>8, <1>9 DEF TermsInv

LEMMA RetireKeeps ==
  ASSUME TermsInv, (\E r \in ReleaseAsks : ReleaseTerms(r)) \/ \E l \in TermLease : ExpireTerms(l)
  PROVE  TermsInv'
<1>1. UNCHANGED <<termClock, termsDoc, flow, toRestore, mending>> /\ TermsShape
  BY DEF ReleaseTerms, ExpireTerms, TermsInv
<1>2. PICK l \in TermLease : Forget(l) /\ terms[l] # NoTerms
  BY DEF ReleaseTerms, ExpireTerms, LeaseToRelease
<1>3. TermsShape' /\ \A k \in TermLease : Untouched(k) \/ Forgotten(k)
  BY <1>1, <1>2, ForgetForgets
<1>4. \A k \in TermLease : Unused(k) => Unused(k)' /\ slotEnds'[k] = slotEnds[k]
  BY <1>1, <1>2 DEF Forget, Unused, TermsShape
<1>5. FlowInv'
  BY <1>1, <1>4, FlowStays DEF TermsInv, TermsShape
<1>. QED
  BY <1>1, <1>3, <1>5, MendingStays DEF TermsInv, TermsShape

\* After a restart no route is there; what was recorded is to be restored.
LEMMA RestartTermsKeeps == ASSUME TermsInv, RestartTerms PROVE TermsInv'
<1>1. /\ flow' = NoFlow /\ mending' = NoFlow /\ UNCHANGED <<termClock, terms, slotEnds>> /\ TermsShape
      /\ DOMAIN installed' = TermLease /\ DOMAIN toRestore' = TermLease
      /\ \A l \in TermLease : installed'[l] = NoRoute /\ toRestore'[l] \in {NoTerms, terms[l]}
  BY DEF RestartTerms, TermsInv
<1>2. ASSUME NEW l \in TermLease PROVE RecordInv(l)' /\ RestoreInv(l)'
  BY <1>1 DEF TermsInv, RecordInv, RestoreInv
<1>3. TermsShape' /\ FlowInv' /\ MendingInv'
  BY <1>1 DEF TermsShape, FlowInv, MendingInv
<1>. QED
  BY <1>2, <1>3 DEF TermsInv

LEMMA BeginRestoreKeeps ==
  ASSUME TermsInv, NEW l \in TermLease, BeginRestore(l)
  PROVE  TermsInv'
<1>1. /\ UNCHANGED <<termClock, termsDoc, flow, terms, installed>> /\ TermsShape
      /\ mending = NoFlow /\ toRestore[l] # NoTerms /\ RestoreInv(l) /\ RecordInv(l)
  BY DEF BeginRestore, TermsInv
<1>2. \A k \in TermLease : Unused(k) => Unused(k)' /\ slotEnds'[k] = slotEnds[k]
  BY <1>1 DEF BeginRestore, Unused, TermsShape
<1>3. FlowInv'
  BY <1>1, <1>2, FlowStays DEF TermsInv, TermsShape
<1>4. CASE /\ mending' = [lease |-> l, doc |-> termsDoc] /\ UNCHANGED toRestore
           /\ slotEnds' = [slotEnds EXCEPT ![l] = termClock + SlotTTL(toRestore[l].session)]
  <2>1. /\ toRestore[l].session.ttl \in Nat
        /\ TimeOf(toRestore[l].session) \in Nat
        /\ SlotTTL(toRestore[l].session) = TimeOf(toRestore[l].session) + SlotBuffer
        /\ toRestore[l].session.ttl <= TimeOf(toRestore[l].session)
    BY <1>1, RoundingBound DEF RestoreInv
  <2>2. /\ slotEnds' \in [TermLease -> Nat]
        /\ slotEnds'[l] >= termClock + toRestore[l].session.ttl
        /\ \A k \in TermLease \ {l} : slotEnds'[k] = slotEnds[k]
    BY <1>1, <1>4, <2>1, TermsAssumption DEF TermsShape
  <2>3. terms[l] # NoTerms => slotEnds'[l] >= terms[l].ends
    BY <1>1, <2>1, <2>2 DEF RecordInv, TermsShape
  <2>4. TermsShape' /\ \A k \in TermLease : Untouched(k)
    BY <1>1, <1>4, <2>2, <2>3 DEF TermsShape, Untouched
  <2>5. \A k \in TermLease : RecordInv(k)' /\ RestoreInv(k)'
    BY <1>1, <2>4, LeaseStays DEF TermsShape
  <2>6. MendingInv'
    BY <1>1, <1>4, <2>3 DEF MendingInv, Covered
  <2>. QED
    BY <1>3, <2>4, <2>5, <2>6 DEF TermsInv
<1>5. CASE toRestore' = [toRestore EXCEPT ![l] = NoTerms] /\ UNCHANGED <<mending, slotEnds>>
  <2>1. TermsShape' /\ MendingInv'
    BY <1>1, <1>5 DEF TermsShape, MendingInv
  <2>2. ASSUME NEW k \in TermLease PROVE RecordInv(k)' /\ RestoreInv(k)'
    BY <1>1, <1>5 DEF TermsInv, TermsShape, RecordInv, RestoreInv, Covered
  <2>. QED
    BY <1>3, <2>1, <2>2 DEF TermsInv
<1>. QED
  BY <1>4, <1>5 DEF BeginRestore

LEMMA InstallKeeps == ASSUME TermsInv, InstallRestored PROVE TermsInv'
<1>. PICK l \in TermLease : l = mending.lease
  BY DEF InstallRestored, TermsInv, MendingInv
<1>1. /\ UNCHANGED <<termClock, termsDoc, flow, terms>> /\ mending' = NoFlow /\ TermsShape
      /\ toRestore' = [toRestore EXCEPT ![l] = NoTerms] /\ toRestore[l] # NoTerms
      /\ installed[l] = NoRoute /\ (terms[l] # NoTerms => Covered(l)) /\ RecordInv(l)
  BY DEF InstallRestored, TermsInv, MendingInv, RestoreInv
<1>2. /\ slotEnds' \in [TermLease -> Nat] /\ DOMAIN installed' = TermLease
      /\ \A k \in TermLease \ {l} : slotEnds'[k] = slotEnds[k] /\ installed'[k] = installed[k]
      /\ UNCHANGED installed \/ UNCHANGED slotEnds
  <2>1. \/ UNCHANGED slotEnds /\ \E way : installed' = [installed EXCEPT ![l] = way]
        \/ UNCHANGED installed /\ slotEnds' = [slotEnds EXCEPT ![l] = 0]
    BY DEF InstallRestored
  <2>. QED
    BY <1>1, <2>1 DEF TermsShape
<1>3. TermsShape' /\ MendingInv' /\ \A k \in TermLease \ {l} : Untouched(k)
  <2>1. DOMAIN toRestore' = TermLease /\ \A k \in TermLease \ {l} : toRestore'[k] = toRestore[k]
    BY <1>1 DEF TermsShape
  <2>2. TermsShape' /\ MendingInv'
    BY <1>1, <1>2, <2>1 DEF TermsShape, MendingInv
  <2>3. \A k \in TermLease : slotEnds[k] \in Nat
    BY <1>1 DEF TermsShape
  <2>. QED
    BY <1>1, <1>2, <2>1, <2>2, <2>3 DEF Untouched
<1>4. \A k \in TermLease \ {l} : RecordInv(k)' /\ RestoreInv(k)'
  BY <1>1, <1>3, LeaseStays DEF TermsShape
<1>5. toRestore'[l] = NoTerms
  BY <1>1 DEF TermsShape
<1>6. RecordInv(l)' /\ RestoreInv(l)'
  BY <1>1, <1>2, <1>5 DEF RecordInv, RestoreInv, Covered
<1>7. \A k \in TermLease : Unused(k) => Unused(k)' /\ slotEnds'[k] = slotEnds[k]
  BY <1>1, <1>2 DEF Unused, TermsShape
<1>8. FlowInv'
  BY <1>1, <1>7, FlowStays DEF TermsInv, TermsShape
<1>. QED
  BY <1>3, <1>4, <1>6, <1>8 DEF TermsInv

LEMMA TimeKeeps ==
  ASSUME TermsInv, PassTerms \/ \E d \in TermSettings : SaveTerms(d)
  PROVE  TermsInv'
<1>1. /\ UNCHANGED <<flow, terms, slotEnds, installed, toRestore, mending>> /\ TermsShape
      /\ termClock' \in {termClock, termClock + 1}
  BY DEF PassTerms, SaveTerms, TermsInv
<1>2. termClock' \in Nat /\ termClock \in Nat /\ termClock' >= termClock
  BY <1>1 DEF TermsShape
<1>3. TermsShape' /\ \A k \in TermLease : Untouched(k) /\ (Unused(k) => Unused(k)')
  BY <1>1, <1>2 DEF TermsShape, Untouched, Unused
<1>4. FlowInv'
  BY <1>1, <1>2, <1>3, FlowStays DEF TermsInv
<1>. QED
  BY <1>1, <1>2, <1>3, <1>4, MendingStays DEF TermsInv

LEMMA TermsInvHolds == TermsSpec => []TermsInv
<1>1. TermsInv /\ [TermsNext]_termVars => TermsInv'
  <2>. SUFFICES ASSUME TermsInv, [TermsNext]_termVars PROVE TermsInv'
    OBVIOUS
  <2>1. CASE UNCHANGED termVars
    BY <2>1 DEF termVars, TermsInv, TermsShape, FlowInv, MendingInv, RecordInv, RestoreInv, Covered, Unused
  <2>2. CASE TermsNext
    BY <2>2, AcquireKeeps, ChooseKeeps, OpenKeeps, GiveUpKeeps, ApplyTermsKeeps, RetireKeeps,
       RestartTermsKeeps, BeginRestoreKeeps, InstallKeeps, TimeKeeps DEF TermsNext
  <2>. QED
    BY <2>1, <2>2
<1>. QED
  BY <1>1, TermsStart, PTL DEF TermsSpec

\* A lease that is served keeps its slot until its session ends, when the wait
\* for the provider's lock leaves the rounding its part of the buffer
\* (acquire_attempt.go:197-229, concurrency.go:43).
THEOREM SlotsCoverLeases == TermsSpec => []SlotCoversLease
<1>1. TermsInv => SlotCoversLease
  BY DEF TermsInv, RecordInv, Covered, InTime, SlotCoversLease
<1>. QED
  BY <1>1, TermsInvHolds, PTL

\* way is made, but for its gateway.
SaveForGateway(way, made) == [way EXCEPT !.gateway = made.gateway] = made

ComesBack(l) ==
  terms[l] # NoTerms /\ installed[l] = NoRoute /\ installed'[l] # NoRoute =>
    LET made == terms[l].made
        gateways == mending.doc.gateways
    IN /\ SaveForGateway(installed'[l], made)
       /\ (\E i \in DOMAIN gateways : gateways[i].id = made.gateway.id)
            => installed'[l].gateway.id = made.gateway.id

LEMMA RestoredStep ==
  ASSUME TermsInv, [TermsNext]_termVars, NEW l \in TermLease,
         terms[l] # NoTerms, installed[l] = NoRoute, installed'[l] # NoRoute
  PROVE  ComesBack(l)
<1>1. InstallRestored
  <2>1. TermsShape
    BY DEF TermsInv
  <2>2. \A k \in TermLease : ~Forget(k)
    BY <2>1 DEF Forget, TermsShape
  <2>3. ~ApplyTerms
    BY <2>1 DEF ApplyTerms, TermsInv, FlowInv, Unused, TermsShape
  <2>4. ~RestartTerms
    BY DEF RestartTerms
  <2>. QED
    BY <2>2, <2>3, <2>4 DEF TermsNext, termVars, StartTerms, SelectTerms, OpenSession, GiveUp, ReleaseTerms,
       ExpireTerms, BeginRestore, SaveTerms, PassTerms, Held, LeaseToRelease
<1>2. /\ mending # NoFlow /\ mending.lease \in TermLease /\ toRestore[mending.lease] # NoTerms
      /\ TermsShape /\ RecordInv(l)
  BY <1>1 DEF InstallRestored, TermsInv, MendingInv
<1>. DEFINE from == toRestore[mending.lease]
            gateways == mending.doc.gateways
            usable == {i \in PlanGateways(mending.doc, from.plan) : gateways[i].url # ""}
<1>3. PICK i \in Foremost(usable) :
        installed' = [installed EXCEPT ![mending.lease] =
                        RouteFrom(from.listener, from.session, gateways[i])]
  BY <1>1 DEF InstallRestored
<1>4. l = mending.lease /\ installed'[l] = RouteFrom(from.listener, from.session, gateways[i])
  BY <1>2, <1>3 DEF TermsShape
<1>5. /\ from = terms[l] /\ terms[l].plan = terms[l].made.gateway.id
      /\ terms[l].made = RouteFrom(terms[l].listener, terms[l].session, terms[l].made.gateway)
  BY <1>2, <1>4 DEF RecordInv
<1>6. SaveForGateway(installed'[l], terms[l].made) /\ installed'[l].gateway = gateways[i]
  <2>. DEFINE who == terms[l].listener
              id == terms[l].session.id
              user == UpstreamUser(terms[l].session)
              far == terms[l].made.gateway
  <2>1. /\ installed'[l] = [listener |-> who, id |-> id, upstream |-> user, gateway |-> gateways[i]]
        /\ terms[l].made = [listener |-> who, id |-> id, upstream |-> user, gateway |-> far]
    BY <1>4, <1>5 DEF RouteFrom
  <2>. HIDE DEF who, id, user, far, gateways
  <2>2. PICK who0, id0, user0, near, far0, way, made :
           /\ who0 = who /\ id0 = id /\ user0 = user /\ near = gateways[i] /\ far0 = far
           /\ way = installed'[l] /\ made = terms[l].made
    OBVIOUS
  <2>3. /\ way = [listener |-> who0, id |-> id0, upstream |-> user0, gateway |-> near]
        /\ made = [listener |-> who0, id |-> id0, upstream |-> user0, gateway |-> far0]
    BY <2>1, <2>2
  <2>4. /\ way \in [listener : {who0}, id : {id0}, upstream : {user0}, gateway : {near}]
        /\ made \in [listener : {who0}, id : {id0}, upstream : {user0}, gateway : {far0}]
    BY <2>3
  <2>5. SaveForGateway(way, made) /\ way.gateway = near
    BY <2>4 DEF SaveForGateway
  <2>. QED
    BY <2>2, <2>5
<1>7. ASSUME NEW j \in DOMAIN gateways, gateways[j].id = terms[l].plan
      PROVE  gateways[i].id = terms[l].plan
  BY <1>5, <1>7 DEF Foremost, PlanGateways
<1>. QED
  BY <1>5, <1>6, <1>7 DEF ComesBack

\* A lease comes back after a restart as it was made, whatever was saved
\* meanwhile: the same user, password and session, and the same gateway unless
\* the settings have lost it (restore.go, session_route_proto.go,
\* dynamic/helpers.go).
THEOREM LeasesComeBack == TermsSpec => RestoredAsAcquired
<1>1. TermsInv /\ [TermsNext]_termVars => [\A l \in TermLease : ComesBack(l)]_termVars
  BY RestoredStep DEF ComesBack
<1>. QED
  BY <1>1, TermsInvHolds, PTL DEF TermsSpec, RestoredAsAcquired, ComesBack, SaveForGateway

\* A session of at least a minute and of no more than the provider gives.
LEMMA MinutesBound == ASSUME NEW policy, policy.ttl \in Nat PROVE SessionMinutes(policy) \in 1..MaxMinutes
<1> DEFINE t == TimeOf(policy)
           c == (t + Minute - 1) \div Minute
<1>1. t \in Nat \ {0} /\ Minute \in Nat \ {0}
  BY TermsAssumption DEF TimeOf
<1>2. c \in Nat \ {0}
  BY <1>1
<1>3. SessionMinutes(policy) = IF c > MaxMinutes THEN MaxMinutes ELSE c
  BY DEF SessionMinutes
<1> HIDE DEF c
<1>. QED
  BY <1>2, <1>3, TermsAssumption

GoodTerms(r) == r.session.minutes \in 1..MaxMinutes /\ r.listener.pass # ""
FlowTypes ==
  flow # NoFlow => /\ flow.ask \in {Prepared(a) : a \in LeaseAsks}
                   /\ flow.at = "open" => flow.session.minutes \in 1..MaxMinutes
RecordTypes == \A l \in TermLease : terms[l] # NoTerms => GoodTerms(terms[l])
TermsTypes == termClock \in 1..MaxTermClock /\ termsDoc \in TermSettings /\ FlowTypes /\ RecordTypes

LEMMA TermsTypesStep == ASSUME TermsInv, TermsTypes, [TermsNext]_termVars PROVE TermsTypes'
<1>. USE DEF TermsTypes, FlowTypes
<1>1. ASSUME terms' = terms \/ \E l \in TermLease : terms' = [terms EXCEPT ![l] = NoTerms]
      PROVE  RecordTypes'
  BY <1>1 DEF RecordTypes, TermsInv, TermsShape
<1>2. ASSUME NEW a \in LeaseAsks, StartTerms(a) PROVE TermsTypes'
  <2>1. terms' = terms \/ \E l \in TermLease : terms' = [terms EXCEPT ![l] = NoTerms]
    BY <1>2 DEF StartTerms, Forget, Held
  <2>2. flow' = flow \/ (flow'.at = "select" /\ flow'.ask = Prepared(a))
    BY <1>2 DEF StartTerms
  <2>3. UNCHANGED <<termClock, termsDoc>>
    BY <1>2 DEF StartTerms
  <2>. QED
    BY <1>1, <2>1, <2>2, <2>3
<1>3. CASE SelectTerms
  <2>0. PICK l, g, t : flow' = [at |-> "wait", ask |-> flow.ask, account |-> flow.account,
                                doc |-> flow.doc, policy |-> flow.policy, lease |-> l,
                                gateway |-> g, since |-> t]
    <3>1. PICK l \in TermLease : \E i \in DOMAIN termsDoc.gateways :
            flow' = [at |-> "wait", ask |-> flow.ask, account |-> flow.account,
                     doc |-> flow.doc, policy |-> flow.policy, lease |-> l,
                     gateway |-> termsDoc.gateways[i], since |-> termClock]
      BY <1>3 DEF SelectTerms
    <3>. QED
      BY <3>1
  <2>1. flow'.at = "wait" /\ flow'.ask = flow.ask /\ flow # NoFlow
    BY <1>3, <2>0 DEF SelectTerms
  <2>2. UNCHANGED <<termClock, termsDoc, terms>>
    BY <1>3 DEF SelectTerms
  <2>3. FlowTypes'
    BY <2>1
  <2>4. RecordTypes'
    BY <1>1, <2>2
  <2>. QED
    BY <2>2, <2>3, <2>4
<1>4. CASE OpenSession
  <2>1. /\ flow # NoFlow /\ flow'.ask = flow.ask
        /\ flow'.session.minutes = SessionMinutes(flow.policy)
    BY <1>4 DEF OpenSession
  <2>2. SessionMinutes(flow.policy) \in 1..MaxMinutes
    BY <2>1, MinutesBound DEF TermsInv, FlowInv
  <2>. QED
    BY <1>1, <1>4, <2>1, <2>2 DEF OpenSession
<1>5. CASE GiveUp
  <2>1. flow # NoFlow /\ (flow' = NoFlow \/ (flow'.at = "select" /\ flow'.ask = flow.ask))
    BY <1>5 DEF GiveUp
  <2>. QED
    BY <1>1, <1>5, <2>1 DEF GiveUp
<1>6. CASE ApplyTerms
  <2>1. /\ flow # NoFlow /\ flow.at = "open" /\ flow' = NoFlow
        /\ UNCHANGED <<termClock, termsDoc>>
    BY <1>6 DEF ApplyTerms
  <2>2. PICK r : terms' = [terms EXCEPT ![flow.lease] = r] /\ r.session = flow.session /\ r.listener.pass # ""
    <3> DEFINE listener == ListenerOf(flow.doc, flow.account)
               r == [account |-> flow.account, purpose |-> flow.ask.purpose, session |-> flow.session,
                     listener |-> listener, plan |-> flow.gateway.id, ends |-> flow.ends,
                     made |-> RouteFrom(listener, flow.session, flow.gateway), waited |-> flow.waited]
    <3>1. terms' = [terms EXCEPT ![flow.lease] = r] /\ listener.pass # ""
      BY <1>6 DEF ApplyTerms
    <3> HIDE DEF listener
    <3>2. r.session = flow.session /\ r.listener = listener
      OBVIOUS
    <3>. QED
      BY <3>1, <3>2
  <2>3. GoodTerms(r)
    BY <2>1, <2>2 DEF GoodTerms
  <2>4. RecordTypes'
    BY <2>2, <2>3 DEF RecordTypes, TermsInv, TermsShape
  <2>. QED
    BY <2>1, <2>4
<1>7. ASSUME NEW r \in ReleaseAsks, ReleaseTerms(r) PROVE TermsTypes'
  <2>1. \E l \in TermLease : terms' = [terms EXCEPT ![l] = NoTerms]
    BY <1>7 DEF ReleaseTerms, LeaseToRelease, Forget
  <2>. QED
    BY <1>1, <1>7, <2>1 DEF ReleaseTerms
<1>8. ASSUME NEW l \in TermLease, ExpireTerms(l) \/ BeginRestore(l) PROVE TermsTypes'
  <2>1. terms' = terms \/ terms' = [terms EXCEPT ![l] = NoTerms]
    BY <1>8 DEF ExpireTerms, BeginRestore, Forget
  <2>. QED
    BY <1>1, <1>8, <2>1 DEF ExpireTerms, BeginRestore
<1>9. CASE RestartTerms \/ InstallRestored
  BY <1>1, <1>9 DEF RestartTerms, InstallRestored
<1>10. ASSUME NEW d \in TermSettings, SaveTerms(d) PROVE TermsTypes'
  BY <1>1, <1>10 DEF SaveTerms
<1>11. CASE PassTerms
  BY <1>1, <1>11, TermsAssumption DEF PassTerms
<1>12. CASE UNCHANGED termVars
  BY <1>1, <1>12 DEF termVars
<1>. QED
  BY <1>2, <1>3, <1>4, <1>5, <1>6, <1>7, <1>8, <1>9, <1>10, <1>11, <1>12 DEF TermsNext

\* A lease that is served has a session of some minutes and a listener with a
\* password, and the restore works on a record it read.
THEOREM TermsTypeCorrect == TermsSpec => []TermsTypeOK
<1>1. TermsInit => TermsTypes
  BY TermsAssumption DEF TermsInit, TermsTypes, FlowTypes, RecordTypes
<1>2. TermsInv /\ TermsTypes /\ [TermsNext]_termVars => TermsTypes'
  BY TermsTypesStep
<1>3. TermsInv /\ TermsTypes => TermsTypeOK
  BY DEF TermsInv, TermsShape, FlowInv, MendingInv, TermsTypes, FlowTypes, RecordTypes,
     GoodTerms, TermsTypeOK
<1>. QED
  BY <1>1, <1>2, <1>3, TermsInvHolds, PTL DEF TermsSpec

-----------------------------------------------------------------------------
(* Exit checks. Lookups are calm when what is stored is what they may have  *)
(* used: no update is under way, and none left keys behind.                 *)

RequestPlace == {"idle", "waiting", "canary", "loaded", "resolved", "put"}

RequestRecord ==
  [at : RequestPlace, key : ViewKey \cup {<<>>}, sig : Nat, keys : Nat, val : Seq(Nat)]

ChecksShape ==
  /\ route \in [Listener -> Nat] /\ sig \in Nat /\ keys \in Nat
  /\ view \in [ViewKey -> Seq(Nat)] /\ geoCache \in [Address -> Seq(Nat)]
  /\ checker \in [sig : Nat, val : Seq(Nat)]
  /\ flight \in [FlightKey -> [members : SUBSET Check, at : {"open", "loaded", "answered"},
                               val : Seq(Nat)]]
  /\ check \in [Check -> RequestRecord]

\* The views that are waited for at a merged call.
ViewsOf(k) == IF k[1] = "exit" THEN {<<"exit", k[2]>>, <<"edge", k[2]>>} ELSE {<<"geo", k[2]>>}

\* A call that is not answered has nothing to say, and those who wait for it
\* wait for nothing else.
FlightInv ==
  \A k \in FlightKey :
    /\ flight[k].at = "open" => flight[k].val = Absent
    /\ flight[k].at = "loaded" => k[1] = "geo"
    /\ \A c \in flight[k].members : check[c].at = "waiting" /\ check[c].key \in ViewsOf(k)

RequestInv ==
  \A c \in Check :
    /\ check[c].at = "idle" <=> check[c].key = <<>>
    /\ check[c].at \in {"idle", "waiting", "canary"} => check[c].val = Absent
    /\ check[c].at = "canary" => check[c].key[1] = "edge"
    /\ check[c].at \in {"loaded", "resolved"} => check[c].key[1] = "fraud"

\* Nothing that is known of an exit was found by another route than the
\* present one, and nothing but what a clear found on its way while the saved
\* settings are still to be applied.
OfRoute(l, val) ==
  \/ val \in {Absent, Unsure}
  \/ val = <<route[l]>> /\ ~pending
  \/ l \in clearing
  \/ saving \in {"saved", "native"}

ExitValues ==
  \A l \in Listener :
    /\ OfRoute(l, flight[<<"exit", l>>].val)
    /\ \A kind \in {"exit", "edge"} :
         /\ OfRoute(l, view[<<kind, l>>])
         /\ \A c \in Check : check[c].key = <<kind, l>> => OfRoute(l, check[c].val)

Calm == saving \in {"none", "native"} /\ ~strayKeys
Stored(val) == val \in {Absent, Unsure, <<sig, keys>>}
FraudStored(val) == Stored(val) \/ val = Unsupported(sig)

KeptValues ==
  /\ \A a \in Address :
       Stored(view[<<"geo", a>>]) /\ FraudStored(view[<<"fraud", a>>]) /\ Stored(geoCache[a])
  /\ Stored(checker.val)

ComingValues ==
  /\ \A a \in Address :
       LET f == flight[<<"geo", a>>] IN
       /\ f.at = "loaded" => f.val \in {Unsure, <<sig>>}
       /\ f.at = "answered" => Stored(f.val)
  /\ \A c \in Check :
       LET q == check[c] IN
       /\ q.at = "loaded" => q.val = Unsure \/ q.sig = sig
       /\ q.at = "resolved" => q.val = Unsure \/ (q.sig = sig /\ q.keys = keys)
       /\ q.at = "put" /\ q.key[1] = "geo" => Stored(q.val)
       /\ q.at = "put" /\ q.key[1] = "fraud" => FraudStored(q.val)

LookupValues == Calm => KeptValues /\ ComingValues

CheckInv == ChecksShape /\ FlightInv /\ RequestInv /\ ExitValues /\ LookupValues

LEMMA CheckKeys ==
  /\ \A l \in Listener : /\ <<"exit", l>> \in FlightKey
                         /\ <<"exit", l>> \in ViewKey /\ <<"edge", l>> \in ViewKey
  /\ \A a \in Address : /\ <<"geo", a>> \in FlightKey
                        /\ <<"geo", a>> \in ViewKey /\ <<"fraud", a>> \in ViewKey
  /\ \A k \in FlightKey : \/ \E l \in Listener : k = <<"exit", l>>
                          \/ \E a \in Address : k = <<"geo", a>>
  /\ \A k \in ViewKey : \/ \E l \in Listener : k \in {<<"exit", l>>, <<"edge", l>>}
                        \/ \E a \in Address : k \in {<<"geo", a>>, <<"fraud", a>>}
  /\ <<>> \notin ViewKey
BY DEF FlightKey, ViewKey

LEMMA ChecksStart == ChecksInit => CheckInv
<1>. SUFFICES ASSUME ChecksInit PROVE CheckInv
  OBVIOUS
<1>1. ChecksShape
  BY DEF ChecksInit, ChecksShape, RequestRecord, NoChecker, NoFlight, IdleCheck, Absent, RequestPlace
<1>2. FlightInv /\ RequestInv
  BY CheckKeys DEF ChecksInit, FlightInv, RequestInv, NoFlight, IdleCheck, Absent
<1>3. ExitValues
  BY CheckKeys DEF ChecksInit, ExitValues, OfRoute, NoFlight, IdleCheck, Absent
<1>4. LookupValues
  BY CheckKeys DEF ChecksInit, LookupValues, KeptValues, ComingValues, Stored, FraudStored, NoFlight,
     IdleCheck, NoChecker, Absent
<1>. QED
  BY <1>1, <1>2, <1>3, <1>4 DEF CheckInv

\* Steps of the world alone.
LEMMA WorldOfChecks ==
  ASSUME CheckInv, UNCHANGED <<caches, flight, check>>,
         route' \in [Listener -> Nat], sig' \in Nat, keys' \in Nat,
         \A l \in Listener : \A val : OfRoute(l, val) => OfRoute(l, val)',
         Calm' => Calm /\ sig' = sig /\ keys' = keys
  PROVE  CheckInv'
<1>1. ChecksShape' /\ FlightInv' /\ RequestInv'
  BY DEF CheckInv, ChecksShape, FlightInv, RequestInv, caches
<1>2. ExitValues'
  <2>1. ASSUME NEW l \in Listener, NEW kind \in {"exit", "edge"}
        PROVE  /\ OfRoute(l, flight[<<"exit", l>>].val)' /\ OfRoute(l, view[<<kind, l>>])'
               /\ \A c \in Check : check[c].key' = <<kind, l>> => OfRoute(l, check[c].val)'
    BY DEF CheckInv, ExitValues, caches, OfRoute
  <2>. QED
    BY <2>1 DEF ExitValues
<1>3. LookupValues'
  <2>1. CASE ~Calm'
    BY <2>1 DEF LookupValues
  <2>2. CASE Calm'
    BY <2>2 DEF CheckInv, LookupValues, KeptValues, ComingValues, Stored, FraudStored, Unsupported,
       caches
  <2>. QED
    BY <2>1, <2>2
<1>. QED
  BY <1>1, <1>2, <1>3 DEF CheckInv

LEMMA WorldSteps ==
  ASSUME CheckInv,
         \/ \E l \in Listener : LeaseRoute(l)
         \/ SaveKeys \/ UpdateRefused \/ SaveDocument \/ NativeSaved \/ Reconciled
  PROVE  CheckInv'
<1>1. ChecksShape
  BY DEF CheckInv
<1>2. ASSUME NEW l \in Listener, LeaseRoute(l) PROVE CheckInv'
  <2>1. \A m \in Listener : \A val : OfRoute(m, val) => OfRoute(m, val)'
    BY <1>1, <1>2 DEF LeaseRoute, OfRoute, ChecksShape
  <2>. QED
    BY <1>1, <1>2, <2>1, WorldOfChecks DEF LeaseRoute, ChecksShape, Calm
<1>3. CASE SaveKeys \/ UpdateRefused \/ SaveDocument \/ NativeSaved
  <2>1. \A m \in Listener : \A val : OfRoute(m, val) => OfRoute(m, val)'
    BY <1>3 DEF SaveKeys, UpdateRefused, SaveDocument, NativeSaved, OfRoute
  <2>2. route' \in [Listener -> Nat] /\ sig' \in Nat /\ keys' \in Nat
    BY <1>1, <1>3 DEF SaveKeys, UpdateRefused, SaveDocument, NativeSaved, ChecksShape
  <2>3. UNCHANGED <<caches, flight, check>> /\ (Calm' => Calm /\ sig' = sig /\ keys' = keys)
    BY <1>3 DEF SaveKeys, UpdateRefused, SaveDocument, NativeSaved, Calm
  <2>. QED
    BY <2>1, <2>2, <2>3, WorldOfChecks
<1>4. CASE Reconciled
  <2>1. PICK changed : route' = [l \in Listener |-> IF l \in changed THEN route[l] + 1 ELSE route[l]]
    BY <1>4 DEF Reconciled
  <2>2. \A m \in Listener : \A val : OfRoute(m, val) => OfRoute(m, val)'
    BY <1>4 DEF Reconciled, OfRoute
  <2>. QED
    BY <1>1, <1>4, <2>1, <2>2, WorldOfChecks DEF Reconciled, ChecksShape, Calm
<1>. QED
  BY <1>2, <1>3, <1>4

\* What a clear finds on its way.
LEMMA OvertakenShape ==
  ASSUME CheckInv, NEW kinds, Overtaken(kinds)
  PROVE  /\ flight' \in [FlightKey -> [members : SUBSET Check, at : {"open", "loaded", "answered"},
                                       val : Seq(Nat)]]
         /\ check' \in [Check -> RequestRecord]
<1>1. ChecksShape /\ Unsure \in Seq(Nat)
  BY DEF CheckInv, Unsure
<1>2. \A k \in FlightKey :
        flight'[k] \in [members : SUBSET Check, at : {"open", "loaded", "answered"}, val : Seq(Nat)]
  BY <1>1 DEF Overtaken, ChecksShape, RequestRecord
<1>3. ASSUME NEW c \in Check
      PROVE  check'[c] \in RequestRecord
  BY <1>1 DEF Overtaken, ChecksShape, RequestRecord
<1>. QED
  BY <1>2, <1>3 DEF Overtaken

LEMMA OvertakenValues ==
  ASSUME CheckInv, NEW kinds, Overtaken(kinds)
  PROVE  /\ \A k \in FlightKey :
              /\ flight'[k].at = flight[k].at /\ flight'[k].members = flight[k].members
              /\ k[1] \in kinds => flight'[k].val \in {Absent, Unsure}
              /\ k[1] \notin kinds => flight'[k].val = flight[k].val
         /\ \A c \in Check :
              /\ check'[c].at = check[c].at /\ check'[c].key = check[c].key
              /\ check'[c].sig = check[c].sig /\ check'[c].keys = check[c].keys
              /\ check[c].at # "idle" /\ check[c].key[1] \in kinds
                   => /\ check'[c].val \in {Absent, Unsure}
                      /\ check[c].at \notin {"waiting", "canary"} => check'[c].val = Unsure
              /\ ~(check[c].at # "idle" /\ check[c].key[1] \in kinds) => check'[c].val = check[c].val
<1>1. ChecksShape /\ FlightInv /\ RequestInv
  BY DEF CheckInv
<1>2. ASSUME NEW k \in FlightKey
      PROVE  /\ flight'[k].at = flight[k].at /\ flight'[k].members = flight[k].members
             /\ k[1] \in kinds => flight'[k].val \in {Absent, Unsure}
             /\ k[1] \notin kinds => flight'[k].val = flight[k].val
  BY <1>1 DEF Overtaken, ChecksShape, RequestRecord, FlightInv
<1>3. ASSUME NEW c \in Check
      PROVE  /\ check'[c].at = check[c].at /\ check'[c].key = check[c].key
             /\ check'[c].sig = check[c].sig /\ check'[c].keys = check[c].keys
             /\ check[c].at # "idle" /\ check[c].key[1] \in kinds
                  => /\ check'[c].val \in {Absent, Unsure}
                     /\ check[c].at \notin {"waiting", "canary"} => check'[c].val = Unsure
             /\ ~(check[c].at # "idle" /\ check[c].key[1] \in kinds) => check'[c].val = check[c].val
  <2>1. check[c].at \in {"waiting", "canary"} => check[c].val = Absent
    BY <1>1 DEF RequestInv
  <2>2. CASE check[c].at # "idle" /\ check[c].key[1] \in kinds
    <3>1. check'[c] = [check[c] EXCEPT !.val = IF check[c].at \in {"waiting", "canary"}
                                              THEN @ ELSE Unsure]
      BY <2>2 DEF Overtaken
    <3>. QED
      BY <1>1, <2>1, <2>2, <3>1 DEF ChecksShape, RequestRecord
  <2>3. CASE ~(check[c].at # "idle" /\ check[c].key[1] \in kinds)
    BY <2>3 DEF Overtaken
  <2>. QED
    BY <2>2, <2>3
<1>. QED
  BY <1>2, <1>3

LEMMA OvertakenOrder ==
  ASSUME CheckInv, NEW kinds, Overtaken(kinds)
  PROVE  FlightInv' /\ RequestInv'
<1>1. FlightInv /\ RequestInv
  BY DEF CheckInv
<1>2. ASSUME NEW k \in FlightKey, flight[k].at = "open"
      PROVE  flight'[k].val = Absent
  BY <1>1, <1>2 DEF Overtaken, FlightInv
<1>3. ASSUME NEW c \in Check, check[c].at \in {"idle", "waiting", "canary"}
      PROVE  check'[c].val = Absent
  <2>1. check[c].val = Absent
    BY <1>1, <1>3 DEF RequestInv
  <2>2. check[c].at # "idle" /\ check[c].key[1] \in kinds
          => check'[c] = [check[c] EXCEPT !.val = check[c].val]
    BY <1>3 DEF Overtaken
  <2>. QED
    BY <2>1, <2>2, OvertakenValues DEF CheckInv, ChecksShape, RequestRecord
<1>4. FlightInv'
  BY <1>1, <1>2, OvertakenValues DEF FlightInv, CheckInv, ChecksShape, RequestRecord
<1>5. RequestInv'
  BY <1>1, <1>3, OvertakenValues DEF RequestInv
<1>. QED
  BY <1>4, <1>5

LEMMA ClearKeeps ==
  ASSUME CheckInv, ClearDerived \/ \E l \in Listener : AfterRouteChange(l)
  PROVE  CheckInv'
<1>1. ChecksShape
  BY DEF CheckInv
<1>2. PICK kinds :
        /\ Overtaken(kinds) /\ "exit" \in kinds /\ "edge" \in kinds
        /\ \/ kinds = {"exit", "edge", "geo", "fraud"} /\ geoCache' = NoGeo /\ checker' = NoChecker
           \/ /\ kinds = {"exit", "edge"} /\ UNCHANGED <<geoCache, checker, strayKeys>>
              /\ saving' = saving \/ (saving = "native" /\ saving' = "none")
  <2>1. CASE ClearDerived /\ saving = "saved"
    <3>. WITNESS {"exit", "edge", "geo", "fraud"}
    <3>. QED BY <2>1 DEF ClearDerived
  <2>2. CASE ~(ClearDerived /\ saving = "saved")
    <3>. WITNESS {"exit", "edge"}
    <3>. QED BY <2>2 DEF ClearDerived, AfterRouteChange
  <2>. QED
    BY <2>1, <2>2
<1>3. \A k \in ViewKey : view'[k] = Absent
  BY DEF ClearDerived, AfterRouteChange, NoView
<1>4. ChecksShape' /\ FlightInv' /\ RequestInv'
  <2>. Absent \in Seq(Nat)
    BY DEF Absent
  <2>1. /\ view' \in [ViewKey -> Seq(Nat)] /\ NoGeo \in [Address -> Seq(Nat)]
        /\ NoChecker \in [sig : Nat, val : Seq(Nat)]
    BY DEF ClearDerived, AfterRouteChange, NoView, NoGeo, NoChecker
  <2>. QED
    BY <1>1, <1>2, <2>1, OvertakenShape, OvertakenOrder DEF ClearDerived, AfterRouteChange, ChecksShape
<1>5. ExitValues'
  <2>1. ASSUME NEW l \in Listener, NEW kind \in {"exit", "edge"}
        PROVE  /\ OfRoute(l, flight[<<"exit", l>>].val)' /\ OfRoute(l, view[<<kind, l>>])'
               /\ \A c \in Check : check[c].key' = <<kind, l>> => OfRoute(l, check[c].val)'
    <3>1. flight'[<<"exit", l>>].val \in {Absent, Unsure}
      BY <1>2, CheckKeys, OvertakenValues
    <3>2. view'[<<kind, l>>] = Absent
      BY <1>3, CheckKeys
    <3>3. ASSUME NEW c \in Check, check'[c].key = <<kind, l>>
          PROVE  check'[c].val \in {Absent, Unsure}
      <4>1. check[c].key = <<kind, l>> /\ check[c].at # "idle"
        BY <1>2, <3>3, OvertakenValues, CheckKeys DEF CheckInv, RequestInv
      <4>. QED
        BY <1>2, <4>1, OvertakenValues
    <3>. QED
      BY <3>1, <3>2, <3>3 DEF OfRoute
  <2>. QED
    BY <2>1 DEF ExitValues
<1>6. LookupValues'
  <2>1. CASE kinds = {"exit", "edge", "geo", "fraud"} /\ geoCache' = NoGeo /\ checker' = NoChecker
    <3>1. /\ Stored(Absent)' /\ Stored(Unsure)'
          /\ FraudStored(Absent)' /\ FraudStored(Unsure)'
      BY DEF Stored, FraudStored
    <3>2. KeptValues'
      <4>1. \A a \in Address : view'[<<"geo", a>>] = Absent /\ view'[<<"fraud", a>>] = Absent
                               /\ geoCache'[a] = Absent
        BY <1>3, <2>1, CheckKeys DEF NoGeo
      <4>2. checker'.val = Absent
        BY <2>1 DEF NoChecker
      <4>. QED
        BY <3>1, <4>1, <4>2 DEF KeptValues
    <3>3. ASSUME NEW a \in Address 
          PROVE  LET f == flight'[<<"geo", a>>] IN f.at # "open" => f.val = Unsure
      <4>1. PICK k \in FlightKey : k = <<"geo", a>> /\ k[1] \in kinds
        BY <2>1, CheckKeys
      <4>2. flight'[k] = IF flight[k].at # "open" THEN [flight[k] EXCEPT !.val = Unsure] ELSE flight[k]
        BY <1>2, <4>1 DEF Overtaken
      <4>. QED
        BY <1>1, <4>1, <4>2 DEF ChecksShape
    <3>4. ASSUME NEW c \in Check,
                 \/ check'[c].at \in {"loaded", "resolved"}
                 \/ check'[c].at = "put" /\ check'[c].key[1] \in {"geo", "fraud"}
          PROVE  check'[c].val = Unsure
      <4>1. /\ check'[c].at = check[c].at /\ check'[c].key = check[c].key
            /\ check[c].key[1] \in {"geo", "fraud"} => check'[c].val = Unsure
        BY <1>2, <2>1, <3>4, OvertakenValues
      <4>2. check[c].key[1] \in {"geo", "fraud"}
        BY <4>1, <3>4 DEF CheckInv, RequestInv
      <4>. QED
        BY <4>1, <4>2
    <3>5. ComingValues'
      <4>1. ASSUME NEW a \in Address
            PROVE  (LET f == flight[<<"geo", a>>] IN
                    /\ f.at = "loaded" => f.val \in {Unsure, <<sig>>}
                    /\ f.at = "answered" => Stored(f.val))'
        BY <3>1, <3>3
      <4>2. ASSUME NEW c \in Check
            PROVE  (LET q == check[c] IN
                    /\ q.at = "loaded" => q.val = Unsure \/ q.sig = sig
                    /\ q.at = "resolved" => q.val = Unsure \/ (q.sig = sig /\ q.keys = keys)
                    /\ q.at = "put" /\ q.key[1] = "geo" => Stored(q.val)
                    /\ q.at = "put" /\ q.key[1] = "fraud" => FraudStored(q.val))'
        BY <3>1, <3>4
      <4>. QED
        BY <4>1, <4>2 DEF ComingValues
    <3>. QED
      BY <3>2, <3>5 DEF LookupValues
  <2>2. CASE /\ kinds = {"exit", "edge"} /\ UNCHANGED <<geoCache, checker, strayKeys>>
             /\ saving' = saving \/ (saving = "native" /\ saving' = "none")
    <3>1. /\ UNCHANGED <<geoCache, checker, sig, keys>> /\ (Calm' => Calm)
          /\ \A k \in ViewKey : view'[k] = Absent
      BY <1>3, <2>2 DEF ClearDerived, AfterRouteChange, Calm
    <3>2. SUFFICES ASSUME Calm' PROVE KeptValues' /\ ComingValues'
      BY DEF LookupValues
    <3>3. KeptValues /\ ComingValues
      BY <3>1, <3>2 DEF CheckInv, LookupValues
    <3>4. KeptValues'
      BY <3>1, <3>3, CheckKeys DEF KeptValues, Stored, FraudStored
    <3>5. ASSUME NEW a \in Address
          PROVE  flight'[<<"geo", a>>].at = flight[<<"geo", a>>].at
                 /\ flight'[<<"geo", a>>].val = flight[<<"geo", a>>].val
      <4>1. <<"geo", a>> \in FlightKey /\ <<"geo", a>>[1] \notin kinds
        BY <2>2, CheckKeys
      <4>. QED
        BY <1>2, <4>1, OvertakenValues
    <3>6. ASSUME NEW c \in Check
          PROVE  /\ check'[c].at = check[c].at /\ check'[c].sig = check[c].sig
                 /\ check'[c].keys = check[c].keys /\ check'[c].key = check[c].key
                 /\ check[c].key[1] \in {"geo", "fraud"} => check'[c].val = check[c].val
      BY <1>2, <2>2, OvertakenValues
    <3>7. ComingValues'
      <4>1. ASSUME NEW a \in Address
            PROVE  (LET f == flight[<<"geo", a>>] IN
                    /\ f.at = "loaded" => f.val \in {Unsure, <<sig>>}
                    /\ f.at = "answered" => Stored(f.val))'
        BY <3>1, <3>3, <3>5 DEF ComingValues, Stored
      <4>2. ASSUME NEW c \in Check
            PROVE  (LET q == check[c] IN
                    /\ q.at = "loaded" => q.val = Unsure \/ q.sig = sig
                    /\ q.at = "resolved" => q.val = Unsure \/ (q.sig = sig /\ q.keys = keys)
                    /\ q.at = "put" /\ q.key[1] = "geo" => Stored(q.val)
                    /\ q.at = "put" /\ q.key[1] = "fraud" => FraudStored(q.val))'
        BY <3>1, <3>3, <3>6 DEF ComingValues, Stored, FraudStored, Unsupported, CheckInv, RequestInv
      <4>. QED
        BY <4>1, <4>2 DEF ComingValues
    <3>. QED
      BY <3>4, <3>7
  <2>. QED
    BY <1>2, <2>1, <2>2
<1>. QED
  BY <1>4, <1>5, <1>6 DEF CheckInv

\* What a request may be that waits for no merged call.
RightRequest(q) ==
  /\ q \in RequestRecord /\ q.at # "waiting"
  /\ q.at = "idle" <=> q.key = <<>>
  /\ q.at \in {"idle", "canary"} => q.val = Absent
  /\ q.at = "canary" => q.key[1] = "edge"
  /\ q.at \in {"loaded", "resolved"} => q.key[1] = "fraud"
  /\ \A l \in Listener, kind \in {"exit", "edge"} : q.key = <<kind, l>> => OfRoute(l, q.val)
  /\ Calm => /\ q.at = "loaded" => q.val = Unsure \/ q.sig = sig
             /\ q.at = "resolved" => q.val = Unsure \/ (q.sig = sig /\ q.keys = keys)
             /\ q.at = "put" /\ q.key[1] = "geo" => Stored(q.val)
             /\ q.at = "put" /\ q.key[1] = "fraud" => FraudStored(q.val)

\* The steps of a request: what it is about to say, or has said, is of the
\* present route and of what is stored.
LEMMA AskOne ==
  ASSUME CheckInv, UNCHANGED <<world, view, geoCache, flight>>,
         checker' \in [sig : Nat, val : Seq(Nat)], Calm => Stored(checker'.val),
         NEW c \in Check, check[c].at # "waiting",
         NEW q, RightRequest(q), check' = [check EXCEPT ![c] = q]
  PROVE  CheckInv'
<1>1. ChecksShape /\ FlightInv /\ RequestInv /\ ExitValues /\ LookupValues
  BY DEF CheckInv
<1>2. check'[c] = q /\ \A d \in Check : d # c => check'[d] = check[d]
  BY <1>1 DEF ChecksShape
<1>3. ChecksShape'
  BY <1>1 DEF ChecksShape, world, RightRequest
<1>4. FlightInv'
  BY <1>1, <1>2 DEF FlightInv, ChecksShape
<1>5. RequestInv'
  BY <1>1, <1>2 DEF RequestInv, RightRequest
<1>6. ExitValues'
  <2>1. ASSUME NEW l \in Listener, NEW kind \in {"exit", "edge"}
        PROVE  /\ OfRoute(l, flight[<<"exit", l>>].val)' /\ OfRoute(l, view[<<kind, l>>])'
               /\ \A d \in Check : check[d].key' = <<kind, l>> => OfRoute(l, check[d].val)'
    BY <1>1, <1>2 DEF ExitValues, OfRoute, world, RightRequest
  <2>. QED
    BY <2>1 DEF ExitValues
<1>7. LookupValues'
  <2>1. SUFFICES ASSUME Calm PROVE KeptValues' /\ ComingValues'
    BY DEF LookupValues, Calm, world
  <2>2. KeptValues'
    BY <1>1, <2>1 DEF LookupValues, KeptValues, Stored, FraudStored, Unsupported, world
  <2>3. ComingValues'
    BY <1>1, <1>2, <2>1 DEF LookupValues, ComingValues, Stored, FraudStored, Unsupported, world,
       RightRequest
  <2>. QED
    BY <2>2, <2>3
<1>. QED
  BY <1>3, <1>4, <1>5, <1>6, <1>7 DEF CheckInv

LEMMA CheckValues ==
  ASSUME CheckInv
  PROVE  /\ checker \in [sig : Nat, val : Seq(Nat)] /\ (Calm => Stored(checker.val))
         /\ Absent \in Seq(Nat) /\ Unsure \in Seq(Nat) /\ Stored(Unsure) /\ Stored(Absent)
         /\ \A val : Stored(val) => FraudStored(val)
         /\ \A l \in Listener : OfRoute(l, Unsure) /\ OfRoute(l, Absent)
BY DEF CheckInv, ChecksShape, LookupValues, KeptValues, Absent, Unsure, Stored, FraudStored, OfRoute

LEMMA IdleRecord ==
  /\ IdleCheck \in RequestRecord
  /\ IdleCheck.at = "idle" /\ IdleCheck.key = <<>> /\ IdleCheck.val = Absent
BY DEF IdleCheck, Absent, RequestRecord, RequestPlace

LEMMA AskFraudKeeps ==
  ASSUME CheckInv, NEW c \in Check, NEW a \in Address, AskFraud(c, a)
  PROVE  CheckInv'
<1>. DEFINE q == [IdleCheck EXCEPT !.at = "loaded", !.key = <<"fraud", a>>, !.sig = sig]
<1>1. /\ q \in RequestRecord
      /\ q.at = "loaded" /\ q.key = <<"fraud", a>> /\ q.sig = sig
  BY CheckKeys, IdleRecord DEF CheckInv, ChecksShape, RequestRecord, RequestPlace
<1>2. /\ UNCHANGED <<world, caches, flight>> /\ check[c].at = "idle"
      /\ check' = [check EXCEPT ![c] = q]
  BY DEF AskFraud, Arrive
<1>. HIDE DEF q
<1>3. RightRequest(q)
  BY <1>1, CheckKeys DEF RightRequest
<1>. QED
  BY <1>2, <1>3, CheckValues, AskOne DEF caches

LEMMA AskCanaryKeeps ==
  ASSUME CheckInv, NEW c \in Check, NEW l \in Listener, Arrive(c),
         check' = [check EXCEPT ![c] = [IdleCheck EXCEPT !.at = "canary", !.key = <<"edge", l>>]],
         UNCHANGED <<world, caches, flight>>
  PROVE  CheckInv'
<1>. DEFINE q == [IdleCheck EXCEPT !.at = "canary", !.key = <<"edge", l>>]
<1>1. q \in RequestRecord /\ q.at = "canary" /\ q.key = <<"edge", l>> /\ q.val = Absent
  BY CheckKeys, IdleRecord DEF RequestRecord, RequestPlace
<1>2. check[c].at = "idle" /\ check' = [check EXCEPT ![c] = q]
  BY DEF Arrive
<1>. HIDE DEF q
<1>3. RightRequest(q)
  BY <1>1, CheckKeys, CheckValues DEF RightRequest
<1>. QED
  BY <1>2, <1>3, CheckValues, AskOne DEF caches

LEMMA GeoHitKeeps ==
  ASSUME CheckInv, NEW c \in Check, NEW a \in Address, AskGeo(c, a), geoCache[a] # Absent
  PROVE  CheckInv'
<1>. DEFINE q == [IdleCheck EXCEPT !.at = "put", !.key = <<"geo", a>>, !.val = geoCache[a]]
<1>1. q \in RequestRecord /\ q.at = "put" /\ q.key = <<"geo", a>> /\ q.val = geoCache[a]
  BY CheckKeys, IdleRecord DEF CheckInv, ChecksShape, RequestRecord, RequestPlace
<1>2. /\ UNCHANGED <<world, caches, flight>> /\ check[c].at = "idle"
      /\ check' = [check EXCEPT ![c] = q]
  BY DEF AskGeo, Arrive
<1>. HIDE DEF q
<1>3. Calm => Stored(q.val)
  BY <1>1 DEF CheckInv, LookupValues, KeptValues
<1>4. RightRequest(q)
  BY <1>1, <1>3, CheckKeys DEF RightRequest
<1>. QED
  BY <1>2, <1>4, CheckValues, AskOne DEF caches

LEMMA CanaryKeeps ==
  ASSUME CheckInv, NEW c \in Check, Canary(c)
  PROVE  CheckInv'
<1>1. check \in [Check -> RequestRecord] /\ RequestInv
  BY DEF CheckInv, ChecksShape
<1>2. check[c].at = "canary" /\ check[c].key # <<>> /\ check[c].key[1] = "edge"
  BY <1>1 DEF Canary, RequestInv
<1>3. check[c].key \in ViewKey
  BY <1>1, <1>2 DEF RequestRecord
<1>4. PICK l \in Listener : check[c].key = <<"edge", l>>
  BY <1>2, <1>3, CheckKeys
<1>5. PICK val : val = IF pending THEN Unsure ELSE <<route[check[c].key[2]]>>
  OBVIOUS
<1>6. val \in Seq(Nat) /\ OfRoute(l, val)
  BY <1>4, <1>5, CheckValues DEF CheckInv, OfRoute, ChecksShape
<1>. DEFINE q == [check[c] EXCEPT !.at = "put", !.val = val]
<1>7. check' = [check EXCEPT ![c] = q]
  BY <1>1, <1>5 DEF Canary
<1>8. q \in RequestRecord /\ q.at = "put" /\ q.key = <<"edge", l>> /\ q.val = val
  BY <1>1, <1>4, <1>6 DEF RequestRecord, RequestPlace
<1>. HIDE DEF q
<1>9. RightRequest(q)
  BY <1>6, <1>8, CheckKeys DEF RightRequest
<1>. QED
  BY <1>2, <1>7, <1>9, CheckValues, AskOne DEF caches, Canary

LEMMA ResolveKeeps ==
  ASSUME CheckInv, NEW c \in Check, ResolveKeys(c)
  PROVE  CheckInv'
<1>1. check \in [Check -> RequestRecord] /\ keys \in Nat /\ RequestInv /\ LookupValues
  BY DEF CheckInv, ChecksShape
<1>. DEFINE q == [check[c] EXCEPT !.at = "resolved", !.keys = keys]
<1>2. /\ q \in RequestRecord
      /\ q.at = "resolved" /\ q.key = check[c].key /\ q.val = check[c].val
      /\ q.keys = keys /\ q.sig = check[c].sig
  BY <1>1 DEF RequestRecord, RequestPlace
<1>3. check[c].at = "loaded" /\ check' = [check EXCEPT ![c] = q]
  BY DEF ResolveKeys
<1>. HIDE DEF q
<1>4. q.key # <<>> /\ q.key[1] = "fraud"
  BY <1>1, <1>2, <1>3 DEF RequestInv
<1>5. Calm => q.val = Unsure \/ (q.sig = sig /\ q.keys = keys)
  BY <1>1, <1>2, <1>3 DEF LookupValues, ComingValues
<1>6. RightRequest(q)
  BY <1>2, <1>4, <1>5 DEF RightRequest
<1>. QED
  BY <1>3, <1>6, CheckValues, AskOne DEF caches, ResolveKeys

LEMMA UseCheckerKeeps ==
  ASSUME CheckInv, NEW c \in Check, UseChecker(c)
  PROVE  CheckInv'
<1>1. check \in [Check -> RequestRecord] /\ RequestInv /\ LookupValues
  BY DEF CheckInv, ChecksShape
<1>. DEFINE mine == IF check[c].val = Unsure THEN Unsure ELSE <<check[c].sig, check[c].keys>>
            use == IF checker.sig = check[c].sig THEN checker ELSE [sig |-> check[c].sig, val |-> mine]
            said == IF mine = Unsure THEN Unsure ELSE use.val
            q == [IdleCheck EXCEPT !.at = "put", !.key = check[c].key, !.val = said]
<1>2. check[c].at = "resolved" /\ checker' = use /\ check' = [check EXCEPT ![c] = q]
  BY DEF UseChecker
<1>3. mine \in Seq(Nat)
  BY <1>1, CheckValues DEF RequestRecord
<1>4. Calm => Stored(mine)
  BY <1>1, <1>2, CheckValues DEF LookupValues, ComingValues, Stored
<1>. HIDE DEF mine
<1>5. use \in [sig : Nat, val : Seq(Nat)] /\ (Calm => Stored(use.val))
  BY <1>1, <1>3, <1>4, CheckValues DEF RequestRecord
<1>. HIDE DEF use
<1>6. said \in Seq(Nat) /\ (Calm => Stored(said))
  BY <1>5, CheckValues
<1>. HIDE DEF said
<1>7. q \in RequestRecord /\ q.at = "put" /\ q.key = check[c].key /\ q.val = said
  BY <1>1, <1>6, IdleRecord DEF RequestRecord, RequestPlace
<1>. HIDE DEF q
<1>8. q.key # <<>> /\ q.key[1] = "fraud"
  BY <1>1, <1>2, <1>7 DEF RequestInv
<1>9. RightRequest(q)
  BY <1>6, <1>7, <1>8, CheckValues DEF RightRequest
<1>. QED
  BY <1>2, <1>5, <1>9, AskOne DEF UseChecker

LEMMA KeysUnresolvedKeeps ==
  ASSUME CheckInv, NEW c \in Check, KeysUnresolved(c)
  PROVE  CheckInv'
<1>1. check \in [Check -> RequestRecord] /\ RequestInv /\ LookupValues
  BY DEF CheckInv, ChecksShape
<1>. DEFINE said == IF check[c].val = Unsure THEN Unsure ELSE Unsupported(check[c].sig)
            q == [check[c] EXCEPT !.at = "put", !.val = said]
<1>2. check[c].at = "loaded" /\ check' = [check EXCEPT ![c] = q]
  BY <1>1 DEF KeysUnresolved
<1>3. said \in Seq(Nat)
  BY <1>1, CheckValues DEF RequestRecord, Unsupported
<1>4. Calm => FraudStored(said)
  BY <1>1, <1>2, CheckValues DEF LookupValues, ComingValues, FraudStored
<1>. HIDE DEF said
<1>5. q \in RequestRecord /\ q.at = "put" /\ q.key = check[c].key /\ q.val = said
  BY <1>1, <1>3 DEF RequestRecord, RequestPlace
<1>. HIDE DEF q
<1>6. q.key # <<>> /\ q.key[1] = "fraud"
  BY <1>1, <1>2, <1>5 DEF RequestInv
<1>7. RightRequest(q)
  BY <1>4, <1>5, <1>6 DEF RightRequest
<1>. QED
  BY <1>2, <1>7, CheckValues, AskOne DEF caches, KeysUnresolved

LEMMA CheckFailsKeeps ==
  ASSUME CheckInv, NEW c \in Check, CheckFails(c)
  PROVE  CheckInv'
<1>1. RightRequest(IdleCheck)
  BY IdleRecord DEF RightRequest
<1>2. check[c].at # "waiting" /\ check' = [check EXCEPT ![c] = IdleCheck]
  BY DEF CheckFails
<1>. QED
  BY <1>1, <1>2, CheckValues, AskOne DEF caches, CheckFails

\* Merged calls.
LEMMA ViewsOfKeys ==
  /\ \A l \in Listener : ViewsOf(<<"exit", l>>) = {<<"exit", l>>, <<"edge", l>>}
  /\ \A a \in Address : ViewsOf(<<"geo", a>>) = {<<"geo", a>>}
BY DEF ViewsOf

LEMMA JoinKeeps ==
  ASSUME CheckInv, NEW c \in Check, check[c].at = "idle", NEW k \in FlightKey,
         NEW for \in ViewsOf(k), Join(c, k, for), UNCHANGED <<world, caches>>
  PROVE  CheckInv'
<1>1. ChecksShape /\ FlightInv /\ RequestInv /\ ExitValues /\ LookupValues
  BY DEF CheckInv
<1>. DEFINE q == [IdleCheck EXCEPT !.at = "waiting", !.key = for]
<1>2. for \in ViewKey
  <2>1. ASSUME NEW l \in Listener, k = <<"exit", l>> PROVE for \in ViewKey
    <3>1. ViewsOf(k) = {<<"exit", l>>, <<"edge", l>>}
      BY <2>1, ViewsOfKeys
    <3>. QED
      BY <3>1, CheckKeys
  <2>2. ASSUME NEW a \in Address, k = <<"geo", a>> PROVE for \in ViewKey
    <3>1. ViewsOf(k) = {<<"geo", a>>}
      BY <2>2, ViewsOfKeys
    <3>. QED
      BY <3>1, CheckKeys
  <2>. QED
    BY <2>1, <2>2, CheckKeys
<1>3. q \in RequestRecord /\ q.at = "waiting" /\ q.key = for /\ q.val = Absent
  BY <1>2, IdleRecord DEF RequestRecord, RequestPlace
<1>4. check' = [check EXCEPT ![c] = q] /\ flight' = [flight EXCEPT ![k].members = @ \cup {c}]
  BY DEF Join
<1>. HIDE DEF q
<1>5. check'[c] = q /\ \A d \in Check : d # c => check'[d] = check[d]
  BY <1>1, <1>4 DEF ChecksShape
<1>6. \A n \in FlightKey : /\ flight'[n].at = flight[n].at /\ flight'[n].val = flight[n].val
                           /\ flight'[n].members \subseteq flight[n].members \cup {c}
                           /\ n # k => flight'[n].members = flight[n].members
  BY <1>1, <1>4 DEF ChecksShape
<1>7. ChecksShape'
  BY <1>1, <1>3, <1>4 DEF ChecksShape, world, caches
<1>8. FlightInv'
  <2>1. ASSUME NEW n \in FlightKey, NEW d \in flight'[n].members
        PROVE  check'[d].at = "waiting" /\ check'[d].key \in ViewsOf(n)
    <3>1. flight[n].members \subseteq Check
      BY <1>1 DEF ChecksShape
    <3>2. CASE d \in flight[n].members
      BY <1>1, <1>5, <3>1, <3>2 DEF FlightInv
    <3>3. CASE d \notin flight[n].members
      BY <1>3, <1>5, <1>6, <2>1, <3>3
    <3>. QED
      BY <3>2, <3>3
  <2>. QED
    BY <1>1, <1>6, <2>1 DEF FlightInv
<1>9. RequestInv'
  BY <1>1, <1>2, <1>3, <1>5, CheckKeys DEF RequestInv
<1>10. ExitValues'
  <2>1. ASSUME NEW l \in Listener, NEW kind \in {"exit", "edge"}
        PROVE  /\ OfRoute(l, flight[<<"exit", l>>].val)' /\ OfRoute(l, view[<<kind, l>>])'
               /\ \A d \in Check : check[d].key' = <<kind, l>> => OfRoute(l, check[d].val)'
    <3>1. <<"exit", l>> \in FlightKey /\ <<kind, l>> \in ViewKey
      BY CheckKeys
    <3>2. flight'[<<"exit", l>>].val = flight[<<"exit", l>>].val /\ view' = view
      BY <1>6, <3>1 DEF caches
    <3>3. \A d \in Check : check[d].key' = <<kind, l>> => check'[d].val = Absent \/ check'[d] = check[d]
      BY <1>3, <1>5
    <3>. QED
      BY <1>1, <3>2, <3>3 DEF ExitValues, OfRoute, world
  <2>. QED
    BY <2>1 DEF ExitValues
<1>11. LookupValues'
  <2>1. SUFFICES ASSUME Calm PROVE KeptValues' /\ ComingValues'
    BY DEF LookupValues, Calm, world
  <2>2. KeptValues'
    BY <1>1, <2>1 DEF LookupValues, KeptValues, Stored, FraudStored, Unsupported, world, caches
  <2>3. \A v : (Stored(v)' <=> Stored(v)) /\ (FraudStored(v)' <=> FraudStored(v))
    BY DEF Stored, FraudStored, Unsupported, world
  <2>4. sig' = sig /\ keys' = keys /\ ComingValues
    BY <1>1, <2>1 DEF LookupValues, world
  <2>5. ComingValues'
    BY <1>3, <1>5, <1>6, <2>3, <2>4, CheckKeys DEF ComingValues
  <2>. QED
    BY <2>2, <2>5
<1>. QED
  BY <1>7, <1>8, <1>9, <1>10, <1>11 DEF CheckInv

\* An answer comes to a call, or a step towards it.
LEMMA AnswerKeeps ==
  ASSUME CheckInv, UNCHANGED <<world, caches, check>>, NEW k \in FlightKey,
         NEW at \in {"open", "loaded", "answered"}, NEW val \in Seq(Nat),
         flight' = [flight EXCEPT ![k] = [@ EXCEPT !.at = at, !.val = val]],
         at # "open", at = "loaded" => k[1] = "geo",
         \A l \in Listener : k = <<"exit", l>> => OfRoute(l, val),
         Calm /\ k[1] = "geo" => /\ at = "loaded" => val \in {Unsure, <<sig>>}
                                 /\ at = "answered" => Stored(val)
  PROVE  CheckInv'
<1>1. ChecksShape /\ FlightInv /\ RequestInv /\ ExitValues /\ LookupValues
  BY DEF CheckInv
<1>2. /\ \A n \in FlightKey : flight'[n].members = flight[n].members
      /\ flight'[k].at = at /\ flight'[k].val = val
      /\ \A n \in FlightKey : n # k => flight'[n] = flight[n]
  BY <1>1 DEF ChecksShape
<1>3. ChecksShape'
  BY <1>1 DEF ChecksShape, world, caches
<1>4. FlightInv'
  BY <1>1, <1>2 DEF FlightInv
<1>5. RequestInv'
  BY <1>1 DEF RequestInv
<1>6. ExitValues'
  <2>1. ASSUME NEW l \in Listener, NEW kind \in {"exit", "edge"}
        PROVE  /\ OfRoute(l, flight[<<"exit", l>>].val)' /\ OfRoute(l, view[<<kind, l>>])'
               /\ \A d \in Check : check[d].key' = <<kind, l>> => OfRoute(l, check[d].val)'
    BY <1>1, <1>2, CheckKeys DEF ExitValues, OfRoute, world, caches
  <2>. QED
    BY <2>1 DEF ExitValues
<1>7. LookupValues'
  <2>1. SUFFICES ASSUME Calm PROVE KeptValues' /\ ComingValues'
    BY DEF LookupValues, Calm, world
  <2>2. KeptValues'
    BY <1>1, <2>1 DEF LookupValues, KeptValues, Stored, FraudStored, Unsupported, world, caches
  <2>3. ComingValues'
    BY <1>1, <1>2, <2>1, CheckKeys DEF LookupValues, ComingValues, Stored, FraudStored, Unsupported,
       world
  <2>. QED
    BY <2>2, <2>3
<1>. QED
  BY <1>3, <1>4, <1>5, <1>6, <1>7 DEF CheckInv

LEMMA TwoJoined ==
  ASSUME NEW m \in Nat, NEW n \in Nat
  PROVE  <<m>> \o <<n>> = <<m, n>>
<1>1. <<m>> \in Seq(Nat) /\ <<n>> \in Seq(Nat) /\ <<m, n>> \in Seq(Nat)
  OBVIOUS
<1>2. PICK t : t = <<m>> \o <<n>>
  OBVIOUS
<1>3. t \in Seq(Nat) /\ Len(t) = 2 /\ t[1] = m /\ t[2] = n
  BY <1>1, <1>2, ConcatProperties
<1>4. Len(<<m, n>>) = 2 /\ \A i \in 1..2 : t[i] = <<m, n>>[i]
  BY <1>3
<1>5. t = <<m, n>>
  BY <1>1, <1>3, <1>4, SeqEqual
<1>. QED
  BY <1>2, <1>5

LEMMA ProbeKeeps ==
  ASSUME CheckInv, NEW l \in Listener, Probe(l)
  PROVE  CheckInv'
<1>1. PICK k \in FlightKey : k = <<"exit", l>>
  BY CheckKeys
<1>2. PICK val : val = IF pending THEN Unsure ELSE <<route[l]>>
  OBVIOUS
<1>3. flight \in [FlightKey -> [members : SUBSET Check, at : {"open", "loaded", "answered"},
                               val : Seq(Nat)]]
  BY DEF CheckInv, ChecksShape
<1>4. flight' = [flight EXCEPT ![k] = [@ EXCEPT !.at = "answered", !.val = val]]
  BY <1>1, <1>2, <1>3 DEF Probe
<1>5. val \in Seq(Nat) /\ OfRoute(l, val)
  BY <1>2, CheckValues DEF CheckInv, OfRoute, ChecksShape
<1>6. k[1] = "exit" /\ \A m \in Listener : k = <<"exit", m>> => m = l
  BY <1>1
<1>7. UNCHANGED <<world, caches, check>>
  BY DEF Probe
<1>8. \A m \in Listener : k = <<"exit", m>> => OfRoute(m, val)
  BY <1>5, <1>6
<1>. QED
  BY <1>4, <1>5, <1>6, <1>7, <1>8, AnswerKeeps

LEMMA LoadGeoKeeps ==
  ASSUME CheckInv, NEW a \in Address, LoadGeo(a)
  PROVE  CheckInv'
<1>1. PICK k \in FlightKey : k = <<"geo", a>>
  BY CheckKeys
<1>2. k[1] = "geo" /\ \A m \in Listener : k # <<"exit", m>>
  BY <1>1
<1>3. /\ flight \in [FlightKey -> [members : SUBSET Check, at : {"open", "loaded", "answered"},
                                   val : Seq(Nat)]]
      /\ geoCache[a] \in Seq(Nat) /\ sig \in Nat /\ keys \in Nat
  BY DEF CheckInv, ChecksShape
<1>4. Calm => /\ Stored(geoCache[a])
              /\ flight[k].at = "loaded" => flight[k].val \in {Unsure, <<sig>>}
  BY <1>1 DEF CheckInv, LookupValues, KeptValues, ComingValues
<1>5. CASE flight[k].at = "open" /\ geoCache[a] # Absent
  <2>1. flight' = [flight EXCEPT ![k] = [@ EXCEPT !.at = "answered", !.val = geoCache[a]]]
    BY <1>1, <1>5 DEF LoadGeo
  <2>. QED
    BY <1>2, <1>3, <1>4, <2>1, AnswerKeeps DEF LoadGeo
<1>6. CASE flight[k].at = "open" /\ geoCache[a] = Absent
  <2>1. flight' = [flight EXCEPT ![k] = [@ EXCEPT !.at = "loaded", !.val = <<sig>>]]
    BY <1>1, <1>6 DEF LoadGeo
  <2>2. <<sig>> \in Seq(Nat)
    BY <1>3
  <2>. QED
    BY <1>2, <1>3, <2>1, <2>2, AnswerKeeps DEF LoadGeo
<1>7. CASE flight[k].at = "loaded"
  <2>1. PICK val : val = IF flight[k].val = Unsure THEN Unsure ELSE flight[k].val \o <<keys>>
    OBVIOUS
  <2>2. flight' = [flight EXCEPT ![k] = [@ EXCEPT !.at = "answered", !.val = val]]
    BY <1>1, <1>3, <1>7, <2>1 DEF LoadGeo
  <2>3. val \in Seq(Nat)
    BY <1>3, <2>1, CheckValues
  <2>4. <<sig>> \o <<keys>> = <<sig, keys>>
    BY <1>3, TwoJoined
  <2>5. Calm => Stored(val)
    BY <1>4, <1>7, <2>1, <2>4 DEF Stored
  <2>. QED
    BY <1>2, <2>2, <2>3, <2>5, AnswerKeeps DEF LoadGeo
<1>. QED
  BY <1>1, <1>5, <1>6, <1>7 DEF LoadGeo

LEMMA AskGeoKeeps ==
  ASSUME CheckInv, NEW c \in Check, NEW a \in Address, AskGeo(c, a)
  PROVE  CheckInv'
<1>1. CASE geoCache[a] # Absent
  BY <1>1, GeoHitKeeps
<1>2. CASE geoCache[a] = Absent
  BY <1>2, JoinKeeps, CheckKeys, ViewsOfKeys DEF AskGeo, Arrive
<1>. QED
  BY <1>1, <1>2

LEMMA AskExitKeeps ==
  ASSUME CheckInv, NEW c \in Check, NEW l \in Listener, AskExit(c, l)
  PROVE  CheckInv'
<1>1. ASSUME NEW kind \in {"exit", "edge"}, Join(c, <<"exit", l>>, <<kind, l>>)
      PROVE  CheckInv'
  BY <1>1, JoinKeeps, CheckKeys, ViewsOfKeys DEF AskExit, Arrive
<1>. QED
  BY <1>1, AskCanaryKeeps DEF AskExit

\* A merged call ends.
LEMMA EndFlightKeeps ==
  ASSUME CheckInv, NEW k \in FlightKey, EndFlight(k)
  PROVE  CheckInv'
<1>1. ChecksShape /\ FlightInv /\ RequestInv /\ ExitValues /\ LookupValues
  BY DEF CheckInv
<1>. DEFINE members == flight[k].members
            val == flight[k].val
            goOn(c) == IF check[c].key[1] = "edge" THEN [check[c] EXCEPT !.at = "canary"]
                       ELSE [check[c] EXCEPT !.at = "put", !.val = val]
<1>2. members \subseteq Check /\ val \in Seq(Nat)
      /\ \A c \in members : check[c].at = "waiting" /\ check[c].val = Absent /\ check[c].key \in ViewsOf(k)
  BY <1>1 DEF ChecksShape, FlightInv, RequestInv
<1>3. /\ UNCHANGED <<world, view, checker>>
      /\ \/ /\ flight[k].at = "answered"
            /\ check' = [c \in Check |-> IF c \in members THEN goOn(c) ELSE check[c]]
            /\ geoCache' = IF k[1] = "geo" THEN [geoCache EXCEPT ![k[2]] = val] ELSE geoCache
         \/ /\ check' = [c \in Check |-> IF c \in members THEN IdleCheck ELSE check[c]]
            /\ UNCHANGED geoCache
  BY DEF EndFlight
<1>4. \A n \in FlightKey : flight'[n] = IF n = k THEN NoFlight ELSE flight[n]
  BY <1>1 DEF EndFlight, ChecksShape
<1>5. ASSUME NEW c \in Check
      PROVE  /\ check'[c] \in RequestRecord
             /\ c \notin members => check'[c] = check[c]
             /\ c \in members =>
                  \/ check'[c] = IdleCheck
                  \/ /\ check'[c].at = "canary" /\ check'[c].key = check[c].key
                     /\ check'[c].val = Absent /\ check[c].key[1] = "edge"
                  \/ /\ check'[c].at = "put" /\ check'[c].key = check[c].key
                     /\ check'[c].val = val /\ flight[k].at = "answered" /\ check[c].key[1] # "edge"
  <2>1. check[c] \in RequestRecord
    BY <1>1 DEF ChecksShape
  <2>2. CASE c \notin members
    BY <1>3, <2>1, <2>2
  <2>3. CASE c \in members /\ check'[c] = IdleCheck
    BY <2>3, IdleRecord
  <2>4. CASE c \in members /\ check'[c] = goOn(c) /\ flight[k].at = "answered"
    BY <1>2, <2>1, <2>4 DEF RequestRecord, RequestPlace
  <2>. QED
    BY <1>3, <2>2, <2>3, <2>4
<1>. HIDE DEF goOn
<1>6. ASSUME NEW n \in FlightKey, n # k
      PROVE  flight[n].members \cap members = {}
  <2>1. ASSUME NEW c \in flight[n].members, c \in members PROVE FALSE
    <3>1. check[c].key \in ViewsOf(n) \cap ViewsOf(k)
      BY <1>1, <1>2, <2>1 DEF FlightInv
    <3>. QED
      BY <1>6, <3>1, CheckKeys, ViewsOfKeys
  <2>. QED
    BY <2>1
<1>7. geoCache' \in [Address -> Seq(Nat)]
  BY <1>1, <1>2, <1>3, CheckKeys DEF ChecksShape
<1>8. NoFlight \in [members : SUBSET Check, at : {"open", "loaded", "answered"}, val : Seq(Nat)]
      /\ NoFlight.at = "open" /\ NoFlight.val = Absent /\ NoFlight.members = {}
  BY DEF NoFlight, Absent
<1>9. ChecksShape'
  <2>1. check' \in [Check -> RequestRecord]
    BY <1>3, <1>5
  <2>2. flight' \in [FlightKey -> [members : SUBSET Check, at : {"open", "loaded", "answered"},
                                   val : Seq(Nat)]]
    BY <1>1, <1>8 DEF EndFlight, ChecksShape
  <2>. QED
    BY <1>1, <1>3, <1>7, <2>1, <2>2 DEF ChecksShape, world
<1>10. FlightInv'
  <2>1. ASSUME NEW n \in FlightKey, NEW c \in flight'[n].members
        PROVE  check'[c].at = "waiting" /\ check'[c].key \in ViewsOf(n)
    <3>1. n # k /\ c \in flight[n].members /\ c \in Check
      BY <1>1, <1>4, <1>8, <2>1 DEF ChecksShape
    <3>. QED
      BY <1>1, <1>5, <1>6, <3>1 DEF FlightInv
  <2>. QED
    BY <1>1, <1>4, <1>8, <2>1 DEF FlightInv
<1>11. RequestInv'
  <2>1. \A c \in members : check[c].key # <<>>
    BY <1>1, <1>2 DEF RequestInv
  <2>. QED
    BY <1>1, <1>5, <2>1, IdleRecord DEF RequestInv
<1>12. ExitValues'
  <2>1. ASSUME NEW l \in Listener, NEW kind \in {"exit", "edge"}
        PROVE  /\ OfRoute(l, flight[<<"exit", l>>].val)' /\ OfRoute(l, view[<<kind, l>>])'
               /\ \A d \in Check : check[d].key' = <<kind, l>> => OfRoute(l, check[d].val)'
    <3>1. \A v : OfRoute(l, v)' <=> OfRoute(l, v)
      BY <1>3 DEF OfRoute, world
    <3>2. OfRoute(l, flight'[<<"exit", l>>].val)
      BY <1>1, <1>4, <1>8, CheckKeys, CheckValues DEF ExitValues
    <3>3. ASSUME NEW d \in Check, check'[d].key = <<kind, l>> PROVE OfRoute(l, check'[d].val)
      <4>1. CASE d \notin members
        BY <1>1, <1>5, <3>3, <4>1 DEF ExitValues
      <4>2. CASE d \in members
        <5>1. check'[d].val = val => check[d].key \in ViewsOf(k)
          BY <1>2, <4>2
        <5>2. \/ check'[d].val = Absent
              \/ check'[d].val = val /\ check[d].key = <<kind, l>> /\ k = <<"exit", l>>
          BY <1>2, <1>5, <3>3, <4>2, IdleRecord, CheckKeys, ViewsOfKeys
        <5>. QED
          BY <1>1, <5>2, CheckValues DEF ExitValues
      <4>. QED
        BY <4>1, <4>2
    <3>. QED
      BY <1>1, <1>3, <3>1, <3>2, <3>3 DEF ExitValues
  <2>. QED
    BY <2>1 DEF ExitValues
<1>13. LookupValues'
  <2>1. SUFFICES ASSUME Calm PROVE KeptValues' /\ ComingValues'
    BY <1>3 DEF LookupValues, Calm, world
  <2>2. \A v : (Stored(v)' <=> Stored(v)) /\ (FraudStored(v)' <=> FraudStored(v))
    BY <1>3 DEF Stored, FraudStored, Unsupported, world
  <2>3. KeptValues /\ ComingValues
    BY <1>1, <2>1 DEF LookupValues
  <2>4. \A a \in Address : k = <<"geo", a>> /\ flight[k].at = "answered" => Stored(val)
    BY <2>3 DEF ComingValues
  <2>5. ASSUME NEW a \in Address PROVE Stored(geoCache'[a])
    <3>1. CASE geoCache' = geoCache
      BY <2>3, <3>1 DEF KeptValues
    <3>2. ASSUME NEW b \in Address, k = <<"geo", b>>, flight[k].at = "answered",
                 geoCache' = [geoCache EXCEPT ![b] = val]
          PROVE  Stored(geoCache'[a])
      BY <1>1, <2>3, <2>4, <3>2 DEF ChecksShape, KeptValues
    <3>3. ASSUME NEW l \in Listener, k = <<"exit", l>> PROVE geoCache' = geoCache
      BY <1>3, <3>3
    <3>. QED
      BY <1>3, <3>1, <3>2, <3>3, CheckKeys
  <2>6. KeptValues'
    BY <1>3, <2>2, <2>3, <2>5 DEF KeptValues
  <2>7. ASSUME NEW a \in Address
        PROVE  (LET f == flight[<<"geo", a>>] IN
                /\ f.at = "loaded" => f.val \in {Unsure, <<sig>>}
                /\ f.at = "answered" => Stored(f.val))'
    BY <1>3, <1>4, <1>8, <2>2, <2>3, CheckKeys DEF ComingValues, world
  <2>8. ASSUME NEW c \in Check
        PROVE  (LET q == check[c] IN
                /\ q.at = "loaded" => q.val = Unsure \/ q.sig = sig
                /\ q.at = "resolved" => q.val = Unsure \/ (q.sig = sig /\ q.keys = keys)
                /\ q.at = "put" /\ q.key[1] = "geo" => Stored(q.val)
                /\ q.at = "put" /\ q.key[1] = "fraud" => FraudStored(q.val))'
    <3>1. CASE c \notin members
      BY <1>3, <1>5, <2>2, <2>3, <3>1 DEF ComingValues, world
    <3>2. CASE c \in members
      <4>1. check'[c].at = "put" => /\ check'[c].val = val /\ flight[k].at = "answered"
                                    /\ check'[c].key \in ViewsOf(k)
        BY <1>2, <1>5, <3>2, IdleRecord
      <4>2. check'[c].key \in ViewsOf(k) /\ check'[c].key[1] \in {"geo", "fraud"}
              => \E a \in Address : k = <<"geo", a>>
        BY CheckKeys, ViewsOfKeys
      <4>3. check'[c].at \notin {"loaded", "resolved"}
        BY <1>5, <3>2, IdleRecord
      <4>. QED
        BY <2>2, <2>4, <4>1, <4>2, <4>3, CheckValues
    <3>. QED
      BY <3>1, <3>2
  <2>9. ComingValues'
    BY <2>7, <2>8 DEF ComingValues
  <2>. QED
    BY <2>6, <2>9
<1>. QED
  BY <1>9, <1>10, <1>11, <1>12, <1>13 DEF CheckInv

LEMMA PutViewKeeps ==
  ASSUME CheckInv, NEW c \in Check, PutView(c)
  PROVE  CheckInv'
<1>1. ChecksShape /\ FlightInv /\ RequestInv /\ ExitValues /\ LookupValues
  BY DEF CheckInv
<1>. DEFINE key == check[c].key
            val == check[c].val
<1>2. check[c].at = "put" /\ key \in ViewKey /\ val \in Seq(Nat)
  BY <1>1 DEF PutView, RequestInv, ChecksShape, RequestRecord
<1>3. /\ UNCHANGED <<world, geoCache, checker, flight>>
      /\ view' = [view EXCEPT ![key] = val] /\ check' = [check EXCEPT ![c] = IdleCheck]
  BY DEF PutView
<1>4. /\ check'[c] = IdleCheck /\ \A d \in Check : d # c => check'[d] = check[d]
      /\ \A k \in ViewKey : view'[k] = IF k = key THEN val ELSE view[k]
  BY <1>1, <1>3 DEF ChecksShape
<1>5. ChecksShape'
  BY <1>1, <1>2, <1>3, IdleRecord DEF ChecksShape, world
<1>6. FlightInv'
  BY <1>1, <1>2, <1>3, <1>4 DEF FlightInv
<1>7. RequestInv'
  BY <1>1, <1>4, IdleRecord DEF RequestInv
<1>8. ExitValues'
  <2>1. ASSUME NEW l \in Listener, NEW kind \in {"exit", "edge"}
        PROVE  /\ OfRoute(l, flight[<<"exit", l>>].val)' /\ OfRoute(l, view[<<kind, l>>])'
               /\ \A d \in Check : check[d].key' = <<kind, l>> => OfRoute(l, check[d].val)'
    <3>1. \A v : OfRoute(l, v)' <=> OfRoute(l, v)
      BY <1>3 DEF OfRoute, world
    <3>2. <<kind, l>> \in ViewKey
      BY CheckKeys
    <3>3. OfRoute(l, view'[<<kind, l>>])
      <4>1. CASE key = <<kind, l>>
        BY <1>1, <1>4, <3>2, <4>1 DEF ExitValues
      <4>2. CASE key # <<kind, l>>
        BY <1>1, <1>4, <3>2, <4>2 DEF ExitValues
      <4>. QED
        BY <4>1, <4>2
    <3>4. \A d \in Check : check'[d].key = <<kind, l>> => OfRoute(l, check'[d].val)
      BY <1>1, <1>4, <3>2, CheckKeys, IdleRecord DEF ExitValues
    <3>. QED
      BY <1>1, <1>3, <3>1, <3>3, <3>4 DEF ExitValues
  <2>. QED
    BY <2>1 DEF ExitValues
<1>9. LookupValues'
  <2>1. SUFFICES ASSUME Calm PROVE KeptValues' /\ ComingValues'
    BY <1>3 DEF LookupValues, Calm, world
  <2>2. \A v : (Stored(v)' <=> Stored(v)) /\ (FraudStored(v)' <=> FraudStored(v))
    BY <1>3 DEF Stored, FraudStored, Unsupported, world
  <2>3. KeptValues /\ ComingValues
    BY <1>1, <2>1 DEF LookupValues
  <2>4. KeptValues'
    <3>1. (key[1] = "geo" => Stored(val)) /\ (key[1] = "fraud" => FraudStored(val))
      BY <1>2, <2>3 DEF ComingValues
    <3>2. \A a \in Address : Stored(view'[<<"geo", a>>]) /\ FraudStored(view'[<<"fraud", a>>])
      <4>1. ASSUME NEW a \in Address, NEW kind \in {"geo", "fraud"}
            PROVE  /\ kind = "geo" => Stored(view'[<<kind, a>>])
                   /\ kind = "fraud" => FraudStored(view'[<<kind, a>>])
        <5>1. <<kind, a>> \in ViewKey /\ <<kind, a>>[1] = kind
          BY CheckKeys
        <5>2. CASE key = <<kind, a>>
          BY <1>4, <3>1, <5>1, <5>2
        <5>3. CASE key # <<kind, a>>
          BY <1>4, <2>3, <5>1, <5>3 DEF KeptValues
        <5>. QED
          BY <5>2, <5>3
      <4>. QED
        BY <4>1
    <3>. QED
      BY <1>3, <2>2, <2>3, <3>2 DEF KeptValues
  <2>5. ComingValues'
    BY <1>3, <1>4, <2>2, <2>3, IdleRecord DEF ComingValues, world
  <2>. QED
    BY <2>4, <2>5
<1>. QED
  BY <1>5, <1>6, <1>7, <1>8, <1>9 DEF CheckInv

LEMMA LapseKeeps ==
  ASSUME CheckInv, Lapse
  PROVE  CheckInv'
<1>1. ChecksShape /\ FlightInv /\ RequestInv /\ ExitValues /\ LookupValues
  BY DEF CheckInv
<1>2. /\ UNCHANGED <<world, checker, flight, check>>
      /\ view' \in [ViewKey -> Seq(Nat)] /\ geoCache' \in [Address -> Seq(Nat)]
      /\ \A k \in ViewKey : view'[k] \in {Absent, view[k]}
      /\ \A a \in Address : geoCache'[a] \in {Absent, geoCache[a]}
  <2>1. UNCHANGED <<world, checker, flight, check>>
    BY DEF Lapse
  <2>2. ASSUME NEW k \in ViewKey, view' = [view EXCEPT ![k] = Absent], UNCHANGED geoCache
        PROVE  /\ view' \in [ViewKey -> Seq(Nat)] /\ geoCache' \in [Address -> Seq(Nat)]
               /\ \A j \in ViewKey : view'[j] \in {Absent, view[j]}
               /\ \A a \in Address : geoCache'[a] \in {Absent, geoCache[a]}
    BY <1>1, <2>2, CheckValues DEF ChecksShape
  <2>3. ASSUME NEW b \in Address, geoCache' = [geoCache EXCEPT ![b] = Absent], UNCHANGED view
        PROVE  /\ view' \in [ViewKey -> Seq(Nat)] /\ geoCache' \in [Address -> Seq(Nat)]
               /\ \A j \in ViewKey : view'[j] \in {Absent, view[j]}
               /\ \A a \in Address : geoCache'[a] \in {Absent, geoCache[a]}
    BY <1>1, <2>3, CheckValues DEF ChecksShape
  <2>. QED
    BY <2>1, <2>2, <2>3 DEF Lapse
<1>3. ChecksShape' /\ FlightInv' /\ RequestInv'
  BY <1>1, <1>2 DEF ChecksShape, FlightInv, RequestInv, world
<1>4. ExitValues'
  <2>1. ASSUME NEW l \in Listener, NEW kind \in {"exit", "edge"}
        PROVE  /\ OfRoute(l, flight[<<"exit", l>>].val)' /\ OfRoute(l, view[<<kind, l>>])'
               /\ \A d \in Check : check[d].key' = <<kind, l>> => OfRoute(l, check[d].val)'
    <3>1. \A v : OfRoute(l, v)' <=> OfRoute(l, v)
      BY <1>2 DEF OfRoute, world
    <3>2. OfRoute(l, view'[<<kind, l>>])
      BY <1>1, <1>2, CheckKeys, CheckValues DEF ExitValues
    <3>. QED
      BY <1>1, <1>2, <3>1, <3>2 DEF ExitValues
  <2>. QED
    BY <2>1 DEF ExitValues
<1>5. LookupValues'
  <2>1. SUFFICES ASSUME Calm PROVE KeptValues' /\ ComingValues'
    BY <1>2 DEF LookupValues, Calm, world
  <2>2. \A v : (Stored(v)' <=> Stored(v)) /\ (FraudStored(v)' <=> FraudStored(v))
    BY <1>2 DEF Stored, FraudStored, Unsupported, world
  <2>3. KeptValues'
    BY <1>1, <1>2, <2>1, <2>2, CheckKeys, CheckValues DEF LookupValues, KeptValues
  <2>4. ComingValues'
    BY <1>1, <1>2, <2>1, <2>2 DEF LookupValues, ComingValues, world
  <2>. QED
    BY <2>3, <2>4
<1>. QED
  BY <1>3, <1>4, <1>5 DEF CheckInv

LEMMA ChecksStutter ==
  ASSUME CheckInv, UNCHANGED checkVars
  PROVE  CheckInv'
<1>. UNCHANGED <<caches, flight, check>> /\ UNCHANGED world
  BY DEF checkVars, caches, world
<1>. \A l \in Listener : \A val : OfRoute(l, val) => OfRoute(l, val)'
  BY DEF OfRoute, world
<1>. QED
  BY WorldOfChecks DEF CheckInv, ChecksShape, world, Calm

LEMMA CheckInvHolds == ChecksSpec => []CheckInv
<1>1. CheckInv /\ [ChecksNext]_checkVars => CheckInv'
  <2>. SUFFICES ASSUME CheckInv, ChecksNext PROVE CheckInv'
    BY ChecksStutter
  <2>1. ASSUME NEW c \in Check,
               \/ \E l \in Listener : AskExit(c, l)
               \/ \E a \in Address : AskGeo(c, a) \/ AskFraud(c, a)
               \/ Canary(c) \/ PutView(c) \/ ResolveKeys(c) \/ KeysUnresolved(c)
               \/ UseChecker(c) \/ CheckFails(c)
        PROVE  CheckInv'
    BY <2>1, AskExitKeeps, AskGeoKeeps, AskFraudKeeps, CanaryKeeps, PutViewKeeps, ResolveKeeps,
       KeysUnresolvedKeeps, UseCheckerKeeps, CheckFailsKeeps
  <2>2. ASSUME NEW l \in Listener, Probe(l) \/ LeaseRoute(l) \/ AfterRouteChange(l)
        PROVE  CheckInv'
    BY <2>2, ProbeKeeps, WorldSteps, ClearKeeps
  <2>3. ASSUME NEW a \in Address, LoadGeo(a) PROVE CheckInv'
    BY <2>3, LoadGeoKeeps
  <2>4. ASSUME NEW k \in FlightKey, EndFlight(k) PROVE CheckInv'
    BY <2>4, EndFlightKeeps
  <2>5. CASE SaveKeys \/ UpdateRefused \/ SaveDocument \/ NativeSaved \/ Reconciled
    BY <2>5, WorldSteps
  <2>6. CASE ClearDerived
    BY <2>6, ClearKeeps
  <2>7. CASE Lapse
    BY <2>7, LapseKeeps
  <2>. QED
    BY <2>1, <2>2, <2>3, <2>4, <2>5, <2>6, <2>7 DEF ChecksNext
<1>. QED
  BY <1>1, ChecksStart, PTL DEF ChecksSpec

\* What the view of a listener says of its exit is about the route the listener
\* has, unless a clear found the check on its way, is still to come, or saved
\* settings are not applied (lease_route.go:102, runtime_settings.go:87).
THEOREM ViewsAreOfRoute == ChecksSpec => []ViewIsOfRoute
<1>1. CheckInv => ViewIsOfRoute
  BY DEF CheckInv, ExitValues, OfRoute, ViewIsOfRoute
<1>. QED
  BY <1>1, CheckInvHolds, PTL

\* Lookups that are kept, and the checker, come from the settings and the keys
\* that are stored, with the exceptions that LookupsAreCurrent names; where a
\* fraud check is said to be unsupported, from the settings that are stored
\* (runtime_settings.go:87-94, proxy_ip_fraud.go:22-28).
THEOREM KeptLookupsCurrent == ChecksSpec => []LookupsAreCurrent
<1>1. CheckInv => LookupsAreCurrent
  BY DEF CheckInv, LookupValues, Calm, KeptValues, Stored, FraudStored, LookupsAreCurrent
<1>. QED
  BY <1>1, CheckInvHolds, PTL

\* Versions grow from 1, one at a time.
VersionTypes ==
  /\ route \in [Listener -> 1..(MaxChanges + 1)] /\ sig \in Nat \ {0} /\ keys \in Nat \ {0}
  /\ saving \in {"none", "keys", "saved", "native"}

LEMMA VersionsStep == ASSUME VersionTypes, [ChecksNext]_checkVars PROVE VersionTypes'
<1>. USE ChecksAssumption DEF VersionTypes
<1>1. CASE UNCHANGED <<route, sig, keys, saving>>
  BY <1>1
<1>2. ASSUME NEW c \in Check,
             \/ \E l \in Listener : AskExit(c, l)
             \/ \E a \in Address : AskGeo(c, a) \/ AskFraud(c, a)
             \/ Canary(c) \/ PutView(c) \/ ResolveKeys(c) \/ KeysUnresolved(c)
             \/ UseChecker(c) \/ CheckFails(c)
      PROVE  UNCHANGED <<route, sig, keys, saving>>
  BY <1>2 DEF AskExit, AskGeo, AskFraud, Canary, PutView, ResolveKeys, KeysUnresolved, UseChecker,
     CheckFails, world
<1>3. ASSUME NEW l \in Listener, Probe(l) \/ AfterRouteChange(l)
      PROVE  UNCHANGED <<route, sig, keys, saving>>
  BY <1>3 DEF Probe, AfterRouteChange, world
<1>4. ASSUME NEW l \in Listener, RoomForChange(l) PROVE route[l] + 1 \in 1..(MaxChanges + 1)
  <2>1. route[l] \in Nat \ {0}
    OBVIOUS
  <2>. QED
    BY <1>4, <2>1 DEF RoomForChange
<1>5. ASSUME NEW l \in Listener, LeaseRoute(l) PROVE VersionTypes'
  BY <1>4, <1>5 DEF LeaseRoute
<1>6. CASE Reconciled
  <2>1. PICK changed \in {{}} \cup {{l} : l \in {x \in Listener : RoomForChange(x)}} :
          route' = [l \in Listener |-> IF l \in changed THEN route[l] + 1 ELSE route[l]]
    BY <1>6 DEF Reconciled
  <2>2. \A l \in changed : l \in Listener /\ RoomForChange(l)
    BY <2>1
  <2>. QED
    BY <1>4, <1>6, <2>1, <2>2 DEF Reconciled
<1>7. CASE SaveKeys \/ UpdateRefused \/ SaveDocument \/ NativeSaved \/ ClearDerived
  BY <1>7 DEF SaveKeys, UpdateRefused, SaveDocument, NativeSaved, ClearDerived
<1>8. CASE Lapse \/ (\E a \in Address : LoadGeo(a)) \/ (\E k \in FlightKey : EndFlight(k))
  BY <1>1, <1>8 DEF Lapse, LoadGeo, EndFlight, world
<1>9. CASE UNCHANGED checkVars
  BY <1>9 DEF checkVars
<1>. QED
  BY <1>1, <1>2, <1>3, <1>5, <1>6, <1>7, <1>8, <1>9 DEF ChecksNext

\* Requests and the calls they join are at one of their places.
THEOREM ChecksTypeCorrect == ChecksSpec => []ChecksTypeOK
<1>1. ChecksInit => VersionTypes
  BY ChecksAssumption DEF ChecksInit, VersionTypes
<1>2. VersionTypes /\ [ChecksNext]_checkVars => VersionTypes'
  BY VersionsStep
<1>3. CheckInv /\ VersionTypes => ChecksTypeOK
  BY DEF CheckInv, ChecksShape, RequestRecord, RequestPlace, VersionTypes, ChecksTypeOK
<1>. QED
  BY <1>1, <1>2, <1>3, CheckInvHolds, PTL DEF ChecksSpec
=============================================================================
