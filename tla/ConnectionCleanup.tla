--------------------------- MODULE ConnectionCleanup ---------------------------
(***************************************************************************)
(* The connections that are closed when the way of a user changes: after   *)
(* an update of the settings by a goroutine of its own, which does not     *)
(* wait for the reconcile that applies them (runtime_settings.go,          *)
(* update_flow.go), and for the playground after a lease's route changed   *)
(* (lease_route.go). Mihomo's controller lists all connections, and those  *)
(* of the user are deleted one by one (mihomonative/connection).           *)
(*                                                                         *)
(* A change of the settings is a number here; which users one changes is   *)
(* told by RuntimeSettings!ChangedUsers.                                   *)
(***************************************************************************)
EXTENDS Integers

CONSTANTS
  User,             \* proxy users
  PlaygroundUsername,
  OfPlayground,     \* the users whose rule leads to the playground's profile
  Connection,
  Closer,           \* requests that close connections
  MaxWays           \* BOUND: changes of one user's settings, and of the lease

ASSUME ConnectionAssumption ==
  OfPlayground \subseteq User /\ MaxWays \in Nat

VARIABLES
  wanted,    \* wanted[u]: the settings stored for a user
  running,   \* running[u]: those that Mihomo runs with
  leaseWay,  \* the session by which the playground leaves
  conn,      \* conn[c]: [user, seen, way, late, spared], or Closed
  closer     \* closer[x]: [at, users, left]

connectionVars == <<wanted, running, leaseWay, conn, closer>>

Closed == [user |-> "", seen |-> "", way |-> <<0, 0>>, late |-> FALSE, spared |-> FALSE]
IdleCloser == [at |-> "idle", users |-> {}, left |-> {}]

WayBy(settings, u) == <<settings[u], IF u \in OfPlayground THEN leaseWay ELSE 0>>
Open == {c \in Connection : conn[c] # Closed}

ConnectionsInit ==
  /\ wanted = [u \in User |-> 0] /\ running = wanted /\ leaseWay = 0
  /\ conn = [c \in Connection |-> Closed]
  /\ closer = [x \in Closer |-> IdleCloser]

-----------------------------------------------------------------------------
(* Connections come and go. Mihomo names the user in the connection's       *)
(* metadata, or as the payload of the rule that took it.                    *)

Connect(c, u) ==
  /\ conn[c] = Closed
  /\ \E seen \in {"inboundUser", "rulePayload"} :
       conn' = [conn EXCEPT ![c] = [user |-> u, seen |-> seen, way |-> WayBy(running, u),
                                    late |-> running[u] # wanted[u], spared |-> FALSE]]
  /\ UNCHANGED <<wanted, running, leaseWay, closer>>

Disconnect(c) ==
  /\ conn[c] # Closed
  /\ conn' = [conn EXCEPT ![c] = Closed]
  /\ closer' = [x \in Closer |-> [closer[x] EXCEPT !.left = @ \ {c}]]
  /\ UNCHANGED <<wanted, running, leaseWay>>

ByMetadata(c, users) == conn[c].seen = "inboundUser" /\ conn[c].user \in users
OfUsers(c, users) == conn[c].user \in users

-----------------------------------------------------------------------------
(* An update.                                                             *)

SaveChange(x, u) ==
  /\ closer[x].at = "idle" /\ wanted[u] < MaxWays
  /\ wanted' = [wanted EXCEPT ![u] = @ + 1]
  /\ closer' = [closer EXCEPT ![x] = [at |-> "saved", users |-> {u}, left |-> {}]]
  /\ UNCHANGED <<running, leaseWay, conn>>

\* The reconcile is asked for and the goroutine started.
StartCleanup(x) ==
  /\ closer[x].at = "saved"
  /\ closer' = [closer EXCEPT ![x].at = "list"]
  /\ UNCHANGED <<wanted, running, leaseWay, conn>>

\* Those that are left alone when a cleanup ends early.
Spare(cs) == conn' = [c \in Connection |-> IF c \in cs \cap Open THEN [conn[c] EXCEPT !.spared = TRUE] ELSE conn[c]]
Matched(x) == {c \in Open : OfUsers(c, closer[x].users)}

\* The settings cannot be read again: nobody is disconnected.
CompareAgainFails(x) ==
  /\ closer[x].at = "saved"
  /\ Spare(Matched(x))
  /\ closer' = [closer EXCEPT ![x] = IdleCloser]
  /\ UNCHANGED <<wanted, running, leaseWay>>

\* A reconcile applies what is stored, whenever it comes.
ApplyWays ==
  /\ running # wanted
  /\ running' = wanted
  /\ UNCHANGED <<wanted, leaseWay, conn, closer>>

\* A lease of the playground is acquired, replaced or retired: the driver has
\* applied its route, then the connections of the fixed user name are closed.
ChangeLease(x) ==
  /\ closer[x].at = "idle" /\ leaseWay < MaxWays
  /\ leaseWay' = leaseWay + 1
  /\ closer' = [closer EXCEPT ![x] = [at |-> "list", users |-> {PlaygroundUsername}, left |-> {}]]
  /\ UNCHANGED <<wanted, running, conn>>

-----------------------------------------------------------------------------
(* The cleanup.                                                           *)

ListSome(x) ==
  /\ closer[x].at = "list"
  /\ closer' = [closer EXCEPT ![x].at = "delete",
       ![x].left = {c \in Open : ByMetadata(c, closer[x].users)}]
  /\ UNCHANGED <<wanted, running, leaseWay, conn>>

ListConnections(x) ==
  /\ closer[x].at = "list"
  /\ closer' = [closer EXCEPT ![x].at = "delete", ![x].left = Matched(x)]
  /\ UNCHANGED <<wanted, running, leaseWay, conn>>

\* One is deleted, or that fails and the next one is tried. (One that ended
\* meanwhile is not there to be deleted: Disconnect takes it off the list,
\* since ids are used again here and are not in Mihomo.)
DeleteConnection(x, c) ==
  /\ closer[x].at = "delete" /\ c \in closer[x].left
  /\ \/ conn' = [conn EXCEPT ![c] = Closed]
        /\ closer' = [y \in Closer |-> [closer[y] EXCEPT !.left = @ \ {c}]]
     \/ Spare({c})
        /\ closer' = [closer EXCEPT ![x].left = @ \ {c}]
  /\ UNCHANGED <<wanted, running, leaseWay>>

FinishCleanup(x) ==
  /\ closer[x].at = "delete" /\ closer[x].left = {}
  /\ closer' = [closer EXCEPT ![x] = IdleCloser]
  /\ UNCHANGED <<wanted, running, leaseWay, conn>>

\* The list fails, or the time is over: the rest stays open, which is logged.
AbandonCleanup(x) ==
  /\ closer[x].at \in {"list", "delete"}
  /\ Spare(IF closer[x].at = "list" THEN Matched(x) ELSE closer[x].left)
  /\ closer' = [closer EXCEPT ![x] = IdleCloser]
  /\ UNCHANGED <<wanted, running, leaseWay>>

\* The gateway's end is Mihomo's and that of every connection.
RestartBoth ==
  /\ running' = wanted
  /\ conn' = [c \in Connection |-> Closed]
  /\ closer' = [x \in Closer |-> IdleCloser]
  /\ UNCHANGED <<wanted, leaseWay>>

ConnectionsNext ==
  \/ \E c \in Connection : Disconnect(c) \/ \E u \in User : Connect(c, u)
  \/ \E x \in Closer :
       \/ \E u \in User : SaveChange(x, u)
       \/ StartCleanup(x) \/ CompareAgainFails(x) \/ ChangeLease(x)
       \/ ListConnections(x) \/ FinishCleanup(x) \/ AbandonCleanup(x)
       \/ \E c \in Connection : DeleteConnection(x, c)
  \/ ApplyWays \/ RestartBoth

ConnectionsSpec == ConnectionsInit /\ [][ConnectionsNext]_connectionVars

-----------------------------------------------------------------------------
(* Properties.                                                            *)

ConnectionsTypeOK ==
  /\ wanted \in [User -> 0..MaxWays] /\ running \in [User -> 0..MaxWays]
  /\ leaseWay \in 0..MaxWays
  /\ \A c \in Open : conn[c].user \in User
  /\ \A x \in Closer : /\ closer[x].at \in {"idle", "saved", "list", "delete"}
                       /\ closer[x].left \subseteq Connection

Closing(c) ==
  \E x \in Closer : \/ closer[x].at \in {"saved", "list"} /\ conn[c].user \in closer[x].users
                    \/ c \in closer[x].left

\* A connection that goes on by a way its user no longer has is about to be
\* closed, or it was opened on that way after the settings had changed and
\* before they were applied, or a step of a cleanup failed, or it is of the
\* playground and its user has another name than the fixed one
\* (runtime_settings.go:75-85, connection.go:43-66, lease_route.go:107-123).
OldWayExplained ==
  \A c \in Open :
    conn[c].way # WayBy(wanted, conn[c].user) =>
      \/ Closing(c) \/ conn[c].late \/ conn[c].spared
      \/ conn[c].user \in OfPlayground \ {PlaygroundUsername}
=============================================================================
