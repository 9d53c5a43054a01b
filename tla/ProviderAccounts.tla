-------------------------- MODULE ProviderAccounts --------------------------
(***************************************************************************)
(* The provider accounts (internal/app/provider/application and the        *)
(* account tables of internal/app/store): updates and deletions by the     *)
(* operator beside the leases that use an account's credential.            *)
(*                                                                         *)
(* An acquisition works under the account's lock, from reading the         *)
(* credential to saving the lease. So does the deletion, from listing the  *)
(* leases to deleting the account, but an update takes no lock. The locks  *)
(* exclude each other here; RuntimeLock says when they do not.             *)
(*                                                                         *)
(* Provider, dynamic provider and user name of an account are treated      *)
(* alike and are one value here, `user'. The sessions of every registered  *)
(* provider are names the gateway makes up (accountproxy): ending a lease  *)
(* does not ask the provider. A secret is kept under a fixed id.           *)
(***************************************************************************)
EXTENDS Naturals

CONSTANTS
  ProviderAccount, AccountLease,
  LeaseAccount,     \* LeaseAccount[l] = the account lease l is acquired from
  AccountUpdate,    \* calls of UpsertProxyProviderAccount
  AccountRequests,  \* what they ask: [user, password, clear, on], "" is nothing
  FirstRow, FirstSecret,  \* the accounts at the beginning
  NoRow, NoHolder

AccountRow == [user : STRING, pass : BOOLEAN, on : BOOLEAN]
AccountAsk == [user : STRING, password : STRING, clear : BOOLEAN, on : BOOLEAN]

ASSUME AccountsAssumption ==
  /\ LeaseAccount \in [AccountLease -> ProviderAccount]
  /\ NoHolder \notin AccountLease \cup ProviderAccount
  /\ AccountLease \cap ProviderAccount = {}
  /\ AccountRequests \subseteq AccountAsk /\ NoRow \notin AccountRow
  /\ FirstRow \in [ProviderAccount -> AccountRow \cup {NoRow}]
  /\ FirstSecret \in [ProviderAccount -> STRING]

VARIABLES
  row,       \* row[a]: [user, pass, on], pass when it names the secret; or NoRow
  secret,    \* secret[a]: the password kept under the account's secret id
  lease,     \* lease[l]: none, asking, active, pending (FAILED, not cleaned), ended
  overdue,   \* leases whose time is over
  accountLock, \* accountLock[a]: the lease or the deletion that holds it
  update,    \* update[u]: idle, compare, accepted, read, written, ended
  target,    \* target[u]: its account, its request and the row it read
  deletion,  \* deletion[a]: none, waiting, deleting, releasing
  listed,    \* listed[a]: the leases the deletion releases
  used,      \* HISTORY: used[l] = the credential l was acquired with
  exposed    \* HISTORY: leases during whose acquisition an update was under way

accountVars == <<row, secret, lease, overdue, accountLock, update, target,
                 deletion, listed, used, exposed>>
leasing  == <<lease, overdue, used>>
updating == <<update, target>>
removing == <<deletion, listed>>

-----------------------------------------------------------------------------
LeasesOf(a) == {l \in AccountLease : LeaseAccount[l] = a}

\* A lease that keeps an account from changes: ACTIVE and not expired, or
\* FAILED with its cleanup pending. An expired one the sweep has not reached
\* does not.
BlockingIfActive(l) == lease[l] = "active" /\ l \notin overdue
Blocking(l) == BlockingIfActive(l) \/ lease[l] = "pending"

BlockingLeases(a) == {l \in LeasesOf(a) : Blocking(l)}

PasswordOf(r, a) == IF r.pass THEN secret[a] ELSE ""

\* What a provider's configuration needs: a name and a password.
Valid(r, a) == r.user # "" /\ PasswordOf(r, a) # ""

\* The credential nodes are made of.
Credential(a) == IF row[a] = NoRow THEN NoRow
                 ELSE [user |-> row[a].user, password |-> PasswordOf(row[a], a)]

UnderWay == {u \in AccountUpdate : update[u] \notin {"idle", "ended"}}
UpdatesOf(a) == {u \in UnderWay : target[u].account = a}

-----------------------------------------------------------------------------
(* Leases.                                                                *)

\* Under the lock: ProviderConfig, of an account that exists, is enabled and
\* valid.
BeginLease(l) ==
  LET a == LeaseAccount[l] IN
  /\ lease[l] = "none" /\ accountLock[a] = NoHolder
  /\ row[a] # NoRow /\ row[a].on /\ Valid(row[a], a)
  /\ accountLock' = [accountLock EXCEPT ![a] = l]
  /\ lease' = [lease EXCEPT ![l] = "asking"]
  /\ used' = [used EXCEPT ![l] = Credential(a)]
  /\ exposed' = IF UpdatesOf(a) = {} THEN exposed ELSE exposed \cup {l}
  /\ UNCHANGED <<row, secret, overdue, updating, removing>>

\* The lease is saved ACTIVE, or it failed: cleaned up, or saved as FAILED with
\* its cleanup pending.
SaveLease(l) ==
  /\ lease[l] = "asking"
  /\ \E s \in {"active", "pending", "ended"} : lease' = [lease EXCEPT ![l] = s]
  /\ accountLock' = [accountLock EXCEPT ![LeaseAccount[l]] = NoHolder]
  /\ UNCHANGED <<row, secret, overdue, updating, removing, used, exposed>>

Expire(l) ==
  /\ lease[l] = "active" /\ l \notin overdue /\ overdue' = overdue \cup {l}
  /\ UNCHANGED <<row, secret, lease, accountLock, updating, removing, used, exposed>>

\* A release, the sweep, a cleanup or the deletion of the account ends a
\* lease, or its route cannot be deleted and the cleanup stays pending.
EndLease(l) ==
  /\ lease[l] \in {"active", "pending"}
  /\ \E s \in {"pending", "ended"} : lease' = [lease EXCEPT ![l] = s]
  /\ UNCHANGED <<row, secret, overdue, accountLock, updating, removing, used, exposed>>

-----------------------------------------------------------------------------
(* UpsertProxyProviderAccount.                                            *)

\* Is a lease in the way? Then the request is compared with the row.
CheckLeases(u) ==
  /\ update[u] = "idle"
  /\ \E a \in ProviderAccount, r \in AccountRequests :
       /\ target' = [target EXCEPT ![u] = [account |-> a, ask |-> r, found |-> NoRow]]
       /\ update' = [update EXCEPT ![u] =
            IF BlockingLeases(a) = {} THEN "accepted" ELSE "compare"]
       /\ exposed' = exposed \cup {l \in LeasesOf(a) : lease[l] = "asking"}
  /\ UNCHANGED <<row, secret, leasing, accountLock, removing>>

\* With a lease in the way no other user and no password may be given. An
\* account that is gone meanwhile refuses nothing.
OtherUserRefused(r, ask) == ask.user \notin {"", r.user}
Refused(r, ask) == OtherUserRefused(r, ask) \/ ask.clear \/ ask.password # ""

CompareRow(u) ==
  LET r == row[target[u].account] IN
  /\ update[u] = "compare"
  /\ update' = [update EXCEPT ![u] =
       IF r # NoRow /\ Refused(r, target[u].ask) THEN "ended" ELSE "accepted"]
  /\ UNCHANGED <<row, secret, leasing, accountLock, target, removing, exposed>>

ReadRow(u) ==
  /\ update[u] = "accepted"
  /\ target' = [target EXCEPT ![u].found = row[target[u].account]]
  /\ update' = [update EXCEPT ![u] = "read"]
  /\ UNCHANGED <<row, secret, leasing, accountLock, removing, exposed>>

\* The password is written before the row is known to be valid.
WritePassword(u) ==
  /\ update[u] = "read" /\ target[u].ask.password # ""
  /\ secret' = [secret EXCEPT ![target[u].account] = target[u].ask.password]
  /\ update' = [update EXCEPT ![u] = "written"]
  /\ UNCHANGED <<row, leasing, accountLock, target, removing, exposed>>

\* What the request leaves out is taken from the row that was read.
NewRow(found, ask) ==
  [user |-> IF ask.user # "" \/ found = NoRow THEN ask.user ELSE found.user,
   pass |-> ask.password # "" \/ (found # NoRow /\ found.pass /\ ~ask.clear),
   on   |-> ask.on]

\* An enabled account must be valid; a row deleted meanwhile is inserted anew.
WriteRow(u) ==
  LET a == target[u].account
      r == NewRow(target[u].found, target[u].ask)
  IN /\ \/ update[u] = "written"
        \/ update[u] = "read" /\ target[u].ask.password = ""
     /\ IF r.on /\ ~Valid(r, a) THEN UNCHANGED row ELSE row' = [row EXCEPT ![a] = r]
     /\ update' = [update EXCEPT ![u] = "ended"]
     /\ UNCHANGED <<secret, leasing, accountLock, target, removing, exposed>>

-----------------------------------------------------------------------------
(* DeleteProxyProviderAccount answers at once; a goroutine does the work.  *)

BeginDelete(a) ==
  /\ deletion[a] = "none" /\ row[a] # NoRow
  /\ deletion' = [deletion EXCEPT ![a] = "waiting"]
  /\ UNCHANGED <<row, secret, leasing, accountLock, updating, listed, exposed>>

\* Under the lock: the leases in the way are listed. With none the account is
\* deleted in the same hold of the lock, else they are released without it.
Unlocked(a) == [accountLock EXCEPT ![a] = NoHolder]
KeptLocked(a) == [accountLock EXCEPT ![a] = a]

ListLeases(a) ==
  /\ deletion[a] = "waiting" /\ accountLock[a] = NoHolder
  /\ IF BlockingLeases(a) = {}
     THEN /\ deletion' = [deletion EXCEPT ![a] = "deleting"]
          /\ accountLock' = KeptLocked(a)
          /\ UNCHANGED listed
     ELSE /\ deletion' = [deletion EXCEPT ![a] = "releasing"]
          /\ listed' = [listed EXCEPT ![a] = BlockingLeases(a)]
          /\ UNCHANGED accountLock
  /\ UNCHANGED <<row, secret, leasing, updating, exposed>>

\* The secret stays.
DeleteRow(a) ==
  /\ deletion[a] = "deleting"
  /\ row' = [row EXCEPT ![a] = NoRow]
  /\ deletion' = [deletion EXCEPT ![a] = "none"]
  /\ accountLock' = Unlocked(a)
  /\ UNCHANGED <<secret, leasing, updating, listed, exposed>>

\* All leases it listed have ended (EndLease): it looks again.
ListAgain(a) ==
  /\ deletion[a] = "releasing" /\ \A l \in listed[a] : lease[l] = "ended"
  /\ deletion' = [deletion EXCEPT ![a] = "waiting"]
  /\ UNCHANGED <<row, secret, leasing, accountLock, updating, listed, exposed>>

\* A release failed or two minutes are over: nobody hears of it.
GiveUpDelete(a) ==
  /\ deletion[a] # "none"
  /\ deletion' = [deletion EXCEPT ![a] = "none"]
  /\ accountLock' = IF accountLock[a] = a THEN Unlocked(a) ELSE accountLock
  /\ UNCHANGED <<row, secret, leasing, updating, listed, exposed>>

\* The service is started again: its locks lapse, calls and goroutines are
\* gone, and an acquisition that was not saved left nothing.
RestartAccounts ==
  /\ lease' = [l \in AccountLease |-> IF lease[l] = "asking" THEN "ended" ELSE lease[l]]
  /\ update' = [u \in AccountUpdate |-> IF u \in UnderWay THEN "ended" ELSE update[u]]
  /\ deletion' = [a \in ProviderAccount |-> "none"]
  /\ accountLock' = [a \in ProviderAccount |-> NoHolder]
  /\ UNCHANGED <<row, secret, overdue, target, listed, used, exposed>>

-----------------------------------------------------------------------------
AccountsInit ==
  /\ row = FirstRow /\ secret = FirstSecret
  /\ lease = [l \in AccountLease |-> "none"] /\ overdue = {}
  /\ accountLock = [a \in ProviderAccount |-> NoHolder]
  /\ update = [u \in AccountUpdate |-> "idle"]
  /\ target = [u \in AccountUpdate |-> NoRow]
  /\ deletion = [a \in ProviderAccount |-> "none"]
  /\ listed = [a \in ProviderAccount |-> {}]
  /\ used = [l \in AccountLease |-> NoRow] /\ exposed = {}

AccountsNext ==
  \/ \E l \in AccountLease : BeginLease(l) \/ SaveLease(l) \/ Expire(l) \/ EndLease(l)
  \/ \E u \in AccountUpdate : CheckLeases(u) \/ CompareRow(u) \/ ReadRow(u)
                              \/ WritePassword(u) \/ WriteRow(u)
  \/ \E a \in ProviderAccount : BeginDelete(a) \/ ListLeases(a) \/ DeleteRow(a)
                                \/ ListAgain(a) \/ GiveUpDelete(a)
  \/ RestartAccounts

AccountsSpec == AccountsInit /\ [][AccountsNext]_accountVars

-----------------------------------------------------------------------------
(* Properties.                                                            *)

AccountsTypeOK ==
  /\ lease \in [AccountLease -> {"none", "asking", "active", "pending", "ended"}]
  /\ overdue \subseteq AccountLease /\ exposed \subseteq AccountLease
  /\ accountLock \in [ProviderAccount -> AccountLease \cup ProviderAccount \cup {NoHolder}]
  /\ update \in [AccountUpdate ->
                  {"idle", "compare", "accepted", "read", "written", "ended"}]
  /\ deletion \in [ProviderAccount -> {"none", "waiting", "deleting", "releasing"}]
  /\ listed \in [ProviderAccount -> SUBSET AccountLease]

\* The account of a lease in service exists, whatever acquisitions, deletions
\* and restarts meet: only once its time is over may the account go before the
\* lease is swept (application.go, deleteProviderAccount). And its credential is
\* still the one the lease was acquired with, so that its route can be restored:
\* only an update that was under way meanwhile can have changed it
\* (rejectActiveProviderAccountRuntimeMutation).
ServedByStoredAccount ==
  \A l \in AccountLease : BlockingIfActive(l) =>
    /\ row[LeaseAccount[l]] # NoRow
    /\ l \notin exposed => Credential(LeaseAccount[l]) = used[l]
=============================================================================
