------------------------------- MODULE Accounts -------------------------------
(***************************************************************************)
(* Users, roles and sessions.                                              *)
(*                                                                         *)
(* A login reads the user in a transaction of its own, verifies the        *)
(* password, records the outcome in another, and opens the session in a    *)
(* third.  Every other request reads and checks first, without a lock, and *)
(* writes when it commits; other requests run in between.  Which password  *)
(* a client presents is left open.                                         *)
(***************************************************************************)
EXTENDS Naturals, FiniteSets

CONSTANTS
    User, Role, Session, Capability,  \* ids
    Owner,          \* the role with this name
    SystemRole,     \* roles seeded with "is_system_role"
    Manage,         \* the capability "user.manage"
    Seeded,         \* the users a run begins with, and the role of each
    Request,        \* requests served at the same time
    Unused          \* an id no row has had yet, or one whose row was deleted

(* Bounds: failures that lock an account (the code's is 5), and requests begun. *)
CONSTANTS MaxFailed, MaxRequests

ASSUME MaxFailedAssumption == MaxFailed \in Nat \ {0}
ASSUME MaxRequestsAssumption == MaxRequests \in Nat
ASSUME RoleAssumption == SystemRole \subseteq Role /\ Owner \in SystemRole

(* The rows of the tables.  Of a fresh session the access and the refresh    *)
(* token are valid, of a stale one the refresh token, of an expired none.    *)
UserRow == [active : BOOLEAN, role : Role, failed : Nat, locked : BOOLEAN]
SessionRow ==
    [user : User, pair : Nat, revoked : BOOLEAN, age : {"fresh", "stale", "expired"}]

ASSUME UnusedAssumption == Unused \notin UserRow /\ Unused \notin SessionRow
ASSUME SeededAssumption ==
    /\ DOMAIN Seeded \subseteq User
    /\ \A u \in DOMAIN Seeded : Seeded[u] \in Role
ASSUME ManageAssumption == Manage \in Capability

VARIABLES
    users,      \* users: active, role, failed logins, locked
    sessions,   \* sessions: user, token pair, revoked, age
    caps,       \* role_capabilities, and how often they were replaced
    override,   \* user_capability_overrides: granted and revoked capabilities
    roles,      \* the roles that exist
    txn,        \* the transaction of each request
    begun,      \* requests begun
    pairs,      \* token pairs issued
    misses      \* history variable: for each user, failures recorded since the last success or unlock

vars == <<users, sessions, caps, override, roles, txn, begun, pairs, misses>>

stored == <<users, sessions, caps, override, roles, pairs, misses>>

IsUser(u) == users[u] # Unused
IsSession(s) == sessions[s] # Unused

ActiveOwners == {u \in User : IsUser(u) /\ users[u].active /\ users[u].role = Owner}

(* A session, and its access token, that requests are admitted with. *)
Admits(s) ==
    /\ IsSession(s)
    /\ ~ sessions[s].revoked
    /\ sessions[s].age = "fresh"
    /\ users[sessions[s].user].active

(* effective = (role_base union granted_overrides) \ revoked_overrides *)
Effective(u) ==
    LET base == IF users[u].role = Owner THEN Capability ELSE caps[users[u].role].set
    IN  (base \cup override[u].granted) \ override[u].revoked

NoTxn == [op |-> "none"]

Idle(r) == txn[r].op = "none"

Begin(r, request) ==
    /\ Idle(r)
    /\ begun < MaxRequests
    /\ begun' = begun + 1
    /\ txn' = [txn EXCEPT ![r] = request]
    /\ UNCHANGED stored

Close(r) ==
    /\ txn' = [txn EXCEPT ![r] = NoTxn]
    /\ begun' = begun

Rollback(r) == ~ Idle(r) /\ Close(r) /\ UNCHANGED stored

(* The sessions of "u" but those in "keep", revoked. *)
RevokedAll(keep, u) ==
    [s \in Session |->
        IF IsSession(s) /\ sessions[s].user = u /\ s \notin keep
        THEN [sessions[s] EXCEPT !.revoked = TRUE] ELSE sessions[s]]

-----------------------------------------------------------------------------
(* Login. *)

FetchUser(r, u) == \E right \in BOOLEAN :
    /\ IsUser(u)
    /\ ~ users[u].locked
    /\ users[u].active
    /\ Begin(r, [op |-> IF right THEN "success" ELSE "failure", user |-> u, seen |-> users[u]])

(* Mutation: the counter is written from the row read before. *)
CountSeen(count, seen) == seen + 1

(* "failed_login_count = failed_login_count + 1" *)
Counted(count, seen) == count + 1

(* The lock is decided from the count read before the password was verified. *)
RecordFailure(r) ==
    LET t == txn[r] IN
    /\ t.op = "failure"
    /\ users' = [users EXCEPT
            ![t.user].failed = Counted(@, t.seen.failed),
            ![t.user].locked = @ \/ t.seen.failed + 1 >= MaxFailed]
    /\ misses' = [misses EXCEPT ![t.user] = @ + 1]
    /\ Close(r)
    /\ UNCHANGED <<sessions, caps, override, roles, pairs>>

Cleared(u) == [users EXCEPT ![u].failed = 0, ![u].locked = FALSE]

RecordSuccess(r) ==
    LET t == txn[r] IN
    /\ t.op = "success"
    /\ users' = Cleared(t.user)
    /\ misses' = [misses EXCEPT ![t.user] = 0]
    /\ txn' = [txn EXCEPT ![r].op = "session"]
    /\ UNCHANGED <<sessions, caps, override, roles, begun, pairs>>

OpenSession(r) ==
    LET t == txn[r] IN
    /\ t.op = "session"
    /\ \E s \in Session :
        /\ ~ IsSession(s)
        /\ sessions' = [sessions EXCEPT ![s] =
                [user |-> t.user, pair |-> pairs + 1, revoked |-> FALSE, age |-> "fresh"]]
    /\ pairs' = pairs + 1
    /\ users' = Cleared(t.user)
    /\ misses' = [misses EXCEPT ![t.user] = 0]
    /\ Close(r)
    /\ UNCHANGED <<caps, override, roles>>

(* The lock's time has passed; the count stays. *)
LockEnds(u) ==
    /\ IsUser(u)
    /\ users[u].locked
    /\ users' = [users EXCEPT ![u].locked = FALSE]
    /\ UNCHANGED <<sessions, caps, override, roles, txn, begun, pairs, misses>>

-----------------------------------------------------------------------------
(* Sessions. *)

Grow(s) ==
    /\ IsSession(s)
    /\ \E next \in {[fresh |-> "stale", stale |-> "expired"]} :
        /\ sessions[s].age \in DOMAIN next
        /\ sessions' = [sessions EXCEPT ![s].age = next[@]]
    /\ UNCHANGED <<users, caps, override, roles, txn, begun, pairs, misses>>

StartRefresh(r, s) ==
    /\ IsSession(s)
    /\ ~ sessions[s].revoked
    /\ sessions[s].age # "expired"
    /\ Begin(r, [op |-> "refresh", session |-> s, pair |-> sessions[s].pair])

(* Mutation: the rotation writes the session anew. *)
Renewed(row, pair) == [row EXCEPT !.pair = pair, !.age = "fresh", !.revoked = FALSE]

(* "rotate": new tokens and new expiries, by the id of the session. *)
Rotated(row, pair) == [row EXCEPT !.pair = pair, !.age = "fresh"]

CommitRefresh(r) ==
    LET t == txn[r] IN
    /\ t.op = "refresh"
    /\ sessions' = [sessions EXCEPT ![t.session] = Rotated(@, pairs + 1)]
    /\ pairs' = pairs + 1
    /\ Close(r)
    /\ UNCHANGED <<users, caps, override, roles, misses>>

StartLogout(r, s) == Admits(s) /\ Begin(r, [op |-> "logout", session |-> s])

CommitLogout(r) ==
    /\ txn[r].op = "logout"
    /\ sessions' = [sessions EXCEPT ![txn[r].session].revoked = TRUE]
    /\ Close(r)
    /\ UNCHANGED <<users, caps, override, roles, pairs, misses>>

(* Every session of the caller but the current one. *)
StartLogoutAll(r, s) ==
    /\ Admits(s)
    /\ Manage \in Effective(sessions[s].user)
    /\ Begin(r, [op |-> "logout_all", session |-> s])

CommitLogoutAll(r) ==
    /\ txn[r].op = "logout_all"
    /\ sessions' = RevokedAll({txn[r].session}, sessions[txn[r].session].user)
    /\ Close(r)
    /\ UNCHANGED <<users, caps, override, roles, pairs, misses>>

-----------------------------------------------------------------------------
(* Users. *)

StartCreateUser(r, role) == role \in roles /\ Begin(r, [op |-> "create_user", role |-> role])

CommitCreateUser(r) ==
    LET t == txn[r] IN
    /\ t.op = "create_user"
    /\ t.role \in roles
    /\ \E u \in User :
        /\ ~ IsUser(u)
        /\ users' = [users EXCEPT ![u] =
                [active |-> TRUE, role |-> t.role, failed |-> 0, locked |-> FALSE]]
    /\ Close(r)
    /\ UNCHANGED <<sessions, caps, override, roles, pairs, misses>>

StartEditUser(r, u) ==
    /\ IsUser(u)
    /\ \/ \E active \in BOOLEAN : Begin(r, [op |-> "edit_user", user |-> u, active |-> active])
       \/ \E role \in roles : Begin(r, [op |-> "edit_user", user |-> u, role |-> role])

CommitEditUser(r) ==
    LET t == txn[r] IN
    /\ t.op = "edit_user"
    /\ \/ /\ "active" \in DOMAIN t
          /\ users' = [users EXCEPT ![t.user].active = t.active]
       \/ /\ "role" \in DOMAIN t
          /\ t.role \in roles
          /\ users' = [users EXCEPT ![t.user].role = t.role]
    /\ Close(r)
    /\ UNCHANGED <<sessions, caps, override, roles, pairs, misses>>

StartDeactivate(r, u) ==
    /\ IsUser(u)
    /\ u \in ActiveOwners => Cardinality(ActiveOwners) > 1
    /\ Begin(r, [op |-> "deactivate", user |-> u])

CommitDeactivate(r) ==
    LET t == txn[r] IN
    /\ t.op = "deactivate"
    /\ users' = [users EXCEPT ![t.user].active = FALSE]
    /\ sessions' = RevokedAll({}, t.user)
    /\ Close(r)
    /\ UNCHANGED <<caps, override, roles, pairs, misses>>

StartReset(r, u) == IsUser(u) /\ Begin(r, [op |-> "reset", user |-> u])

(* The new password itself is not modelled. *)
CommitReset(r) ==
    /\ txn[r].op = "reset"
    /\ sessions' = RevokedAll({}, txn[r].user)
    /\ Close(r)
    /\ UNCHANGED <<users, caps, override, roles, pairs, misses>>

StartUnlock(r, u) == IsUser(u) /\ Begin(r, [op |-> "unlock", user |-> u])

CommitUnlock(r) ==
    LET u == txn[r].user IN
    /\ txn[r].op = "unlock"
    /\ users' = Cleared(u)
    /\ misses' = [misses EXCEPT ![u] = 0]
    /\ Close(r)
    /\ UNCHANGED <<sessions, caps, override, roles, pairs>>

StartGrant(r, u, c) == \E granted \in BOOLEAN :
    IsUser(u) /\ Begin(r, [op |-> "grant", user |-> u, cap |-> c, granted |-> granted])

CommitGrant(r) ==
    LET t == txn[r] IN
    /\ t.op = "grant"
    /\ override' = [override EXCEPT
            ![t.user].granted = IF t.granted THEN @ \cup {t.cap} ELSE @ \ {t.cap},
            ![t.user].revoked = IF t.granted THEN @ \ {t.cap} ELSE @ \cup {t.cap}]
    /\ Close(r)
    /\ UNCHANGED <<users, sessions, caps, roles, pairs, misses>>

StartRevoke(r, u, c) == IsUser(u) /\ Begin(r, [op |-> "revoke", user |-> u, cap |-> c])

CommitRevoke(r) ==
    LET t == txn[r] IN
    /\ t.op = "revoke"
    /\ t.cap \in override[t.user].granted \cup override[t.user].revoked
    /\ override' = [override EXCEPT ![t.user].granted = @ \ {t.cap}, ![t.user].revoked = @ \ {t.cap}]
    /\ Close(r)
    /\ UNCHANGED <<users, sessions, caps, roles, pairs, misses>>

-----------------------------------------------------------------------------
(* Roles. *)

StartCreateRole(r) == Begin(r, [op |-> "create_role"])

CommitCreateRole(r) ==
    /\ txn[r].op = "create_role"
    /\ \E role \in Role \ roles :
        /\ caps[role].puts = 0
        /\ roles' = roles \cup {role}
    /\ Close(r)
    /\ UNCHANGED <<users, sessions, caps, override, pairs, misses>>

UsersOf(role) == {u \in User : IsUser(u) /\ users[u].role = role}

StartDeleteRole(r, role) ==
    /\ role \in roles \ SystemRole
    /\ UsersOf(role) = {}
    /\ Begin(r, [op |-> "delete_role", role |-> role])

(* Mutation: the count made before is all there is. *)
NeverHeld(role) == FALSE

(* ON DELETE RESTRICT of fk_users_role *)
RoleHeld(role) == UsersOf(role) # {}

CommitDeleteRole(r) ==
    LET role == txn[r].role IN
    /\ txn[r].op = "delete_role"
    /\ role \in roles
    /\ ~ RoleHeld(role)
    /\ roles' = roles \ {role}
    /\ caps' = [caps EXCEPT ![role] = [set |-> {}, puts |-> @.puts + 1]]
    /\ Close(r)
    /\ UNCHANGED <<users, sessions, override, pairs, misses>>

(* The rows a replacement is about to delete are those it sees as it starts. *)
StartPutCapabilities(r, role) == \E set \in SUBSET Capability :
    /\ role \in roles \ SystemRole
    /\ Begin(r, [op |-> "put", role |-> role, set |-> set, puts |-> caps[role].puts])

(* Rows inserted by another replacement since then are not deleted. *)
CommitPutCapabilities(r) ==
    LET t == txn[r] IN
    /\ t.op = "put"
    /\ t.role \in roles
    /\ caps' = [caps EXCEPT ![t.role] =
            [set |-> IF @.puts = t.puts THEN t.set ELSE @.set \cup t.set, puts |-> @.puts + 1]]
    /\ Close(r)
    /\ UNCHANGED <<users, sessions, override, roles, pairs, misses>>

-----------------------------------------------------------------------------
Logins(r) ==
    \/ \E u \in User : FetchUser(r, u)
    \/ RecordFailure(r) \/ RecordSuccess(r) \/ OpenSession(r)

Sessions(r) ==
    \/ \E s \in Session : StartRefresh(r, s) \/ StartLogout(r, s) \/ StartLogoutAll(r, s)
    \/ CommitRefresh(r) \/ CommitLogout(r) \/ CommitLogoutAll(r)

UserAdministration(r) ==
    \/ \E role \in Role : StartCreateUser(r, role)
    \/ \E u \in User : StartEditUser(r, u) \/ StartDeactivate(r, u) \/ StartReset(r, u) \/ StartUnlock(r, u)
    \/ \E u \in User, c \in Capability : StartGrant(r, u, c) \/ StartRevoke(r, u, c)
    \/ CommitCreateUser(r) \/ CommitEditUser(r) \/ CommitDeactivate(r) \/ CommitReset(r)
    \/ CommitUnlock(r) \/ CommitGrant(r) \/ CommitRevoke(r)

RoleAdministration(r) ==
    \/ StartCreateRole(r)
    \/ \E role \in Role : StartDeleteRole(r, role) \/ StartPutCapabilities(r, role)
    \/ CommitCreateRole(r) \/ CommitDeleteRole(r) \/ CommitPutCapabilities(r)

Next ==
    \/ \E r \in Request :
        Logins(r) \/ Sessions(r) \/ UserAdministration(r) \/ RoleAdministration(r) \/ Rollback(r)
    \/ \E u \in User : LockEnds(u)
    \/ \E s \in Session : Grow(s)

(* The seeded roles, and the users a run begins with. *)
Init ==
    /\ users = [u \in User |->
            IF u \in DOMAIN Seeded
            THEN [active |-> TRUE, role |-> Seeded[u], failed |-> 0, locked |-> FALSE]
            ELSE Unused]
    /\ sessions = [s \in Session |-> Unused]
    /\ roles = {Seeded[u] : u \in DOMAIN Seeded} \cup SystemRole
    /\ caps = [role \in Role |-> [set |-> {}, puts |-> 0]]
    /\ override = [u \in User |-> [granted |-> {}, revoked |-> {}]]
    /\ txn = [r \in Request |-> NoTxn]
    /\ begun = 0
    /\ pairs = 0
    /\ misses = [u \in User |-> 0]

Spec == Init /\ [][Next]_vars

-----------------------------------------------------------------------------
TypeOK ==
    /\ users \in [User -> UserRow \cup {Unused}]
    /\ sessions \in [Session -> SessionRow \cup {Unused}]
    /\ \A s \in Session : IsSession(s) => sessions[s].pair \in 1 .. pairs
    /\ caps \in [Role -> [set : SUBSET Capability, puts : Nat]]
    /\ override \in [User -> [granted : SUBSET Capability, revoked : SUBSET Capability]]
    /\ roles \subseteq Role
    /\ begun \in 0 .. MaxRequests

(* A session that was ended stays ended, although a refresh that read it     *)
(* before may rotate its tokens afterwards; and ending the sessions of a     *)
(* user, by deactivation or a new password, ends all that had begun.         *)
RevokedForGood ==
    [][ /\ \A s \in Session : IsSession(s) /\ sessions[s].revoked => sessions'[s].revoked
        /\ \A r \in Request, s \in Session :
            /\ txn[r].op \in {"deactivate", "reset"}
            /\ sessions' # sessions
            /\ txn'[r].op = "none"
            /\ IsSession(s)
            /\ sessions[s].user = txn[r].user
            => sessions'[s].revoked ]_vars

(* Every user has a role that exists, and the roles of the system stay,      *)
(* although the deletion of a role counts its users before it deletes.       *)
RolesKept ==
    /\ SystemRole \subseteq roles
    /\ \A u \in User : IsUser(u) => users[u].role \in roles

(* Failed logins of one user running together are all counted, and a login   *)
(* that succeeds between them starts the count again.                        *)
FailuresCounted == \A u \in User : IsUser(u) => users[u].failed = misses[u]

(* An account is locked only after the failures that lock it. *)
LockNeedsFailures ==
    \A u \in User : IsUser(u) /\ users[u].locked => users[u].failed >= MaxFailed

(* The last active owner stays. *)
LastOwnerStays == ActiveOwners # {}

(* A refresh replaces the pair its client presented. *)
ReplacesItsOwnPair ==
    [][ \A r \in Request : txn[r].op = "refresh" /\ pairs' # pairs /\ txn'[r].op = "none"
            => sessions[txn[r].session].pair = txn[r].pair ]_vars

(* The capabilities of a role are the set the last replacement was given. *)
CapabilitiesAsPut ==
    [][ \A r \in Request : txn[r].op = "put" /\ caps' # caps /\ txn'[r].op = "none"
            => caps'[txn[r].role].set = txn[r].set ]_vars

=============================================================================
