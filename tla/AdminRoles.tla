------------------------------ MODULE AdminRoles ------------------------------
(***************************************************************************)
(* The administration of roles: an administrator's mutations, the two jobs *)
(* that give roles, and the sign-ins that put a user's roles into tokens,  *)
(* one SQL statement per action at READ COMMITTED.                         *)
(*                                                                         *)
(* A session stands here for the roles in the access token issued with its *)
(* refresh token: `live'[u] holds those role sets.  A refresh revokes one  *)
(* session and issues another under the lock an issue takes, so an         *)
(* "issue" stands for both; which sessions a refresh ends is Sessions.     *)
(*                                                                         *)
(* Locks, as in Sessions: writer, forUpdate and share on "User" rows,      *)
(* roleRow[r] on the Role row an upsert rewrites, key[u][r] on the UserRole *)
(* row (or unique-index entry) a request has written and not committed.    *)
(* The inserts and updates of one statement that wait for several locks    *)
(* take them together.                                                     *)
(***************************************************************************)
EXTENDS Integers, FiniteSets

CONSTANTS User, Role, None,
          AdminRole,    \* temis:admin
          DefaultRole,  \* the role of the configured default client policy
          Proc,         \* requests and jobs in flight at the same time
          Kinds,        \* bound: the kinds of request that arrive
          Statuses      \* bound: the statuses users are given

Kind == {"issue", "setStatus", "assign", "remove", "revokeSessions",
         "bootstrap", "backfill"}

\* Kinds an administrator asks for over HTTP.
Administrative == {"setStatus", "assign", "remove", "revokeSessions"}

Status == {"ACTIVE", "PENDING_EMAIL_VERIFICATION", "SUSPENDED", "DELETED"}
Barred == {"SUSPENDED", "DELETED"}

ASSUME RoleAssumption ==
  /\ {AdminRole, DefaultRole} \subseteq Role /\ AdminRole # DefaultRole
  /\ None \notin User \cup Role \cup Proc \cup Kind \cup Status
ASSUME BoundAssumption == Kinds \subseteq Kind /\ Statuses \subseteq Status

VARIABLES status,  \* status[u]: committed "User".status
          roles,   \* roles[u]: roles with a committed UserRole row of u
          live,    \* live[u]: what the tokens of u's live sessions carry
          audited, \* audited[u]: how many roles u has by the AuditLog rows
                   \* ever committed, beside those at the start and of the backfill
          pc, req,
          ws,      \* what each open transaction has written
          writer, forUpdate, share, roleRow, key

store == <<status, roles, live, audited>>
locks == <<writer, forUpdate, share, roleRow, key>>
vars == <<store, pc, req, ws, locks>>

PC == {"idle", "authorize", "update", "upsert", "give", "take", "lock", "revoke",
       "audit", "commit", "lockActive", "readRoles", "find", "snapshot", "fill"}

Request == [kind: Kind \cup {None}, actor: User \cup {None}, user: User \cup {None},
            role: Role \cup {None}, status: Status \cup {None}]

NoRequest == [kind |-> None, actor |-> None, user |-> None, role |-> None,
              status |-> None]

\* given, taken: roles of the request's user; ended: sessions revoked; opened:
\* the session to be; filled: users given the default role by the backfill.
Writes == [status: Status \cup {None}, given: SUBSET Role, taken: SUBSET Role,
           ended: SUBSET SUBSET Role, opened: SUBSET SUBSET Role,
           audit: {"none", "written"}, filled: SUBSET User]

NoWrites == [status |-> None, given |-> {}, taken |-> {}, ended |-> {},
             opened |-> {}, audit |-> "none", filled |-> {}]

TypeOK ==
  /\ status \in [User -> Status]
  /\ roles \in [User -> SUBSET Role]
  /\ live \in [User -> SUBSET SUBSET Role]
  /\ audited \in [User -> Int]
  /\ pc \in [Proc -> PC]
  /\ req \in [Proc -> Request]
  /\ ws \in [Proc -> Writes]
  /\ writer \in [User -> Proc \cup {None}]
  /\ forUpdate \in SUBSET User
  /\ share \in [User -> SUBSET Proc]
  /\ roleRow \in [Role -> Proc \cup {None}]
  /\ key \in [User -> [Role -> Proc \cup {None}]]

Init ==
  /\ status \in [User -> Statuses]
  /\ roles \in [User -> {{}, {AdminRole}}]
  /\ live = [u \in User |-> {}]
  /\ audited = [u \in User |-> Cardinality(roles[u])]
  /\ pc = [p \in Proc |-> "idle"]
  /\ req = [p \in Proc |-> NoRequest]
  /\ ws = [p \in Proc |-> NoWrites]
  /\ writer = [u \in User |-> None]
  /\ forUpdate = {}
  /\ share = [u \in User |-> {}]
  /\ roleRow = [r \in Role |-> None]
  /\ key = [u \in User |-> [r \in Role |-> None]]
-----------------------------------------------------------------------------
At(p, label) == pc[p] = label
Goto(p, label) == pc' = [pc EXCEPT ![p] = label]

CanUpdate(p, u) == writer[u] \in {None, p}
CanShare(p, u) == u \in forUpdate => writer[u] = p
KeyFree(p, u, r) == key[u][r] \in {None, p}

TakeForUpdate(p, u) ==
  /\ CanUpdate(p, u) /\ share[u] \subseteq {p}
  /\ writer' = [writer EXCEPT ![u] = p]
  /\ forUpdate' = forUpdate \cup {u}
  /\ UNCHANGED <<share, roleRow, key>>

ReleaseLocks(p) ==
  /\ writer' = [u \in User |-> IF writer[u] = p THEN None ELSE writer[u]]
  /\ forUpdate' = {u \in forUpdate : writer[u] # p}
  /\ share' = [u \in User |-> share[u] \ {p}]
  /\ roleRow' = [r \in Role |-> IF roleRow[r] = p THEN None ELSE roleRow[r]]
  /\ key' = [u \in User |->
               [r \in Role |-> IF key[u][r] = p THEN None ELSE key[u][r]]]
  /\ ws' = [ws EXCEPT ![p] = NoWrites]

EndRequest(p) ==
  /\ Goto(p, "idle")
  /\ req' = [req EXCEPT ![p] = NoRequest]

Rollback(p) == ReleaseLocks(p) /\ EndRequest(p) /\ UNCHANGED store

ActiveAdmin(u) == status[u] = "ACTIVE" /\ AdminRole \in roles[u]
ActiveAdmins == {u \in User : ActiveAdmin(u)}
-----------------------------------------------------------------------------
(* Requests arrive; an administrator's is authorized on its own connection. *)

\* The first statement of the callback, where a retry begins again.
FirstStatement(kind) ==
  CASE kind = "issue"          -> "lockActive"
    [] kind = "setStatus"      -> "update"
    [] kind = "assign"         -> "upsert"
    [] kind = "remove"         -> "take"
    [] kind = "revokeSessions" -> "lock"
    [] kind = "bootstrap"      -> "find"
    [] kind = "backfill"       -> "snapshot"

Arrive(p, r) ==
  /\ At(p, "idle")
  /\ r.kind \in Kinds
  /\ req' = [req EXCEPT ![p] = r]
  /\ Goto(p, IF r.kind \in Administrative THEN "authorize"
                                          ELSE FirstStatement(r.kind))
  /\ UNCHANGED <<store, ws, locks>>

StartIssue(p) ==
  \E u \in User : Arrive(p, [NoRequest EXCEPT !.kind = "issue", !.user = u])

\* Any user may ask; an access token outlives a change of its user's roles.
StartSetStatus(p) ==
  \E a, u \in User, s \in Statuses :
    Arrive(p, [NoRequest EXCEPT !.kind = "setStatus", !.actor = a, !.user = u,
                                !.status = s])

StartRoleChange(p) ==
  \E a, u \in User, r \in Role, k \in {"assign", "remove"} :
    Arrive(p, [NoRequest EXCEPT !.kind = k, !.actor = a, !.user = u, !.role = r])

StartRevokeSessions(p) ==
  \E a, u \in User :
    Arrive(p, [NoRequest EXCEPT !.kind = "revokeSessions", !.actor = a, !.user = u])

StartBootstrap(p) ==
  \E u \in User :
    Arrive(p, [NoRequest EXCEPT !.kind = "bootstrap", !.user = u, !.role = AdminRole])

StartBackfill(p) == Arrive(p, [NoRequest EXCEPT !.kind = "backfill", !.role = DefaultRole])

\* Mutant: remove_role lacks its check of the actor's own admin role.
SelfRemovalAllowed(r) ==
  \/ r.actor # r.user
  \/ r.kind = "setStatus" /\ r.status \notin Barred
  \/ r.kind \in {"assign", "remove"}

\* assert_self_*_allowed: what administrators may not do to themselves.
SelfAllowed(r) ==
  \/ r.actor # r.user
  \/ r.kind = "setStatus" /\ r.status \notin Barred
  \/ r.kind = "assign"
  \/ r.kind = "remove" /\ r.role # AdminRole

\* authorize_admin reads committed rows and gives its connection back.  For
\* a denial only an audit row that names no role is written.
Authorize(p) ==
  /\ At(p, "authorize")
  /\ IF ActiveAdmin(req[p].actor) /\ SelfAllowed(req[p])
     THEN Goto(p, FirstStatement(req[p].kind)) /\ UNCHANGED req
     ELSE EndRequest(p)
  /\ UNCHANGED <<store, ws, locks>>
-----------------------------------------------------------------------------
(* The statements of the mutations.                                        *)

UpdateUserStatus(p) ==
  /\ At(p, "update")
  /\ CanUpdate(p, req[p].user)
  /\ writer' = [writer EXCEPT ![req[p].user] = p]
  /\ ws' = [ws EXCEPT ![p].status = req[p].status]
  /\ Goto(p, IF req[p].status \in Barred THEN "lock" ELSE "audit")
  /\ UNCHANGED <<store, req, forUpdate, share, roleRow, key>>

\* find_active_user_by_email: read without a lock.
FindActiveUser(p) ==
  /\ At(p, "find")
  /\ IF status[req[p].user] = "ACTIVE"
     THEN Goto(p, "upsert") /\ UNCHANGED <<req, ws, locks>>
     ELSE ReleaseLocks(p) /\ EndRequest(p)
  /\ UNCHANGED store

\* INSERT ... ON CONFLICT DO UPDATE: the Role row stays locked to the end.
UpsertRole(p) ==
  /\ At(p, "upsert")
  /\ roleRow[req[p].role] \in {None, p}
  /\ roleRow' = [roleRow EXCEPT ![req[p].role] = p]
  /\ Goto(p, "give")
  /\ UNCHANGED <<store, req, ws, writer, forUpdate, share, key>>

\* INSERT INTO "UserRole" ... ON CONFLICT DO NOTHING, rowcount one: its
\* foreign key locks the user FOR KEY SHARE.
GiveRole(p) ==
  /\ At(p, "give")
  /\ LET u == req[p].user
         r == req[p].role
     IN /\ KeyFree(p, u, r)
        /\ r \notin roles[u]
        /\ CanShare(p, u)
        /\ key' = [key EXCEPT ![u][r] = p]
        /\ share' = [share EXCEPT ![u] = @ \cup {p}]
        /\ ws' = [ws EXCEPT ![p].given = {r}]
  /\ Goto(p, IF req[p].kind = "assign" THEN "audit" ELSE "lock")
  /\ UNCHANGED <<store, req, writer, forUpdate, roleRow>>

\* ... and rowcount zero.  The bootstrap goes on as if it had assigned.
AlreadyGiven(p) ==
  /\ At(p, "give")
  /\ KeyFree(p, req[p].user, req[p].role)
  /\ req[p].role \in roles[req[p].user]
  /\ Goto(p, IF req[p].kind = "assign" THEN "commit" ELSE "lock")
  /\ UNCHANGED <<store, req, ws, locks>>

\* DELETE FROM "UserRole", rowcount one ...
TakeRole(p) ==
  /\ At(p, "take")
  /\ LET u == req[p].user
         r == req[p].role
     IN /\ KeyFree(p, u, r)
        /\ r \in roles[u]
        /\ key' = [key EXCEPT ![u][r] = p]
        /\ ws' = [ws EXCEPT ![p].taken = {r}]
  /\ Goto(p, "lock")
  /\ UNCHANGED <<store, req, writer, forUpdate, share, roleRow>>

\* ... and rowcount zero.
NothingTaken(p) ==
  /\ At(p, "take")
  /\ KeyFree(p, req[p].user, req[p].role)
  /\ req[p].role \notin roles[req[p].user]
  /\ Goto(p, "commit")
  /\ UNCHANGED <<store, req, ws, locks>>

\* Mutant: revoke_all_refresh_tokens_for_user without its lock.
NoLockForRevocation(p) ==
  /\ At(p, "lock")
  /\ Goto(p, "revoke")
  /\ UNCHANGED <<store, req, ws, locks>>

LockUserForRevocation(p) ==
  /\ At(p, "lock")
  /\ TakeForUpdate(p, req[p].user)
  /\ Goto(p, "revoke")
  /\ UNCHANGED <<store, req, ws>>

RevokeTokens(p) ==
  /\ At(p, "revoke")
  /\ ws' = [ws EXCEPT ![p].ended = live[req[p].user]]
  /\ Goto(p, "audit")
  /\ UNCHANGED <<store, req, locks>>

\* INSERT INTO "AuditLog": foreign keys to the user, the target and the actor.
\* Its details (for an assignment over HTTP the route, not the role) and its
\* createdAt (a time before the transaction, so rows are not in commit order)
\* are left out: what a row tells here is its event and its user.
WriteAudit(p) ==
  /\ At(p, "audit")
  /\ LET named == {req[p].user, req[p].actor} \cap User
     IN /\ \A u \in named : CanShare(p, u)
        /\ share' = [u \in User |-> IF u \in named THEN share[u] \cup {p} ELSE share[u]]
  /\ ws' = [ws EXCEPT ![p].audit = "written"]
  /\ Goto(p, "commit")
  /\ UNCHANGED <<store, req, writer, forUpdate, roleRow, key>>
-----------------------------------------------------------------------------
(* Issue of a session, and the backfill of default roles.                  *)

\* Mutant: the user is read without FOR UPDATE.
ReadActiveUser(p) ==
  /\ At(p, "lockActive")
  /\ status[req[p].user] = "ACTIVE"
  /\ Goto(p, "readRoles")
  /\ UNCHANGED <<store, req, ws, locks>>

LockActiveUser(p) ==
  /\ At(p, "lockActive")
  /\ status[req[p].user] = "ACTIVE"
  /\ TakeForUpdate(p, req[p].user)
  /\ Goto(p, "readRoles")
  /\ UNCHANGED <<store, req, ws>>

NoActiveUser(p) ==
  /\ At(p, "lockActive")
  /\ status[req[p].user] # "ACTIVE"
  /\ Rollback(p)

\* _with_roles, then the INSERT of the refresh token.
ReadRoles(p) ==
  /\ At(p, "readRoles")
  /\ ws' = [ws EXCEPT ![p].opened = {roles[req[p].user]}]
  /\ Goto(p, "commit")
  /\ UNCHANGED <<store, req, locks>>

\* SERIALIZABLE: the first INSERT INTO "Role" fixes what the job will see.
TakeSnapshot(p) ==
  /\ At(p, "snapshot")
  /\ \A r \in Role : roleRow[r] \in {None, p}
  /\ ws' = [ws EXCEPT ![p].filled = {u \in User : roles[u] = {}}]
  /\ Goto(p, "fill")
  /\ UNCHANGED <<store, req, locks>>

\* INSERT INTO "UserRole" ... SELECT the roleless, waiting for each of them.
FillRoleless(p) ==
  /\ At(p, "fill")
  /\ \A u \in ws[p].filled :
       KeyFree(p, u, DefaultRole) /\ CanShare(p, u) /\ DefaultRole \notin roles[u]
  /\ key' = [u \in User |-> IF u \in ws[p].filled
                            THEN [key[u] EXCEPT ![DefaultRole] = p] ELSE key[u]]
  /\ share' = [u \in User |-> IF u \in ws[p].filled
                              THEN share[u] \cup {p} ELSE share[u]]
  /\ Goto(p, "commit")
  /\ UNCHANGED <<store, req, ws, writer, forUpdate, roleRow>>
-----------------------------------------------------------------------------
(* Ends of transactions.                                                   *)

\* What p's row adds to the count of its user's roles.  A bootstrap writes one
\* whether or not it gave the role; it counts if the job's result says assigned.
Audits(p) ==
  IF ws[p].audit = "none" THEN 0
  ELSE CASE req[p].kind = "assign"    -> 1
         [] req[p].kind = "bootstrap" -> IF ws[p].given = {} THEN 0 ELSE 1
         [] req[p].kind = "remove"    -> -1
         [] OTHER                     -> 0

Commit(p) ==
  /\ At(p, "commit")
  /\ status' = [u \in User |-> IF u = req[p].user /\ ws[p].status \in Status
                               THEN ws[p].status ELSE status[u]]
  /\ roles' = [u \in User |->
                 (IF u = req[p].user THEN (roles[u] \ ws[p].taken) \cup ws[p].given
                                     ELSE roles[u])
                 \cup (IF u \in ws[p].filled THEN {DefaultRole} ELSE {})]
  /\ live' = [u \in User |-> IF u = req[p].user
                             THEN (live[u] \ ws[p].ended) \cup ws[p].opened
                             ELSE live[u]]
  /\ audited' = [u \in User |-> audited[u] + (IF u = req[p].user THEN Audits(p) ELSE 0)
                                         + (IF u \in ws[p].filled THEN 1 ELSE 0)]
  /\ ReleaseLocks(p)
  /\ EndRequest(p)

\* Mutant: an error of the audit insert is logged and the rest is committed.
FailButKeepRoles(p) ==
  /\ ~At(p, "idle")
  /\ roles' = [roles EXCEPT ![req[p].user] = (@ \ ws[p].taken) \cup ws[p].given]
  /\ ReleaseLocks(p)
  /\ EndRequest(p)
  /\ UNCHANGED <<status, live, audited>>

\* An error or a lost connection anywhere before COMMIT.
Fail(p) ==
  /\ req[p].kind # None
  /\ Rollback(p)

\* A deadlock or a serialization failure: the callback is run again.  The
\* bound of three on its runs is Fail.
Retry(p) ==
  /\ pc[p] \notin {"idle", "authorize"}
  /\ ~At(p, FirstStatement(req[p].kind))
  /\ ReleaseLocks(p)
  /\ Goto(p, FirstStatement(req[p].kind))
  /\ UNCHANGED <<store, req>>
-----------------------------------------------------------------------------
Start(p) ==
  \/ StartIssue(p)
  \/ StartSetStatus(p)
  \/ StartRoleChange(p)
  \/ StartRevokeSessions(p)
  \/ StartBootstrap(p)
  \/ StartBackfill(p)

Statement(p) ==
  \/ Authorize(p)
  \/ UpdateUserStatus(p)
  \/ FindActiveUser(p)
  \/ UpsertRole(p)
  \/ GiveRole(p)
  \/ AlreadyGiven(p)
  \/ TakeRole(p)
  \/ NothingTaken(p)
  \/ LockUserForRevocation(p)
  \/ RevokeTokens(p)
  \/ WriteAudit(p)
  \/ LockActiveUser(p)
  \/ NoActiveUser(p)
  \/ ReadRoles(p)
  \/ TakeSnapshot(p)
  \/ FillRoleless(p)
  \/ Commit(p)

Next == \E p \in Proc : Start(p) \/ Statement(p) \/ Retry(p) \/ Fail(p)

Spec == Init /\ [][Next]_vars
-----------------------------------------------------------------------------
(* The inductive invariant.                                                *)

\* The places of each kind of request.
Places(kind) ==
  CASE kind = "issue"          -> {"lockActive", "readRoles", "commit"}
    [] kind = "setStatus"      -> {"authorize", "update", "lock", "revoke", "audit", "commit"}
    [] kind = "assign"         -> {"authorize", "upsert", "give", "audit", "commit"}
    [] kind = "remove"         -> {"authorize", "take", "lock", "revoke", "audit", "commit"}
    [] kind = "revokeSessions" -> {"authorize", "lock", "revoke", "audit", "commit"}
    [] kind = "bootstrap"      -> {"find", "upsert", "give", "lock", "revoke", "audit", "commit"}
    [] kind = "backfill"       -> {"snapshot", "fill", "commit"}
    [] OTHER                   -> {"idle"}

\* What each kind of request names.
WellFormed(r) ==
  /\ r.kind \in Kind \ {"backfill"} => r.user \in User
  /\ r.kind \in Administrative => r.actor \in User
  /\ r.kind \in {"assign", "remove"} => r.role \in Role
  /\ r.kind = "bootstrap" => r.role = AdminRole
  /\ r.kind = "setStatus" => r.status \in Status

RequestInv(p) ==
  /\ pc[p] \in Places(req[p].kind)
  /\ WellFormed(req[p])
  /\ req[p].kind \in Administrative /\ ~At(p, "authorize") => SelfAllowed(req[p])

\* p holds its user FOR UPDATE.
Holds(p) == writer[req[p].user] = p /\ req[p].user \in forUpdate

\* What p may have written, by its kind and its place.
WritesInv(p) ==
  /\ ws[p].status \in Status =>
       req[p].kind = "setStatus" /\ pc[p] \in {"lock", "revoke", "audit", "commit"}
  /\ ws[p].filled # {} => req[p].kind = "backfill"
  /\ ws[p].given # {} =>
       /\ req[p].kind \in {"assign", "bootstrap"}
       /\ ws[p].given = {req[p].role}
       /\ pc[p] \in {"lock", "revoke", "audit"} \/ ws[p].audit = "written"
  /\ ws[p].taken # {} =>
       /\ req[p].kind = "remove" /\ ws[p].taken = {req[p].role}
       /\ pc[p] \in {"lock", "revoke", "audit"} \/ ws[p].audit = "written"
  /\ req[p].kind = "remove" /\ pc[p] \in {"lock", "revoke", "audit"} => ws[p].taken # {}
  /\ req[p].kind = "assign" /\ At(p, "audit") => ws[p].given # {}
  /\ ws[p].audit = "written" =>
       /\ At(p, "commit")
       /\ req[p].kind = "remove" => ws[p].taken # {}
       /\ req[p].kind = "assign" => ws[p].given # {}
  /\ ws[p].opened # {} => req[p].kind = "issue" /\ At(p, "commit")

\* What the lock on the user protects: nobody else moves their sessions or
\* takes their roles between the statement that read them and the commit.
LockInv(p) ==
  /\ pc[p] \in {"revoke", "readRoles"} => Holds(p)
  /\ ws[p].taken # {} /\ pc[p] \in {"audit", "commit"} =>
       Holds(p) /\ live[req[p].user] \subseteq ws[p].ended
  /\ ws[p].opened # {} =>
       Holds(p) /\ \A carried \in ws[p].opened : carried \subseteq roles[req[p].user]

ForUpdateHeld == \A u \in forUpdate : writer[u] \in Proc

IInv ==
  /\ TypeOK
  /\ ForUpdateHeld
  /\ \A p \in Proc : RequestInv(p) /\ WritesInv(p) /\ LockInv(p)

\* What the row a request wrote protects: a role it gives is still missing at
\* the commit, one it takes is still there.
KeyInv(p) ==
  /\ \A r \in ws[p].given : key[req[p].user][r] = p /\ r \notin roles[req[p].user]
  /\ \A r \in ws[p].taken : key[req[p].user][r] = p /\ r \in roles[req[p].user]
  /\ At(p, "commit") =>
       \A u \in ws[p].filled : key[u][DefaultRole] = p /\ DefaultRole \notin roles[u]
-----------------------------------------------------------------------------
\* No live session was issued with a role its user has since lost: removing a
\* role ends every session that carries it, the one being issued included, so
\* a refresh after a removal never yields the removed role.
LiveSessionsCarryHeldRoles ==
  \A u \in User : \A carried \in live[u] : carried \subseteq roles[u]

\* Assignments and removals of one user's roles that race, fail half-way or run
\* again after a deadlock leave as many rows of each as they changed roles: a
\* role that was not there to take, or was there already, leaves none (but for a
\* bootstrap, see Audits).  The rows name no role over HTTP and are not in commit
\* order: their number, until retention deletes them, is what can be relied on.
RolesMatchAudit == \A u \in User : Cardinality(roles[u]) = audited[u]

\* The last active administrator is never lost to a request of an actor
\* still one at its commit, unless that actor made their own status pending
\* (which assert_self_status_change_allowed lets through): only two requests
\* that overlap, each authorized before the other committed, can do it.
LastAdminFallsOnlyToOverlap ==
  [][ActiveAdmins # {} /\ ActiveAdmins' = {} =>
       \E p \in Proc :
         /\ Commit(p)
         /\ \/ req[p].actor \notin ActiveAdmins
            \/ req[p].kind = "setStatus" /\ req[p].actor = req[p].user]_vars
=============================================================================
