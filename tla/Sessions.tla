------------------------------ MODULE Sessions ------------------------------
(***************************************************************************)
(* The requests that create, rotate, revoke and delete refresh tokens, one *)
(* SQL statement per action, as PostgreSQL runs them at READ COMMITTED.    *)
(*                                                                         *)
(* A process p is one request in one server process (several FastAPI or    *)
(* ops processes share the database).  Its uncommitted writes are ws[p];   *)
(* Commit applies them to the committed `status' and `row' and releases    *)
(* its locks.  A statement that must wait for a row lock is an action that *)
(* is not enabled; when it runs it re-evaluates its WHERE clause on the    *)
(* committed row, as READ COMMITTED does after a wait.                     *)
(*                                                                         *)
(* Locks: writer[u] holds "User" row u FOR NO KEY UPDATE, and FOR UPDATE   *)
(* if u is in forUpdate; share[u] hold it FOR KEY SHARE (the foreign-key   *)
(* check of an audit row); rowLock[t] is the writer of token row t.        *)
(***************************************************************************)
EXTENDS SessionStore, Naturals, FiniteSets

CONSTANTS Proc,        \* requests in flight at the same time
          Admin,       \* users holding the temis:admin role
          MaxAttempts, \* Database.transaction: max_attempts
          Kinds,       \* bound: the kinds of request that arrive
          Statuses     \* bound: the statuses users are given

Kind == {"issue", "rotate", "logout", "setStatus", "revokeSessions", "cleanup"}

ASSUME ProcAssumption == None \notin Proc \cup Kind
ASSUME AdminAssumption == Admin \subseteq User
ASSUME BoundAssumption == Kinds \subseteq Kind /\ Statuses \subseteq Status
ASSUME AttemptsAssumption == MaxAttempts \in Nat \ {0}

VARIABLES pc,        \* the next statement of each request
          req,       \* what the request asks, and what it has read
          ws,        \* uncommitted writes
          todo,      \* rows a multi-row statement has still to visit
          attempt,   \* which run of the transaction callback this is
          writer, forUpdate, share, rowLock

locks == <<writer, forUpdate, share, rowLock>>
vars == <<status, row, expired, pc, req, ws, todo, attempt, locks>>

PC == {"idle", "read", "lockActive", "revoke", "insert", "update", "lockAny",
       "snapshot", "rows", "audit", "commit", "logout"}

Request == [kind: Kind \cup {None}, actor: User \cup {None},
            user: User \cup {None}, token: Token \cup {None},
            fresh: BOOLEAN, status: Status \cup {None}]

NoRequest == [kind |-> None, actor |-> None, user |-> None, token |-> None,
              fresh |-> FALSE, status |-> None]

Writes == [status: Status \cup {None}, inserted: SUBSET Token, ended: SUBSET Token]

NoWrites == [status |-> None, inserted |-> {}, ended |-> {}]

TypeOK ==
  /\ StoreTypeOK
  /\ pc \in [Proc -> PC]
  /\ req \in [Proc -> Request]
  /\ ws \in [Proc -> Writes]
  /\ todo \in [Proc -> SUBSET Token]
  /\ attempt \in [Proc -> 1..MaxAttempts]
  /\ writer \in [User -> Proc \cup {None}]
  /\ forUpdate \in SUBSET User
  /\ share \in [User -> SUBSET Proc]
  /\ rowLock \in [Token -> Proc \cup {None}]

Init ==
  /\ StoreInit
  /\ status \in [User -> Statuses]
  /\ pc = [p \in Proc |-> "idle"]
  /\ req = [p \in Proc |-> NoRequest]
  /\ ws = [p \in Proc |-> NoWrites]
  /\ todo = [p \in Proc |-> {}]
  /\ attempt = [p \in Proc |-> 1]
  /\ writer = [u \in User |-> None]
  /\ forUpdate = {}
  /\ share = [u \in User |-> {}]
  /\ rowLock = [t \in Token |-> None]
-----------------------------------------------------------------------------
(* Row locks.                                                              *)

CanUpdate(p, u) == writer[u] \in {None, p}

CanLock(p, u) == CanUpdate(p, u) /\ share[u] \subseteq {p}

CanShare(p, u) == u \in forUpdate => writer[u] = p

RowFree(p, t) == rowLock[t] \in {None, p}

TakeForUpdate(p, u) ==
  /\ CanLock(p, u)
  /\ writer' = [writer EXCEPT ![u] = p]
  /\ forUpdate' = forUpdate \cup {u}
  /\ UNCHANGED <<share, rowLock>>

\* The end of a transaction, either way: its locks go, its writes are dropped.
EndTransaction(p) ==
  /\ writer' = [u \in User |-> IF writer[u] = p THEN None ELSE writer[u]]
  /\ forUpdate' = {u \in forUpdate : writer[u] # p}
  /\ share' = [u \in User |-> share[u] \ {p}]
  /\ rowLock' = [t \in Token |-> IF rowLock[t] = p THEN None ELSE rowLock[t]]
  /\ ws' = [ws EXCEPT ![p] = NoWrites]
  /\ todo' = [todo EXCEPT ![p] = {}]

EndRequest(p) ==
  /\ pc' = [pc EXCEPT ![p] = "idle"]
  /\ req' = [req EXCEPT ![p] = NoRequest]
  /\ attempt' = [attempt EXCEPT ![p] = 1]

\* The request ends having written nothing: an early return, an exception
\* raised inside the callback, or a lost connection.
Rollback(p) ==
  /\ EndTransaction(p)
  /\ EndRequest(p)
  /\ UNCHANGED storeVars

At(p, label) == pc[p] = label
Goto(p, label) == pc' = [pc EXCEPT ![p] = label]
-----------------------------------------------------------------------------
(* Requests arrive.                                                        *)

FirstStatement(kind) ==
  CASE kind = "issue"          -> "lockActive"
    [] kind = "rotate"         -> "read"
    [] kind = "logout"         -> "logout"
    [] kind = "setStatus"      -> "update"
    [] kind = "revokeSessions" -> "lockAny"
    [] kind = "cleanup"        -> "snapshot"

Arrive(p, r) ==
  /\ At(p, "idle")
  /\ r.kind \in Kinds
  /\ req' = [req EXCEPT ![p] = r]
  /\ Goto(p, FirstStatement(r.kind))
  /\ UNCHANGED <<storeVars, ws, todo, attempt, locks>>

\* Bound: a request that inserts arrives only while Token can hold its row.
TokensLeft ==
  Cardinality({t \in Token : row[t].state = "unused"})
    > Cardinality({q \in Proc : req[q].kind \in {"issue", "rotate"}})

StartIssue(p) ==
  /\ TokensLeft
  /\ \E u \in User : Arrive(p, [NoRequest EXCEPT !.kind = "issue", !.user = u])

\* `now' is read before the transaction, so the expiry test of the rotation
\* speaks of this moment: fresh.
StartRefresh(p) ==
  \E t \in Token :
    /\ TokensLeft
    /\ row[t].state # "unused"
    /\ Arrive(p, [NoRequest EXCEPT !.kind = "rotate", !.token = t,
                                   !.fresh = t \notin expired])

StartLogout(p) ==
  \E t \in Token :
    /\ row[t].state # "unused"
    /\ Arrive(p, [NoRequest EXCEPT !.kind = "logout", !.token = t])

\* The administrator is authorized on another connection, before the mutation.
StartSetStatus(p) ==
  \E actor \in Admin, u \in User, s \in Statuses :
    /\ status[actor] = "ACTIVE"
    /\ ~(actor = u /\ s \in Barred)
    /\ Arrive(p, [NoRequest EXCEPT !.kind = "setStatus", !.actor = actor,
                                   !.user = u, !.status = s])

StartRevokeSessions(p) ==
  \E actor \in Admin, u \in User :
    /\ status[actor] = "ACTIVE"
    /\ actor # u
    /\ Arrive(p, [NoRequest EXCEPT !.kind = "revokeSessions",
                                   !.actor = actor, !.user = u])

StartCleanup(p) == Arrive(p, [NoRequest EXCEPT !.kind = "cleanup"])
-----------------------------------------------------------------------------
(* Issue and rotate.                                                       *)

\* Mutant: the read locks the token row, ahead of the user row.
ReadTokenLocking(p) ==
  /\ At(p, "read")
  /\ row[req[p].token].state # "deleted"
  /\ RowFree(p, req[p].token)
  /\ rowLock' = [rowLock EXCEPT ![req[p].token] = p]
  /\ req' = [req EXCEPT ![p].user = row[req[p].token].user]
  /\ Goto(p, "lockActive")
  /\ UNCHANGED <<storeVars, ws, todo, attempt, writer, forUpdate, share>>

\* rotate: the unlocked read of the presented token's owner.
ReadToken(p) ==
  /\ At(p, "read")
  /\ row[req[p].token].state # "deleted"
  /\ req' = [req EXCEPT ![p].user = row[req[p].token].user]
  /\ Goto(p, "lockActive")
  /\ UNCHANGED <<storeVars, ws, todo, attempt, locks>>

ReadNoToken(p) ==
  /\ At(p, "read")
  /\ row[req[p].token].state = "deleted"
  /\ Rollback(p)

\* Mutant: the status is read without FOR UPDATE.
ReadActiveUser(p) ==
  /\ At(p, "lockActive")
  /\ status[req[p].user] = "ACTIVE"
  /\ Goto(p, IF req[p].kind = "rotate" THEN "revoke" ELSE "insert")
  /\ UNCHANGED <<storeVars, req, ws, todo, attempt, locks>>

\* Mutant: the lock is taken whatever the status.
LockUserOfAnyStatus(p) ==
  /\ At(p, "lockActive")
  /\ TakeForUpdate(p, req[p].user)
  /\ Goto(p, IF req[p].kind = "rotate" THEN "revoke" ELSE "insert")
  /\ UNCHANGED <<storeVars, req, ws, todo, attempt>>

\* SELECT ... WHERE id AND status = ACTIVE FOR UPDATE.
LockActiveUser(p) ==
  /\ At(p, "lockActive")
  /\ status[req[p].user] = "ACTIVE"
  /\ TakeForUpdate(p, req[p].user)
  /\ Goto(p, IF req[p].kind = "rotate" THEN "revoke" ELSE "insert")
  /\ UNCHANGED <<storeVars, req, ws, todo, attempt>>

NoActiveUser(p) ==
  /\ At(p, "lockActive")
  /\ status[req[p].user] # "ACTIVE"
  /\ Rollback(p)

\* Mutant: the UPDATE lacks its revokedAt IS NULL.
RedeemableAnyState(p) == req[p].fresh

Redeemable(p) == row[req[p].token].state = "live" /\ req[p].fresh

\* The conditional revoke of rotate, rowcount one ...
RevokePresented(p) ==
  /\ At(p, "revoke")
  /\ Redeemable(p)
  /\ RowFree(p, req[p].token)
  /\ rowLock' = [rowLock EXCEPT ![req[p].token] = p]
  /\ ws' = [ws EXCEPT ![p].ended = {req[p].token}]
  /\ Goto(p, "insert")
  /\ UNCHANGED <<storeVars, req, todo, attempt, writer, forUpdate, share>>

\* ... and rowcount zero: RefreshRotationConflict.
RotationConflict(p) ==
  /\ At(p, "revoke")
  /\ ~Redeemable(p)
  /\ Rollback(p)

InsertToken(p) ==
  /\ At(p, "insert")
  /\ \E n \in Token :
       /\ row[n].state = "unused"
       /\ \A q \in Proc : n \notin ws[q].inserted
       /\ ws' = [ws EXCEPT ![p].inserted = {n}]
  /\ Goto(p, "commit")
  /\ UNCHANGED <<storeVars, req, todo, attempt, locks>>

\* Logout is two autocommitted statements; the first only names the user for
\* the audit row.  The second takes no lock on the user.
Logout(p) ==
  /\ At(p, "logout")
  /\ LET t == req[p].token
     IN \/ /\ row[t].state = "live"
           /\ RowFree(p, t)
           /\ row' = Moved({t}, "revoked")
        \/ /\ row[t].state # "live"
           /\ row' = row
  /\ EndRequest(p)
  /\ UNCHANGED <<status, expired, ws, todo, locks>>
-----------------------------------------------------------------------------
(* Administrator mutations and the retention job.                          *)

\* UPDATE "User" SET status: FOR NO KEY UPDATE on the row.
UpdateUserStatus(p) ==
  /\ At(p, "update")
  /\ CanUpdate(p, req[p].user)
  /\ writer' = [writer EXCEPT ![req[p].user] = p]
  /\ ws' = [ws EXCEPT ![p].status = req[p].status]
  /\ Goto(p, IF req[p].status \in Barred THEN "lockAny" ELSE "audit")
  /\ UNCHANGED <<storeVars, req, todo, attempt, forUpdate, share, rowLock>>

\* Mutant: revoke_all without lock_user.
NoLockForRevocation(p) ==
  /\ At(p, "lockAny")
  /\ Goto(p, "snapshot")
  /\ UNCHANGED <<storeVars, req, ws, todo, attempt, locks>>

LockUserForRevocation(p) ==
  /\ At(p, "lockAny")
  /\ TakeForUpdate(p, req[p].user)
  /\ Goto(p, "snapshot")
  /\ UNCHANGED <<storeVars, req, ws, todo, attempt>>

\* A refresh that found the token unexpired is under way: it cannot last the
\* day or more that lies between an expiry and the retention job's cutoff.  A
\* revoked row is deleted whoever presents it.
InUse(t) == row[t].state = "live" /\ \E q \in Proc : req[q].fresh /\ req[q].token = t

\* Mutant: revoke_all passes over sessions that have expired.
BeginUnexpiredRows(p) ==
  /\ At(p, "snapshot")
  /\ \/ /\ req[p].kind = "cleanup"
        /\ \E S \in SUBSET {t \in Retired : ~InUse(t)} :
             todo' = [todo EXCEPT ![p] = S]
     \/ /\ req[p].kind # "cleanup"
        /\ todo' = [todo EXCEPT ![p] = LiveOf(req[p].user) \ expired]
  /\ Goto(p, "rows")
  /\ UNCHANGED <<storeVars, req, ws, attempt, locks>>

\* A multi-row statement begins: the rows its snapshot shows it.  The cutoff
\* of the retention job takes in any part of the retired rows.
BeginRows(p) ==
  /\ At(p, "snapshot")
  /\ \/ /\ req[p].kind = "cleanup"
        /\ \E S \in SUBSET {t \in Retired : ~InUse(t)} :
             todo' = [todo EXCEPT ![p] = S]
     \/ /\ req[p].kind # "cleanup"
        /\ todo' = [todo EXCEPT ![p] = LiveOf(req[p].user)]
  /\ Goto(p, "rows")
  /\ UNCHANGED <<storeVars, req, ws, attempt, locks>>

\* Mutant: a row is written as the snapshot showed it.
MatchedOnce(p, t) == TRUE

StillMatches(p, t) ==
  IF req[p].kind = "cleanup" THEN row[t].state # "deleted"
                             ELSE row[t].state = "live"

WriteRow(p) ==
  /\ At(p, "rows")
  /\ \E t \in todo[p] :
       /\ RowFree(p, t)
       /\ StillMatches(p, t)
       /\ rowLock' = [rowLock EXCEPT ![t] = p]
       /\ ws' = [ws EXCEPT ![p].ended = @ \cup {t}]
       /\ todo' = [todo EXCEPT ![p] = @ \ {t}]
  /\ UNCHANGED <<storeVars, pc, req, attempt, writer, forUpdate, share>>

SkipRow(p) ==
  /\ At(p, "rows")
  /\ \E t \in todo[p] :
       /\ ~StillMatches(p, t)
       /\ todo' = [todo EXCEPT ![p] = @ \ {t}]
  /\ UNCHANGED <<storeVars, pc, req, ws, attempt, locks>>

EndRows(p) ==
  /\ At(p, "rows")
  /\ todo[p] = {}
  /\ Goto(p, IF req[p].kind = "cleanup" THEN "commit" ELSE "audit")
  /\ UNCHANGED <<storeVars, req, ws, todo, attempt, locks>>

\* INSERT INTO "AuditLog": its foreign key share-locks the actor's own row.
WriteAudit(p) ==
  /\ At(p, "audit")
  /\ CanShare(p, req[p].actor)
  /\ share' = [share EXCEPT ![req[p].actor] = @ \cup {p}]
  /\ Goto(p, "commit")
  /\ UNCHANGED <<storeVars, req, ws, todo, attempt, writer, forUpdate, rowLock>>
-----------------------------------------------------------------------------
(* Ends of transactions.                                                   *)

EndState(p) == IF req[p].kind = "cleanup" THEN "deleted" ELSE "revoked"

Commit(p) ==
  /\ At(p, "commit")
  /\ status' = [u \in User |->
                  IF u = req[p].user /\ ws[p].status # None
                  THEN ws[p].status ELSE status[u]]
  /\ row' = [t \in Token |->
               IF t \in ws[p].inserted
               THEN [state |-> "live", user |-> req[p].user, parent |-> req[p].token]
               ELSE Moved(ws[p].ended, EndState(p))[t]]
  /\ EndTransaction(p)
  /\ EndRequest(p)
  /\ UNCHANGED expired

\* Mutant: a failed request gives its connection back without a rollback.
FailWithoutRollback(p) ==
  /\ ~At(p, "idle")
  /\ EndRequest(p)
  /\ UNCHANGED <<storeVars, ws, todo, locks>>

\* The connection or the server process is lost before COMMIT.
Fail(p) ==
  /\ ~At(p, "idle")
  /\ Rollback(p)

\* Whom p must outwait before its statement can run.
WaitsFor(p) ==
  {q \in Proc \ {p} :
     \/ At(p, "update") /\ writer[req[p].user] = q
     \/ /\ \/ At(p, "lockAny")
           \/ At(p, "lockActive") /\ status[req[p].user] = "ACTIVE"
        /\ writer[req[p].user] = q \/ q \in share[req[p].user]
     \/ At(p, "audit") /\ req[p].actor \in forUpdate /\ writer[req[p].actor] = q
     \/ At(p, "revoke") /\ Redeemable(p) /\ rowLock[req[p].token] = q
     \/ At(p, "rows") /\ \E t \in todo[p] : rowLock[t] = q /\ StillMatches(p, t)}

Stuck(S) == S # {} /\ \A q \in S : WaitsFor(q) \cap S # {}

\* p is on a cycle of the waits-for graph.
Deadlocked(p) ==
  \E S \in SUBSET Proc :
    /\ p \in S
    /\ Stuck(S)
    /\ \A T \in SUBSET S : Stuck(T) => T = S

\* Mutant: the callback is run again without end.
RetryForever(p) ==
  /\ Deadlocked(p)
  /\ EndTransaction(p)
  /\ attempt' = [attempt EXCEPT ![p] = @ + 1]
  /\ Goto(p, FirstStatement(req[p].kind))
  /\ UNCHANGED <<storeVars, req>>

\* SQLSTATE 40P01: the server picks a transaction on the cycle and rolls it
\* back; Database.transaction runs the whole callback again ...
RetryDeadlock(p) ==
  /\ Deadlocked(p)
  /\ attempt[p] < MaxAttempts
  /\ EndTransaction(p)
  /\ attempt' = [attempt EXCEPT ![p] = @ + 1]
  /\ Goto(p, FirstStatement(req[p].kind))
  /\ UNCHANGED <<storeVars, req>>

\* ... or, at the last attempt, lets the error out.
GiveUp(p) ==
  /\ Deadlocked(p)
  /\ attempt[p] = MaxAttempts
  /\ Rollback(p)
-----------------------------------------------------------------------------
Start(p) ==
  \/ StartIssue(p)
  \/ StartRefresh(p)
  \/ StartLogout(p)
  \/ StartSetStatus(p)
  \/ StartRevokeSessions(p)
  \/ StartCleanup(p)

Statement(p) ==
  \/ ReadToken(p)
  \/ ReadNoToken(p)
  \/ LockActiveUser(p)
  \/ NoActiveUser(p)
  \/ RevokePresented(p)
  \/ RotationConflict(p)
  \/ InsertToken(p)
  \/ Logout(p)
  \/ UpdateUserStatus(p)
  \/ LockUserForRevocation(p)
  \/ BeginRows(p)
  \/ WriteRow(p)
  \/ SkipRow(p)
  \/ EndRows(p)
  \/ WriteAudit(p)
  \/ Commit(p)

BreakDeadlock(p) == RetryDeadlock(p) \/ GiveUp(p)

TimePasses ==
  \E t \in Token :
    /\ Expire(t)
    /\ UNCHANGED <<pc, req, ws, todo, attempt, locks>>

Next ==
  \/ \E p \in Proc : Start(p) \/ Statement(p) \/ BreakDeadlock(p) \/ Fail(p)
  \/ TimePasses

Spec == Init /\ [][Next]_vars

\* PostgreSQL queues the waiters of a row lock, so a statement that can run
\* again and again does run; the deadlock detector breaks every cycle.
Fairness ==
  \A p \in Proc : SF_vars(Statement(p)) /\ WF_vars(BreakDeadlock(p))

FairSpec == Spec /\ Fairness
-----------------------------------------------------------------------------
\* Every request, whatever it is interleaved with, takes effect at one point
\* as one atomic step of the abstract store, or not at all.
ImplementsStore == StoreSpec

\* The requests that end all sessions of a user.
Revoking(p) == \/ req[p].kind = "revokeSessions"
               \/ req[p].kind = "setStatus" /\ req[p].status \in Barred

\* A request that ends all of a user's sessions commits with no session of
\* that user left live: none was issued or rotated past its snapshot.
RevokeAllLeavesNothingLive ==
  [][\A p \in Proc :
       Commit(p) /\ Revoking(p) =>
         \A t \in Token : row'[t].state = "live" => row'[t].user # req[p].user]_vars

\* Signing in, refreshing and signing out are never the victim of a deadlock:
\* they hold nothing another request needs while they wait.
SessionRequestsNeverDeadlock ==
  \A p \in Proc : req[p].kind \in {"issue", "rotate", "logout"} => ~Deadlocked(p)

\* Every request comes to an end, deadlocks and retries included.
EveryRequestEnds == \A p \in Proc : pc[p] # "idle" ~> pc[p] = "idle"
=============================================================================
