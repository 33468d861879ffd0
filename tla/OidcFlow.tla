------------------------------ MODULE OidcFlow ------------------------------
(***************************************************************************)
(* The OpenID Connect provider: an authorization transaction in Redis, the *)
(* sign-in by password or by a provider that consumes it, the code the     *)
(* browser carries to the client, the access token the client exchanges it *)
(* for, and the userinfo the token buys.                                   *)
(*                                                                         *)
(* A code and a token are decided on in a PostgreSQL transaction that      *)
(* holds the user's row FOR UPDATE, and created in Redis while it is open: *)
(* the two stores commit separately, and either may fail.  One Redis       *)
(* command or SQL statement is one action.                                 *)
(*                                                                         *)
(* The password check and its counter are LoginLockout's, the drawing of   *)
(* colliding random values is AuthHandoff's.  A record is immutable until  *)
(* it goes, so a GET followed by a consume-if-exact of what it returned    *)
(* succeeds if and only if the record is still there at the second.        *)
(***************************************************************************)
EXTENDS Naturals, FiniteSets

CONSTANTS Flow,   \* authorization transactions
          State,  \* provider states
          Code,   \* authorization codes
          Token,  \* access tokens
          User,
          Proc,   \* requests in flight at the same time
          Admin,  \* the administrator's transaction, as a holder of locks
          None

ASSUME NoneAssumption == None \notin Flow \cup State \cup Code \cup Token \cup User \cup Proc
ASSUME AdminAssumption == Admin \notin Proc \cup {None}
ASSUME TokenAssumption == Code \cap Token = {}

VARIABLES txn,      \* txn[f]: the transaction record of f in Redis
          state,    \* state[s]: the provider-state record
          code,     \* code[c]: the authorization-code record
          token,    \* token[t]: the access-token record
          given,    \* codes and tokens that have left in a response
          active,   \* users committed as ACTIVE with a verified address
          member,   \* users with a committed UserRole the client requires
          removing, \* users whose UserRole an open transaction has deleted
          lockedBy, \* who holds the user row FOR UPDATE
          pc, req,
          audited,  \* history: codes and tokens whose success audit committed
          broken    \* history: codes and tokens whose request met a second
                    \* failure: no reply, no cleanup, or no process any more

redis == <<txn, state, code, token>>
database == <<active, member, removing>>
history == <<audited, broken>>
vars == <<redis, given, database, lockedBy, pc, req, history>>

InRedis == {"none", "live", "gone"}

PC == {"idle", "takeState", "get", "take", "setState", "takeCode", "getToken",
       "lock", "roles", "create", "commit", "reply", "cleanup", "revoke"}

\* made: the code or token the request has created.  shows: what it presents,
\* nothing that fits, the record's binding (the browser's, or the client's id),
\* or besides it the CSRF token or the redirect URI and PKCE verifier.
Request == [kind: {"none", "password", "start", "provider", "denied", "exchange", "userinfo"},
            flow: Flow \cup {None}, state: State \cup {None}, code: Code \cup {None},
            token: Token \cup {None}, user: User \cup {None},
            shows: {"nothing", "binding", "all"}, made: Code \cup Token \cup {None}]

NoRequest == [kind |-> "none", flow |-> None, state |-> None, code |-> None, token |-> None,
              user |-> None, shows |-> "nothing", made |-> None]

TypeOK ==
  /\ txn \in [Flow -> InRedis]
  /\ state \in [State -> [in: InRedis, flow: Flow \cup {None}]]
  /\ code \in [Code -> [in: InRedis, flow: Flow \cup {None}, user: User \cup {None}]]
  /\ token \in [Token -> [in: InRedis, code: Code \cup {None}, user: User \cup {None}]]
  /\ given \in SUBSET (Code \cup Token)
  /\ active \in SUBSET User
  /\ member \in SUBSET User
  /\ removing \in SUBSET User
  /\ lockedBy \in [User -> Proc \cup {Admin, None}]
  /\ pc \in [Proc -> PC]
  /\ req \in [Proc -> Request]
  /\ audited \in SUBSET (Code \cup Token)
  /\ broken \in SUBSET (Code \cup Token)

Init ==
  /\ txn = [f \in Flow |-> "none"]
  /\ state = [s \in State |-> [in |-> "none", flow |-> None]]
  /\ code = [c \in Code |-> [in |-> "none", flow |-> None, user |-> None]]
  /\ token = [t \in Token |-> [in |-> "none", code |-> None, user |-> None]]
  /\ given = {}
  /\ active \in SUBSET User
  /\ member \in SUBSET User
  /\ removing = {}
  /\ lockedBy = [u \in User |-> None]
  /\ pc = [p \in Proc |-> "idle"]
  /\ req = [p \in Proc |-> NoRequest]
  /\ audited = {}
  /\ broken = {}
-----------------------------------------------------------------------------
At(p, label) == pc[p] = label
Goto(p, label) == pc' = [pc EXCEPT ![p] = label]

\* The transaction that p has open, if any, is over.
Unlock(p) == lockedBy' = [u \in User |-> IF lockedBy[u] = p THEN None ELSE lockedBy[u]]

End(p) ==
  /\ Goto(p, "idle")
  /\ req' = [req EXCEPT ![p] = NoRequest]
  /\ Unlock(p)

Arrive(p, r, label) ==
  /\ At(p, "idle")
  /\ req' = [req EXCEPT ![p] = r]
  /\ Goto(p, label)
  /\ UNCHANGED <<redis, given, database, lockedBy, history>>

Advance(p, r, label) ==
  /\ req' = [req EXCEPT ![p] = r]
  /\ Goto(p, label)
  /\ UNCHANGED <<given, database, lockedBy, history>>

Refuse(p) == End(p) /\ UNCHANGED <<redis, given, database, history>>

\* The code of a sign-in, the token of an exchange.
InStore(x) == IF x \in Code THEN code[x].in ELSE token[x].in

Drop(x) ==
  IF x \in Code
  THEN code' = [code EXCEPT ![x].in = "gone"] /\ UNCHANGED token
  ELSE token' = [token EXCEPT ![x].in = "gone"] /\ UNCHANGED code

Eligible(u) == u \in active /\ u \in member
-----------------------------------------------------------------------------
(* The browser's part: begin_authorization to the redirect with a code.    *)

\* begin_authorization.  A record whose creation fails is never heard of.
Begin(f) ==
  /\ txn[f] = "none"
  /\ txn' = [txn EXCEPT ![f] = "live"]
  /\ UNCHANGED <<state, code, token, given, database, lockedBy, pc, req, history>>

\* password_login: user is None when the password does not verify.
StartPassword(p) ==
  \E f \in Flow, u \in User \cup {None}, x \in {"nothing", "binding", "all"} :
    /\ txn[f] # "none"
    /\ Arrive(p, [NoRequest EXCEPT !.kind = "password", !.flow = f, !.user = u,
                                   !.shows = x], "get")

StartProvider(p) ==
  \E f \in Flow, x \in {"nothing", "all"} :
    /\ txn[f] # "none"
    /\ Arrive(p, [NoRequest EXCEPT !.kind = "start", !.flow = f, !.shows = x], "get")

\* provider_callback and provider_error: user is whom the profile is linked to.
StartCallback(p) ==
  \E s \in State, u \in User \cup {None}, k \in {"provider", "denied"}, x \in {"nothing", "all"} :
    /\ state[s].in # "none"
    /\ Arrive(p, [NoRequest EXCEPT !.kind = k, !.state = s, !.user = u, !.shows = x], "takeState")

\* consume_for_provider.
TakeState(p) ==
  /\ At(p, "takeState")
  /\ LET s == req[p].state
     IN IF state[s].in = "live" /\ req[p].shows # "nothing"
        THEN /\ state' = [state EXCEPT ![s].in = "gone"]
             /\ UNCHANGED <<txn, code, token>>
             /\ Advance(p, [req[p] EXCEPT !.flow = state[s].flow],
                        IF req[p].kind = "denied" THEN "take" ELSE "get")
        ELSE Refuse(p)

\* _bound_transaction, the CSRF token, and for a password its verification.
GetTransaction(p) ==
  /\ At(p, "get")
  /\ LET r == req[p]
     IN IF txn[r.flow] = "live" /\ r.shows = "all"
             /\ (r.kind = "password" => r.user \in active)
        THEN /\ UNCHANGED redis
             /\ Advance(p, r, IF r.kind = "start" THEN "setState" ELSE "take")
        ELSE Refuse(p)

\* provider_start.
SetState(p) ==
  /\ At(p, "setState")
  /\ \E s \in State :
       /\ state[s].in = "none"
       /\ state' = [state EXCEPT ![s] = [in |-> "live", flow |-> req[p].flow]]
  /\ End(p)
  /\ UNCHANGED <<txn, code, token, given, database, history>>

\* Mutant: a transaction read is as good as one consumed.
KeepTransaction(p) ==
  /\ At(p, "take")
  /\ LET r == req[p]
     IN IF txn[r.flow] = "live" /\ r.kind # "denied" /\ r.user # None
        THEN UNCHANGED redis /\ Advance(p, r, "lock")
        ELSE Refuse(p)

\* consume: the transaction is spent, whether its user may sign in or not.
TakeTransaction(p) ==
  /\ At(p, "take")
  /\ LET r == req[p]
     IN IF txn[r.flow] = "live" /\ r.kind # "denied" /\ r.user # None
        THEN /\ txn' = [txn EXCEPT ![r.flow] = "gone"]
             /\ UNCHANGED <<state, code, token>>
             /\ Advance(p, r, "lock")
        ELSE /\ txn' = [txn EXCEPT ![r.flow] = IF @ = "live" THEN "gone" ELSE @]
             /\ End(p)
             /\ UNCHANGED <<state, code, token, given, database, history>>
-----------------------------------------------------------------------------
(* The client's part: exchange_code and userinfo.                          *)

StartExchange(p) ==
  \E c \in Code \cap given, x \in {"nothing", "binding", "all"} :
    Arrive(p, [NoRequest EXCEPT !.kind = "exchange", !.code = c, !.shows = x], "takeCode")

\* Mutant: the code is read and stays.
KeepCode(p) ==
  /\ At(p, "takeCode")
  /\ LET c == req[p].code
     IN IF code[c].in = "live" /\ req[p].shows = "all"
        THEN UNCHANGED redis /\ Advance(p, [req[p] EXCEPT !.user = code[c].user], "lock")
        ELSE Refuse(p)

\* consume_for_client, then the redirect URI and PKCE: a wrong one costs the code.
TakeCode(p) ==
  /\ At(p, "takeCode")
  /\ LET c == req[p].code
         mine == code[c].in = "live" /\ req[p].shows # "nothing"
     IN /\ code' = [code EXCEPT ![c].in = IF mine THEN "gone" ELSE @]
        /\ UNCHANGED <<txn, state, token>>
        /\ IF mine /\ req[p].shows = "all"
           THEN Advance(p, [req[p] EXCEPT !.user = code[c].user], "lock")
           ELSE End(p) /\ UNCHANGED <<given, database, history>>

StartUserinfo(p) ==
  \E t \in Token \cap given :
    Arrive(p, [NoRequest EXCEPT !.kind = "userinfo", !.token = t], "getToken")

GetToken(p) ==
  /\ At(p, "getToken")
  /\ LET t == req[p].token
     IN IF token[t].in = "live"
        THEN UNCHANGED redis /\ Advance(p, [req[p] EXCEPT !.user = token[t].user], "lock")
        ELSE Refuse(p)
-----------------------------------------------------------------------------
(* The decision, under the lock of the user's row.                         *)

\* Mutant: the user row is read without FOR UPDATE.
ReadUser(p) ==
  /\ At(p, "lock")
  /\ UNCHANGED <<redis, given, database, lockedBy, history, req>>
  /\ Goto(p, IF req[p].user \in active THEN "roles" ELSE "revoke")

\* lock_user: SELECT ... FOR UPDATE, and the status it returns.
LockUser(p) ==
  /\ At(p, "lock")
  /\ LET u == req[p].user
     IN /\ lockedBy[u] = None
        /\ lockedBy' = [lockedBy EXCEPT ![u] = p]
        /\ Goto(p, IF u \in active THEN "roles" ELSE "revoke")
  /\ UNCHANGED <<redis, given, database, history, req>>

\* Mutant: a missing role is read again until somebody gives it, who needs the
\* lock for that.
AwaitRole(p) ==
  /\ At(p, "roles")
  /\ req[p].user \in member
  /\ Goto(p, IF req[p].kind = "userinfo" THEN "commit" ELSE "create")
  /\ UNCHANGED <<redis, given, database, lockedBy, history, req>>

\* _with_roles: a plain read of the committed roles, after the lock.
ReadRoles(p) ==
  /\ At(p, "roles")
  /\ Goto(p, IF req[p].user \notin member THEN "revoke"
             ELSE IF req[p].kind = "userinfo" THEN "commit" ELSE "create")
  /\ UNCHANGED <<redis, given, database, lockedBy, history, req>>

\* The user is refused: a failure audit, or for userinfo the best-effort
\* revocation of the token, which may fail.
Deny(p) ==
  /\ At(p, "revoke")
  /\ \/ /\ req[p].kind = "userinfo"
        /\ token' = [token EXCEPT ![req[p].token].in = "gone"]
        /\ UNCHANGED <<txn, state, code>>
     \/ UNCHANGED redis
  /\ End(p)
  /\ UNCHANGED <<given, database, history>>

\* SET NX EX of the code or the token, inside the open transaction.
Create(p) ==
  /\ At(p, "create")
  /\ LET r == req[p]
     IN \/ /\ r.kind # "exchange"
           /\ \E c \in Code :
                /\ code[c].in = "none"
                /\ code' = [code EXCEPT ![c] = [in |-> "live", flow |-> r.flow, user |-> r.user]]
                /\ req' = [req EXCEPT ![p].made = c]
           /\ UNCHANGED token
        \/ /\ r.kind = "exchange"
           /\ \E t \in Token :
                /\ token[t].in = "none"
                /\ token' = [token EXCEPT ![t] = [in |-> "live", code |-> r.code, user |-> r.user]]
                /\ req' = [req EXCEPT ![p].made = t]
           /\ UNCHANGED code
  /\ Goto(p, "commit")
  /\ UNCHANGED <<txn, state, given, database, lockedBy, history>>

\* Redis refuses, or three drawn values were taken: nothing has been created.
CreateFails(p) ==
  /\ pc[p] \in {"setState", "create"}
  /\ Refuse(p)

\* Mutant: the response is built before the audit is written.
CommitUnaudited(p) ==
  /\ At(p, "commit")
  /\ Unlock(p)
  /\ Goto(p, "reply")
  /\ UNCHANGED <<redis, given, database, history, req>>

\* The success audit is inserted and the transaction committed.
Commit(p) ==
  /\ At(p, "commit")
  /\ audited' = audited \cup ({req[p].made} \ {None})
  /\ Unlock(p)
  /\ Goto(p, "reply")
  /\ UNCHANGED <<redis, given, database, broken, req>>

\* Mutant: what was created is left behind.
NoCleanup(p) ==
  /\ At(p, "commit")
  /\ End(p)
  /\ UNCHANGED <<redis, given, database, history>>

\* The INSERT of the audit or the COMMIT raises.  The commit may have happened.
CommitFails(p) ==
  /\ At(p, "commit")
  /\ audited' \in {audited, audited \cup ({req[p].made} \ {None})}
  /\ IF req[p].made = None
     THEN End(p)
     ELSE Unlock(p) /\ Goto(p, "cleanup") /\ UNCHANGED req
  /\ UNCHANGED <<redis, given, database, broken>>

\* _best_effort_consume_code, _best_effort_revoke_access: Redis may not answer.
Cleanup(p) ==
  /\ At(p, "cleanup")
  /\ \/ Drop(req[p].made) /\ UNCHANGED broken
     \/ broken' = broken \cup {req[p].made} /\ UNCHANGED <<code, token>>
  /\ End(p)
  /\ UNCHANGED <<txn, state, given, database, audited>>

Reply(p) ==
  /\ At(p, "reply")
  /\ given' = given \cup ({req[p].made} \ {None})
  /\ End(p)
  /\ UNCHANGED <<redis, database, history>>

\* The task is cancelled, the process is lost, or a command that ran raises
\* because its reply was lost: nothing cleans up what it created.
Vanish(p) ==
  /\ ~At(p, "idle")
  /\ broken' = broken \cup ({req[p].made} \ {None})
  /\ End(p)
  /\ UNCHANGED <<redis, given, database, audited>>

\* A record reaches the end of its lifetime.
Expire ==
  /\ \/ \E f \in Flow : /\ txn[f] = "live"
                        /\ txn' = [txn EXCEPT ![f] = "gone"]
                        /\ UNCHANGED <<state, code, token>>
     \/ \E s \in State : /\ state[s].in = "live"
                         /\ state' = [state EXCEPT ![s].in = "gone"]
                         /\ UNCHANGED <<txn, code, token>>
     \/ \E x \in Code \cup Token : /\ InStore(x) = "live"
                                   /\ Drop(x)
                                   /\ UNCHANGED <<txn, state>>
  /\ UNCHANGED <<given, database, lockedBy, pc, req, history>>
-----------------------------------------------------------------------------
(* Administrators, as far as they race the decision.                       *)

\* set_user_status: one UPDATE, which waits for the row's lock.
SetStatus(u) ==
  /\ lockedBy[u] = None
  /\ active' \in {active \cup {u}, active \ {u}}
  /\ UNCHANGED <<redis, given, member, removing, lockedBy, pc, req, history>>

\* assign_role: the foreign key of the INSERT waits for the row's lock.
AssignRole(u) ==
  /\ lockedBy[u] = None /\ u \notin removing
  /\ member' = member \cup {u}
  /\ UNCHANGED <<redis, given, active, removing, lockedBy, pc, req, history>>

\* remove_role: DELETE of the UserRole, then the user's row FOR UPDATE, then
\* the commit.
DeleteRole(u) ==
  /\ u \in member \ removing
  /\ removing' = removing \cup {u}
  /\ UNCHANGED <<redis, given, active, member, lockedBy, pc, req, history>>

LockForRemoval(u) ==
  /\ u \in removing /\ lockedBy[u] = None
  /\ lockedBy' = [lockedBy EXCEPT ![u] = Admin]
  /\ UNCHANGED <<redis, given, database, pc, req, history>>

EndRemoval(u) ==
  /\ u \in removing /\ lockedBy[u] = Admin
  /\ member' \in {member, member \ {u}}
  /\ removing' = removing \ {u}
  /\ lockedBy' = [lockedBy EXCEPT ![u] = None]
  /\ UNCHANGED <<redis, given, active, pc, req, history>>
-----------------------------------------------------------------------------
\* The statements of a request, its waiting for the row's lock apart.
Step(p) ==
  \/ TakeState(p) \/ GetTransaction(p) \/ SetState(p) \/ TakeTransaction(p)
  \/ TakeCode(p) \/ GetToken(p)
  \/ ReadRoles(p) \/ Deny(p) \/ Create(p) \/ CreateFails(p)
  \/ Commit(p) \/ CommitFails(p) \/ Cleanup(p) \/ Reply(p)

Next ==
  \/ \E p \in Proc : \/ StartPassword(p) \/ StartProvider(p) \/ StartCallback(p)
                     \/ StartExchange(p) \/ StartUserinfo(p)
                     \/ LockUser(p) \/ Step(p) \/ Vanish(p)
  \/ \E f \in Flow : Begin(f)
  \/ \E u \in User : \/ SetStatus(u) \/ AssignRole(u)
                     \/ DeleteRole(u) \/ LockForRemoval(u) \/ EndRemoval(u)
  \/ Expire

Spec == Init /\ [][Next]_vars

\* The server goes on with each request, PostgreSQL grants the row's lock to
\* every waiter in turn, and the administrator's transaction ends.
Fairness ==
  /\ \A p \in Proc : WF_vars(Step(p)) /\ SF_vars(LockUser(p))
  /\ \A u \in User : WF_vars(EndRemoval(u))

FairSpec == Spec /\ Fairness
-----------------------------------------------------------------------------
\* An authorization transaction ends in at most one code and a code in at most
\* one token, however many browsers, callbacks and clients present them.
OneCodeOneToken ==
  /\ \A c, d \in Code : code[c].flow # None /\ code[c].flow = code[d].flow => c = d
  /\ \A s, t \in Token : token[s].code # None /\ token[s].code = token[t].code => s = t

\* lock_user promises a linearizable decision: when a code or a token is about
\* to be committed, and when userinfo is about to be answered, the user is
\* ACTIVE and has the role in the database as committed at that moment.
DecisionHolds ==
  \A p \in Proc : pc[p] \in {"create", "commit"} => Eligible(req[p].user)

\* Nobody is given a code or a token whose success audit did not commit.
GivenIsAudited == given \subseteq audited

\* One failure leaves nothing usable behind: a code or token that lives on
\* with neither a request at work on it nor an audit had two failures.
OrphanTakesTwoFailures ==
  \A x \in Code \cup Token :
    InStore(x) = "live" =>
      \/ x \in audited \cup broken
      \/ \E p \in Proc : req[p].made = x

\* Every request ends, whatever waits for the user's row.
EveryRequestEnds == \A p \in Proc : ~At(p, "idle") ~> At(p, "idle")
-----------------------------------------------------------------------------
(* What the steps preserve, of which the invariants above are consequences. *)

\* p has consumed its transaction, or its code, and has not yet created the
\* code, or the token, that it pays for.
Deciding(p) == pc[p] \in {"lock", "roles", "create"}

SignsIn(p) == Deciding(p) /\ req[p].kind \in {"password", "provider"}
Exchanges(p) == Deciding(p) /\ req[p].kind = "exchange"

\* A record that can be read says what it is for.
RecordsComplete ==
  /\ \A s \in State : state[s].in = "live" => state[s].flow \in Flow
  /\ \A c \in Code : code[c].in = "live" => code[c].user \in User
  /\ \A t \in Token : token[t].in = "live" => token[t].user \in User

\* What a request holds at each statement.
RequestShape(p) ==
  /\ pc[p] = "takeState" => req[p].kind \in {"provider", "denied"} /\ req[p].state \in State
  /\ pc[p] \in {"get", "take"} =>
       /\ req[p].flow \in Flow
       /\ req[p].kind \in {"password", "start", "provider", "denied"}
  /\ pc[p] = "take" => req[p].kind # "start"
  /\ pc[p] = "setState" => req[p].flow \in Flow
  /\ pc[p] = "takeCode" => req[p].kind = "exchange" /\ req[p].code \in Code
  /\ pc[p] = "getToken" => req[p].kind = "userinfo" /\ req[p].token \in Token
  /\ Deciding(p) =>
       /\ req[p].user \in User
       /\ req[p].kind \in {"password", "provider", "exchange", "userinfo"}
  /\ pc[p] = "create" => req[p].kind # "userinfo"
  /\ pc[p] \notin {"commit", "reply", "cleanup"} => req[p].made = None
  /\ pc[p] = "cleanup" => req[p].made # None
  /\ SignsIn(p) => req[p].flow \in Flow
  /\ Exchanges(p) => req[p].code \in Code

\* The lock is held from the reading of the user to the end.
Locks(p) ==
  pc[p] \in {"roles", "create", "commit"} =>
    /\ req[p].user \in User
    /\ lockedBy[req[p].user] = p
    /\ req[p].user \in active
    /\ pc[p] # "roles" => req[p].user \in member

\* What p pays with is gone, and has bought nothing.
Pays(p) ==
  /\ SignsIn(p) => txn[req[p].flow] = "gone" /\ \A c \in Code : code[c].flow # req[p].flow
  /\ Exchanges(p) => code[req[p].code].in = "gone" /\ \A t \in Token : token[t].code # req[p].code

RepliesAudited(p) == pc[p] = "reply" => req[p].made \in audited \cup {None}

RequestInv(p) == RequestShape(p) /\ Locks(p) /\ Pays(p) /\ RepliesAudited(p)

\* No two requests pay with the same transaction or code.
PaysAlone ==
  \A p, q \in Proc :
    /\ SignsIn(p) /\ SignsIn(q) /\ req[p].flow = req[q].flow => p = q
    /\ Exchanges(p) /\ Exchanges(q) /\ req[p].code = req[q].code => p = q

\* What was paid with is gone.
RecordsPaid ==
  /\ \A c \in Code : code[c].flow \in Flow => txn[code[c].flow] = "gone"
  /\ \A t \in Token : token[t].code \in Code => code[token[t].code].in = "gone"

RecordInv == RecordsComplete /\ RecordsPaid /\ OneCodeOneToken /\ GivenIsAudited

IInv == TypeOK /\ RecordInv /\ (\A p \in Proc : RequestInv(p)) /\ PaysAlone /\ OrphanTakesTwoFailures
=============================================================================
