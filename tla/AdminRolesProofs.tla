-------------------------- MODULE AdminRolesProofs --------------------------
(***************************************************************************)
(* Proofs about AdminRoles: IInv is an inductive invariant, so no live     *)
(* session carries a role its user has lost, the audit log has as many     *)
(* changes of a user's roles as were made, and the last administrator      *)
(* falls only to overlapping requests.                                     *)
(*                                                                         *)
(* A request's invariant speaks of itself and of what its lock on the user *)
(* protects, so a step of another one only has to respect the lock         *)
(* (Undisturbed).  RowLemma is for the steps that move only p's own record *)
(* and locks, EndLemma for those that end a transaction.                   *)
(***************************************************************************)
EXTENDS AdminRoles, FiniteSetTheorems, TLAPS

\* What a step of another actor may do around request q.
Undisturbed(q) ==
  /\ pc'[q] = pc[q] /\ req'[q] = req[q] /\ ws'[q] = ws[q]
  /\ \A u \in User : writer[u] = q =>
       /\ writer'[u] = q
       /\ u \in forUpdate => /\ u \in forUpdate'
                             /\ live'[u] \subseteq live[u]
                             /\ roles[u] \subseteq roles'[u]

\* The kind of a request, by its place.
LEMMA PlaceLemma ==
  ASSUME NEW p \in Proc, TypeOK, RequestInv(p)
  PROVE  /\ At(p, "idle") <=> req[p].kind = None
         /\ At(p, "update") => req[p].kind = "setStatus"
         /\ At(p, "take") => req[p].kind = "remove"
         /\ At(p, "give") => req[p].kind \in {"assign", "bootstrap"}
         /\ At(p, "upsert") => req[p].kind \in {"assign", "bootstrap"}
         /\ At(p, "find") => req[p].kind = "bootstrap"
         /\ pc[p] \in {"lock", "revoke"} =>
              req[p].kind \in {"setStatus", "remove", "revokeSessions", "bootstrap"}
         /\ At(p, "audit") =>
              req[p].kind \in {"setStatus", "assign", "remove", "revokeSessions", "bootstrap"}
         /\ pc[p] \in {"lockActive", "readRoles"} => req[p].kind = "issue"
         /\ pc[p] \in {"snapshot", "fill"} => req[p].kind = "backfill"
         /\ At(p, "authorize") => req[p].kind \in Administrative
         /\ ~At(p, "idle") => req[p].kind \in Kind
         /\ req[p].kind \in Kind \ {"backfill"} => req[p].user \in User
<1>1. req[p].kind \in Kind \cup {None}
  BY DEF TypeOK, Request
<1>2. req[p].kind \in Kind \ {"backfill"} => req[p].user \in User
  BY DEF RequestInv, WellFormed
<1>3. CASE req[p].kind = None
  <2>1. None \notin Kind
    BY RoleAssumption
  <2>2. pc[p] = "idle"
    BY <1>3, <2>1 DEF RequestInv, Places, Kind
  <2>3. QED
    BY <1>2, <1>3, <2>1, <2>2 DEF At
<1>4. CASE req[p].kind \in Kind
  <2>1. None \notin Kind
    BY RoleAssumption
  <2>2. QED
    BY <1>2, <1>4, <2>1 DEF RequestInv, Places, Kind, At, Administrative
<1>5. QED
  BY <1>1, <1>3, <1>4

LEMMA OthersLemma ==
  ASSUME IInv, NEW q \in Proc, Undisturbed(q)
  PROVE  RequestInv(q)' /\ WritesInv(q)' /\ LockInv(q)'
<1>1. RequestInv(q) /\ WritesInv(q) /\ LockInv(q) /\ TypeOK
  BY DEF IInv
<1>2. RequestInv(q)'
  BY <1>1 DEF RequestInv, Undisturbed, SelfAllowed, WellFormed, At
<1>3. WritesInv(q)'
  BY <1>1 DEF WritesInv, Undisturbed, At
<1>4. Holds(q) /\ req[q].user \in User => Holds(q)'
  BY DEF Holds, Undisturbed
<1>5. pc[q] \in {"revoke", "readRoles", "audit", "commit"} /\ req[q].user \notin User
        => req[q].kind = "backfill"
  BY <1>1, PlaceLemma DEF At
<1>6. LockInv(q)'
  <2>1. CASE req[q].user \in User
    BY <2>1, <1>1, <1>4 DEF LockInv, Undisturbed, Holds, WritesInv
  <2>2. CASE req[q].user \notin User
    <3>1. ws[q].taken = {} /\ ws[q].opened = {} /\ pc[q] \notin {"revoke", "readRoles"}
      BY <2>2, <1>1, <1>5, RoleAssumption
         DEF WritesInv, At, RequestInv, Places, WellFormed, Kind
    <3>2. QED
      BY <3>1 DEF LockInv, Undisturbed
  <2>3. QED
    BY <2>1, <2>2
<1>7. QED
  BY <1>2, <1>3, <1>6

LEMMA StepLemma ==
  ASSUME IInv, TypeOK', ForUpdateHeld', NEW p \in Proc,
         RequestInv(p)', WritesInv(p)', LockInv(p)',
         \A q \in Proc \ {p} : Undisturbed(q)
  PROVE  IInv'
<1>1. \A q \in Proc : RequestInv(q)' /\ WritesInv(q)' /\ LockInv(q)'
  BY OthersLemma
<1>2. QED
  BY <1>1 DEF IInv
-----------------------------------------------------------------------------
(* Steps that write no committed row.                                      *)

\* p alone moves, and nobody else's lock is taken or given up.
Alone(p) ==
  /\ UNCHANGED store
  /\ \A q \in Proc \ {p} : pc'[q] = pc[q] /\ req'[q] = req[q] /\ ws'[q] = ws[q]
  /\ \A u \in User : writer[u] \in Proc \ {p} =>
       /\ writer'[u] = writer[u]
       /\ u \in forUpdate => u \in forUpdate'

LEMMA RowLemma ==
  ASSUME IInv, TypeOK', ForUpdateHeld', NEW p \in Proc, Alone(p),
         RequestInv(p)', WritesInv(p)', LockInv(p)'
  PROVE  IInv'
<1>1. \A q \in Proc \ {p} : Undisturbed(q)
  BY DEF Alone, Undisturbed, store
<1>2. QED
  BY <1>1, StepLemma

\* A request that has written nothing needs to be well formed, no more.
LEMMA NothingWrittenLemma ==
  ASSUME NEW p \in Proc, RequestInv(p)', ws'[p] = NoWrites,
         pc'[p] \notin {"revoke", "readRoles"},
         req'[p].kind = "remove" => pc'[p] \notin {"lock", "revoke", "audit"},
         req'[p].kind = "assign" => pc'[p] # "audit"
  PROVE  WritesInv(p)' /\ LockInv(p)'
<1>1. /\ ws'[p].status \notin Status /\ ws'[p].filled = {} /\ ws'[p].given = {}
      /\ ws'[p].taken = {} /\ ws'[p].opened = {} /\ ws'[p].audit = "none"
  BY RoleAssumption DEF NoWrites
<1>2. WritesInv(p)'
  BY <1>1 DEF WritesInv, At
<1>3. LockInv(p)'
  BY <1>1 DEF LockInv
<1>4. QED
  BY <1>2, <1>3

\* Arrivals, authorizations and statements that write nothing.
LEMMA QuietLemma ==
  ASSUME IInv, NEW p \in Proc, UNCHANGED <<store, ws, locks>>,
         pc' \in [Proc -> PC], req' \in [Proc -> Request],
         \A q \in Proc \ {p} : pc'[q] = pc[q] /\ req'[q] = req[q],
         RequestInv(p)',
         WritesInv(p)', LockInv(p)'
  PROVE  IInv'
<1>1. TypeOK'
  BY DEF IInv, TypeOK, store, locks
<1>2. ForUpdateHeld'
  BY DEF IInv, ForUpdateHeld, locks
<1>3. Alone(p)
  BY DEF Alone, locks
<1>4. QED
  BY <1>1, <1>2, <1>3, RowLemma

LEMMA ArriveLemma ==
  ASSUME IInv, NEW p \in Proc, NEW r \in Request, WellFormed(r), Arrive(p, r)
  PROVE  IInv'
<1>1. TypeOK /\ RequestInv(p) /\ WritesInv(p) /\ LockInv(p)
  BY DEF IInv
<1>2. r.kind \in Kind /\ None \notin Kind
  BY BoundAssumption, RoleAssumption DEF Arrive
<1>3. req[p].kind = None
  BY <1>1, PlaceLemma DEF Arrive
<1>4. /\ req' = [req EXCEPT ![p] = r] /\ pc[p] = "idle" /\ ws'[p] = ws[p]
      /\ pc' = [pc EXCEPT ![p] = IF r.kind \in Administrative THEN "authorize"
                                 ELSE FirstStatement(r.kind)]
  BY DEF Arrive, At, Goto
<1>5. (IF r.kind \in Administrative THEN "authorize" ELSE FirstStatement(r.kind))
        \in Places(r.kind) \cap PC
  BY <1>2 DEF Kind, Administrative, FirstStatement, Places, PC
<1>6. pc' \in [Proc -> PC] /\ req' \in [Proc -> Request]
  BY <1>1, <1>4, <1>5 DEF TypeOK
<1>7. pc'[p] \in Places(r.kind) /\ req'[p] = r
  BY <1>1, <1>4, <1>5 DEF TypeOK
<1>8. r.kind \in Administrative => pc'[p] = "authorize"
  BY <1>1, <1>4 DEF TypeOK
<1>9. RequestInv(p)'
  <2>1. WellFormed(r)'
    BY DEF WellFormed
  <2>2. WellFormed(req[p])'
    BY <1>7 DEF WellFormed
  <2>3. QED
    BY <1>7, <1>8, <2>2 DEF RequestInv, At
<1>10. /\ ws[p].status \notin Status /\ ws[p].filled = {} /\ ws[p].given = {}
       /\ ws[p].taken = {} /\ ws[p].opened = {} /\ ws[p].audit # "written"
  BY <1>1, <1>2, <1>3, <1>4 DEF WritesInv, Kind, At
<1>11. pc'[p] \notin {"revoke", "readRoles", "audit", "commit"} 
  BY <1>2, <1>4, <1>1, <1>7, <1>8 DEF Kind, Administrative, FirstStatement, TypeOK
<1>12. r.kind = "remove" => pc'[p] = "authorize"
  BY <1>8 DEF Administrative
<1>13. WritesInv(p)' /\ LockInv(p)'
  BY <1>4, <1>7, <1>10, <1>11, <1>12 DEF WritesInv, LockInv, At
<1>14. UNCHANGED <<store, ws, locks>>
  BY DEF Arrive
<1>15. \A q \in Proc \ {p} : pc'[q] = pc[q] /\ req'[q] = req[q]
  BY <1>1, <1>4 DEF TypeOK
<1>16. QED
  BY <1>6, <1>9, <1>13, <1>14, <1>15, QuietLemma

\* What ReleaseLocks leaves of the locks of others.
LEMMA ReleaseLemma ==
  ASSUME TypeOK, ForUpdateHeld, NEW p \in Proc, ReleaseLocks(p)
  PROVE  /\ writer' \in [User -> Proc \cup {None}] /\ forUpdate' \in SUBSET User
         /\ share' \in [User -> SUBSET Proc] /\ roleRow' \in [Role -> Proc \cup {None}]
         /\ key' \in [User -> [Role -> Proc \cup {None}]]
         /\ ws' \in [Proc -> Writes] /\ ws'[p] = NoWrites
         /\ \A q \in Proc \ {p} : ws'[q] = ws[q]
         /\ ForUpdateHeld'
         /\ \A u \in User : writer[u] \in Proc \ {p} =>
              /\ writer'[u] = writer[u]
              /\ u \in forUpdate => u \in forUpdate'
<1>1. NoWrites \in Writes
  BY DEF NoWrites, Writes
<1>2. ws' \in [Proc -> Writes] /\ ws'[p] = NoWrites /\ \A q \in Proc \ {p} : ws'[q] = ws[q]
  BY <1>1 DEF ReleaseLocks, TypeOK
<1>3. /\ writer' \in [User -> Proc \cup {None}] /\ forUpdate' \in SUBSET User
      /\ share' \in [User -> SUBSET Proc] /\ roleRow' \in [Role -> Proc \cup {None}]
  BY DEF ReleaseLocks, TypeOK
<1>4. key' \in [User -> [Role -> Proc \cup {None}]]
  BY DEF ReleaseLocks, TypeOK
<1>5. ForUpdateHeld'
  BY DEF ReleaseLocks, TypeOK, ForUpdateHeld
<1>6. \A u \in User : writer[u] \in Proc \ {p} =>
        /\ writer'[u] = writer[u]
        /\ u \in forUpdate => u \in forUpdate'
  BY DEF ReleaseLocks, TypeOK
<1>7. QED
  BY <1>2, <1>3, <1>4, <1>5, <1>6

LEMMA EndLemma ==
  ASSUME TypeOK, NEW p \in Proc, EndRequest(p)
  PROVE  /\ pc' \in [Proc -> PC] /\ req' \in [Proc -> Request]
         /\ pc'[p] = "idle" /\ req'[p] = NoRequest
         /\ \A q \in Proc \ {p} : pc'[q] = pc[q] /\ req'[q] = req[q]
         /\ RequestInv(p)'
<1>1. NoRequest \in Request
  BY DEF NoRequest, Request
<1>2. /\ pc' \in [Proc -> PC] /\ req' \in [Proc -> Request]
      /\ pc'[p] = "idle" /\ req'[p] = NoRequest
      /\ \A q \in Proc \ {p} : pc'[q] = pc[q] /\ req'[q] = req[q]
  BY <1>1 DEF EndRequest, Goto, TypeOK, PC
<1>3. NoRequest.kind = None /\ None \notin Kind
  BY RoleAssumption DEF NoRequest
<1>4. Places(NoRequest.kind) = {"idle"}
  BY <1>3 DEF Places, Kind
<1>5. WellFormed(NoRequest) /\ NoRequest.kind \notin Administrative
  BY <1>3 DEF WellFormed, Kind, Administrative
<1>6. pc'[p] \in Places(req'[p].kind) /\ req'[p].kind \notin Administrative
  BY <1>2, <1>4, <1>5
<1>7. WellFormed(req[p])'
  BY <1>2, <1>5 DEF WellFormed
<1>8. QED
  BY <1>2, <1>6, <1>7 DEF RequestInv

LEMMA RollbackLemma ==
  ASSUME IInv, NEW p \in Proc, Rollback(p)
  PROVE  IInv'
<1>1. TypeOK /\ ForUpdateHeld /\ ReleaseLocks(p) /\ EndRequest(p) /\ UNCHANGED store
  BY DEF IInv, Rollback
<1>2. RequestInv(p)' /\ WritesInv(p)' /\ LockInv(p)'
  BY <1>1, ReleaseLemma, EndLemma, NothingWrittenLemma DEF NoRequest
<1>3. TypeOK'
  BY <1>1, ReleaseLemma, EndLemma DEF TypeOK, store
<1>4. Alone(p)
  BY <1>1, ReleaseLemma, EndLemma DEF Alone
<1>5. QED
  BY <1>1, <1>2, <1>3, <1>4, ReleaseLemma, RowLemma

LEMMA RetryLemma ==
  ASSUME IInv, NEW p \in Proc, Retry(p)
  PROVE  IInv'
<1>1. TypeOK /\ ForUpdateHeld /\ RequestInv(p) /\ ReleaseLocks(p) /\ UNCHANGED <<store, req>>
  BY DEF IInv, Retry
<1>2. /\ req[p].kind \in Kind /\ ~At(p, "authorize")
      /\ pc' = [pc EXCEPT ![p] = FirstStatement(req[p].kind)]
  BY <1>1, PlaceLemma DEF Retry, Goto, At
<1>3. FirstStatement(req[p].kind) \in Places(req[p].kind) \cap PC
  BY <1>2 DEF Kind, FirstStatement, Places, PC
<1>4. pc'[p] = FirstStatement(req[p].kind) /\ pc' \in [Proc -> PC]
  BY <1>1, <1>2, <1>3 DEF TypeOK
<1>5. RequestInv(p)'
  <2>1. WellFormed(req[p])' /\ (SelfAllowed(req[p]) => SelfAllowed(req[p])')
    BY <1>1 DEF WellFormed, RequestInv, SelfAllowed
  <2>2. QED
    BY <1>1, <1>2, <1>3, <1>4, <2>1 DEF RequestInv
<1>6. /\ pc'[p] \notin {"revoke", "readRoles"}
      /\ req[p].kind = "remove" => pc'[p] \notin {"lock", "revoke", "audit"}
      /\ req[p].kind = "assign" => pc'[p] # "audit"
  BY <1>2, <1>4 DEF Kind, FirstStatement
<1>7. WritesInv(p)' /\ LockInv(p)'
  BY <1>1, <1>5, <1>6, ReleaseLemma, NothingWrittenLemma
<1>8. TypeOK'
  BY <1>1, <1>4, ReleaseLemma DEF TypeOK, store
<1>9. Alone(p)
  BY <1>1, <1>2, ReleaseLemma DEF Alone, TypeOK
<1>10. QED
  BY <1>1, <1>5, <1>7, <1>8, <1>9, ReleaseLemma, RowLemma

-----------------------------------------------------------------------------
(* The statements.                                                         *)

LockTypes ==
  /\ writer' \in [User -> Proc \cup {None}] /\ forUpdate' \in SUBSET User
  /\ share' \in [User -> SUBSET Proc] /\ roleRow' \in [Role -> Proc \cup {None}]
  /\ key' \in [User -> [Role -> Proc \cup {None}]]

\* A statement moves p to `label' and leaves w in its record.
LEMMA StatementLemma ==
  ASSUME IInv, NEW p \in Proc, NEW label, NEW w \in Writes,
         UNCHANGED <<store, req>>, ~At(p, "idle"),
         label \in Places(req[p].kind) \cap PC,
         At(p, "authorize") => SelfAllowed(req[p]),
         pc' = [pc EXCEPT ![p] = label], ws' = [ws EXCEPT ![p] = w],
         LockTypes, ForUpdateHeld',
         \A u \in User : writer[u] \in Proc \ {p} =>
           /\ writer'[u] = writer[u]
           /\ u \in forUpdate => u \in forUpdate',
         WritesInv(p)', LockInv(p)'
  PROVE  IInv'
<1>1. TypeOK /\ RequestInv(p)
  BY DEF IInv
<1>2. TypeOK'
  BY <1>1 DEF TypeOK, LockTypes, store
<1>3. Alone(p)
  BY <1>1 DEF Alone, TypeOK
<1>4. RequestInv(p)'
  <2>1. WellFormed(req[p])' /\ (SelfAllowed(req[p]) => SelfAllowed(req[p])')
    BY <1>1 DEF WellFormed, RequestInv, SelfAllowed
  <2>2. pc'[p] = label
    BY <1>1 DEF TypeOK
  <2>3. QED
    BY <1>1, <2>1, <2>2 DEF RequestInv, At
<1>5. QED
  BY <1>2, <1>3, <1>4, RowLemma

LEMMA AuthorizeLemma ==
  ASSUME IInv, NEW p \in Proc, Authorize(p)
  PROVE  IInv'
<1>1. TypeOK /\ RequestInv(p) /\ WritesInv(p) /\ LockInv(p) /\ ForUpdateHeld
  BY DEF IInv
<1>2. req[p].kind \in Administrative /\ req[p].kind \in Kind
  BY <1>1, PlaceLemma DEF Authorize, Administrative, Kind
<1>3. /\ ws[p].filled = {} /\ ws[p].given = {} /\ ws[p].taken = {} /\ ws[p].opened = {}
      /\ ws[p].audit # "written" /\ ws[p].status \notin Status
  BY <1>1, <1>2 DEF WritesInv, Authorize, At, Administrative
<1>4. CASE EndRequest(p)
  <2>1. pc' \in [Proc -> PC] /\ req' \in [Proc -> Request] /\ RequestInv(p)'
        /\ pc'[p] = "idle" /\ \A q \in Proc \ {p} : pc'[q] = pc[q] /\ req'[q] = req[q]
    BY <1>1, <1>4, EndLemma
  <2>2. ws'[p] = ws[p]
    BY DEF Authorize
  <2>3. WritesInv(p)' /\ LockInv(p)'
    BY <1>3, <2>1, <2>2 DEF WritesInv, LockInv, At
  <2>4. QED
    BY <2>1, <2>3, QuietLemma DEF Authorize
<1>5. CASE Goto(p, FirstStatement(req[p].kind)) /\ UNCHANGED req /\ SelfAllowed(req[p])
  <2>1. FirstStatement(req[p].kind) \in Places(req[p].kind) \cap PC
        /\ FirstStatement(req[p].kind) \in {"update", "upsert", "take", "lock"}
        /\ (req[p].kind = "remove" => FirstStatement(req[p].kind) = "take")
    BY <1>2 DEF Administrative, FirstStatement, Places, PC
  <2>2. pc'[p] = FirstStatement(req[p].kind) /\ ws'[p] = ws[p] /\ ws[p] \in Writes
    BY <1>1, <1>5, <2>1 DEF TypeOK, Goto, Authorize
  <2>3. WritesInv(p)' /\ LockInv(p)'
    BY <1>1, <1>3, <1>5, <2>1, <2>2 DEF WritesInv, LockInv, At
  <2>4. ws' = [ws EXCEPT ![p] = ws[p]]
    BY <1>1 DEF TypeOK, Authorize
  <2>5. LockTypes /\ ForUpdateHeld'
    BY <1>1 DEF LockTypes, TypeOK, Authorize, locks, ForUpdateHeld
  <2>6. QED
    BY <1>5, <2>1, <2>2, <2>3, <2>4, <2>5, StatementLemma DEF Authorize, Goto, At, locks
<1>6. QED
  BY <1>4, <1>5 DEF Authorize

LEMMA UpdateUserStatusLemma ==
  ASSUME IInv, NEW p \in Proc, UpdateUserStatus(p)
  PROVE  IInv'
<1> DEFINE label == IF req[p].status \in Barred THEN "lock" ELSE "audit"
           w == [ws[p] EXCEPT !.status = req[p].status]
<1>1. TypeOK /\ RequestInv(p) /\ WritesInv(p) /\ LockInv(p) /\ ForUpdateHeld
  BY DEF IInv
<1>2. /\ req[p].kind = "setStatus" /\ req[p].status \in Status /\ req[p].user \in User
      /\ pc[p] = "update" /\ writer[req[p].user] \in {None, p}
      /\ writer' = [writer EXCEPT ![req[p].user] = p]
  BY <1>1, PlaceLemma DEF UpdateUserStatus, RequestInv, WellFormed, CanUpdate, At, Kind
<1>3. label \in Places(req[p].kind) \cap PC /\ label \in {"lock", "audit"}
  BY <1>2 DEF Places, PC
<1>4. ws[p] \in Writes /\ w \in Writes /\ ws' = [ws EXCEPT ![p] = w] /\ ws'[p] = w
  <2>1. ws[p] \in Writes
    BY <1>1 DEF TypeOK
  <2>2. w \in Writes
    BY <2>1, <1>2 DEF Writes
  <2>3. ws' = [ws EXCEPT ![p] = w]
    BY DEF UpdateUserStatus
  <2>4. ws'[p] = w
    BY <2>3, <1>1 DEF TypeOK
  <2>5. QED
    BY <2>1, <2>2, <2>3, <2>4
<1>5. pc' = [pc EXCEPT ![p] = label] /\ pc'[p] = label
  BY <1>1 DEF UpdateUserStatus, Goto, TypeOK
<1>6. /\ w.status = req[p].status /\ w.filled = ws[p].filled /\ w.given = ws[p].given
      /\ w.taken = ws[p].taken /\ w.opened = ws[p].opened /\ w.audit = ws[p].audit
  BY <1>4 DEF Writes
<1> HIDE DEF label, w
<1>7. WritesInv(p)' /\ LockInv(p)'
  BY <1>1, <1>2, <1>3, <1>4, <1>5, <1>6 DEF WritesInv, LockInv, UpdateUserStatus, At
<1>8. LockTypes /\ ForUpdateHeld'
  BY <1>1, <1>2 DEF LockTypes, TypeOK, UpdateUserStatus, ForUpdateHeld
<1>9. \A u \in User : writer[u] \in Proc \ {p} => writer'[u] = writer[u]
  BY <1>1, <1>2, RoleAssumption DEF TypeOK
<1>10. QED
  BY <1>2, <1>3, <1>4, <1>5, <1>7, <1>8, <1>9, StatementLemma DEF UpdateUserStatus, At

LEMMA FindActiveUserLemma ==
  ASSUME IInv, NEW p \in Proc, FindActiveUser(p)
  PROVE  IInv'
<1>1. CASE Goto(p, "upsert") /\ UNCHANGED <<req, ws, locks>>
  <2>1. TypeOK /\ RequestInv(p) /\ WritesInv(p) /\ LockInv(p) /\ ForUpdateHeld
    BY DEF IInv
  <2>2. req[p].kind = "bootstrap" /\ pc[p] = "find"
    BY <2>1, PlaceLemma DEF FindActiveUser, At
  <2>3. "upsert" \in Places(req[p].kind) \cap PC
    BY <2>2 DEF Places, PC
  <2>4. ws[p] \in Writes /\ ws' = [ws EXCEPT ![p] = ws[p]] /\ ws'[p] = ws[p]
        /\ pc'[p] = "upsert" /\ req'[p] = req[p]
    BY <1>1, <2>1 DEF TypeOK, Goto
  <2>5. WritesInv(p)' /\ LockInv(p)'
    BY <2>1, <2>2, <2>4 DEF WritesInv, LockInv, At
  <2>6. LockTypes /\ ForUpdateHeld'
    BY <1>1, <2>1 DEF LockTypes, TypeOK, locks, ForUpdateHeld
  <2>7. QED
    BY <1>1, <2>2, <2>3, <2>4, <2>5, <2>6, StatementLemma
       DEF FindActiveUser, Goto, At, locks
<1>2. CASE ReleaseLocks(p) /\ EndRequest(p)
  BY <1>2, RollbackLemma DEF FindActiveUser, Rollback
<1>3. QED
  BY <1>1, <1>2 DEF FindActiveUser

\* UPDATEs and DELETEs of no row, and an INSERT that conflicts.
LEMMA NoRowLemma ==
  ASSUME IInv, NEW p \in Proc, AlreadyGiven(p) \/ NothingTaken(p)
  PROVE  IInv'
<1> DEFINE label == IF req[p].kind \in {"assign", "remove"} THEN "commit" ELSE "lock"
<1>1. TypeOK /\ RequestInv(p) /\ WritesInv(p) /\ LockInv(p) /\ ForUpdateHeld
  BY DEF IInv
<1>2. /\ req[p].kind \in {"assign", "bootstrap", "remove"} /\ pc[p] \in {"give", "take"}
      /\ pc' = [pc EXCEPT ![p] = label] /\ UNCHANGED <<store, req, ws, locks>>
  BY <1>1, PlaceLemma DEF AlreadyGiven, NothingTaken, Goto, At
<1>3. label \in Places(req[p].kind) \cap PC /\ label \in {"lock", "commit"}
      /\ (req[p].kind = "remove" => label = "commit")
  BY <1>2 DEF Places, PC
<1>4. ws[p] \in Writes /\ ws' = [ws EXCEPT ![p] = ws[p]] /\ ws'[p] = ws[p]
      /\ pc'[p] = label /\ req'[p] = req[p]
  BY <1>1, <1>2 DEF TypeOK
<1> HIDE DEF label
<1>5. WritesInv(p)' /\ LockInv(p)'
  BY <1>1, <1>2, <1>3, <1>4 DEF WritesInv, LockInv, At
<1>6. LockTypes /\ ForUpdateHeld'
  BY <1>1, <1>2 DEF LockTypes, TypeOK, locks, ForUpdateHeld
<1>7. QED
  BY <1>2, <1>3, <1>4, <1>5, <1>6, StatementLemma DEF At, locks

LEMMA UpsertRoleLemma ==
  ASSUME IInv, NEW p \in Proc, UpsertRole(p)
  PROVE  IInv'
<1>1. TypeOK /\ RequestInv(p) /\ WritesInv(p) /\ LockInv(p) /\ ForUpdateHeld
  BY DEF IInv
<1>2. req[p].kind \in {"assign", "bootstrap"} /\ pc[p] = "upsert"
  BY <1>1, PlaceLemma DEF UpsertRole, At
<1>3. "give" \in Places(req[p].kind) \cap PC
  BY <1>2 DEF Places, PC
<1>4. ws[p] \in Writes /\ ws' = [ws EXCEPT ![p] = ws[p]] /\ ws'[p] = ws[p]
      /\ pc'[p] = "give" /\ req'[p] = req[p]
  BY <1>1 DEF TypeOK, UpsertRole, Goto
<1>5. WritesInv(p)' /\ LockInv(p)'
  BY <1>1, <1>2, <1>4 DEF WritesInv, LockInv, At
<1>6. LockTypes /\ ForUpdateHeld'
  BY <1>1 DEF LockTypes, TypeOK, UpsertRole, ForUpdateHeld
<1>7. QED
  BY <1>2, <1>3, <1>4, <1>5, <1>6, StatementLemma DEF UpsertRole, Goto, At

LEMMA GiveRoleLemma ==
  ASSUME IInv, NEW p \in Proc, GiveRole(p)
  PROVE  IInv'
<1> DEFINE label == IF req[p].kind = "assign" THEN "audit" ELSE "lock"
           w == [ws[p] EXCEPT !.given = {req[p].role}]
<1>1. TypeOK /\ RequestInv(p) /\ WritesInv(p) /\ LockInv(p) /\ ForUpdateHeld
  BY DEF IInv
<1>2. /\ req[p].kind \in {"assign", "bootstrap"} /\ req[p].role \in Role
      /\ req[p].user \in User /\ pc[p] = "give"
  BY <1>1, PlaceLemma, RoleAssumption DEF GiveRole, RequestInv, WellFormed, At, Kind
<1>3. label \in Places(req[p].kind) \cap PC /\ label \in {"lock", "audit"}
  BY <1>2 DEF Places, PC
<1>4. ws[p] \in Writes /\ w \in Writes /\ ws' = [ws EXCEPT ![p] = w] /\ ws'[p] = w
  <2>1. ws[p] \in Writes
    BY <1>1 DEF TypeOK
  <2>2. w \in Writes
    BY <2>1, <1>1, <1>2 DEF Writes, TypeOK
  <2>3. ws' = [ws EXCEPT ![p] = w]
    BY DEF GiveRole
  <2>4. ws'[p] = w
    BY <2>3, <1>1 DEF TypeOK
  <2>5. QED
    BY <2>1, <2>2, <2>3, <2>4
<1>5. pc' = [pc EXCEPT ![p] = label] /\ pc'[p] = label
  BY <1>1 DEF GiveRole, Goto, TypeOK
<1>6. /\ w.given = {req[p].role} /\ w.status = ws[p].status /\ w.filled = ws[p].filled
      /\ w.taken = ws[p].taken /\ w.opened = ws[p].opened /\ w.audit = ws[p].audit
  BY <1>4 DEF Writes
<1> HIDE DEF label, w
<1>7. WritesInv(p)' /\ LockInv(p)'
  BY <1>1, <1>2, <1>3, <1>4, <1>5, <1>6 DEF WritesInv, LockInv, GiveRole, At
<1>8. LockTypes /\ ForUpdateHeld'
  <2>1. key' \in [User -> [Role -> Proc \cup {None}]]
    <3>1. [key[req[p].user] EXCEPT ![req[p].role] = p] \in [Role -> Proc \cup {None}]
      BY <1>1, <1>2 DEF TypeOK
    <3>2. key' = [key EXCEPT ![req[p].user] = [key[req[p].user] EXCEPT ![req[p].role] = p]]
      BY DEF GiveRole
    <3>3. QED
      BY <3>1, <3>2, <1>1 DEF TypeOK
  <2>2. share' \in [User -> SUBSET Proc]
    BY <1>1 DEF TypeOK, GiveRole
  <2>3. QED
    BY <1>1, <2>1, <2>2 DEF LockTypes, TypeOK, GiveRole, ForUpdateHeld
<1>9. QED
  BY <1>2, <1>3, <1>4, <1>5, <1>7, <1>8, StatementLemma DEF GiveRole, At

LEMMA TakeRoleLemma ==
  ASSUME IInv, NEW p \in Proc, TakeRole(p)
  PROVE  IInv'
<1> DEFINE w == [ws[p] EXCEPT !.taken = {req[p].role}]
<1>1. TypeOK /\ RequestInv(p) /\ WritesInv(p) /\ LockInv(p) /\ ForUpdateHeld
  BY DEF IInv
<1>2. /\ req[p].kind = "remove" /\ req[p].role \in Role /\ req[p].user \in User
      /\ pc[p] = "take"
  BY <1>1, PlaceLemma DEF TakeRole, RequestInv, WellFormed, At, Kind
<1>3. "lock" \in Places(req[p].kind) \cap PC
  BY <1>2 DEF Places, PC
<1>4. ws[p] \in Writes /\ w \in Writes /\ ws' = [ws EXCEPT ![p] = w] /\ ws'[p] = w
  <2>1. ws[p] \in Writes
    BY <1>1 DEF TypeOK
  <2>2. w \in Writes
    BY <2>1, <1>1, <1>2 DEF Writes, TypeOK
  <2>3. ws' = [ws EXCEPT ![p] = w]
    BY DEF TakeRole
  <2>4. ws'[p] = w
    BY <2>3, <1>1 DEF TypeOK
  <2>5. QED
    BY <2>1, <2>2, <2>3, <2>4
<1>5. pc' = [pc EXCEPT ![p] = "lock"] /\ pc'[p] = "lock"
  BY <1>1 DEF TakeRole, Goto, TypeOK
<1>6. /\ w.taken = {req[p].role} /\ w.status = ws[p].status /\ w.filled = ws[p].filled
      /\ w.given = ws[p].given /\ w.opened = ws[p].opened /\ w.audit = ws[p].audit
  BY <1>4 DEF Writes
<1> HIDE DEF w
<1>7. WritesInv(p)' /\ LockInv(p)'
  BY <1>1, <1>2, <1>4, <1>5, <1>6 DEF WritesInv, LockInv, TakeRole, At
<1>8. LockTypes /\ ForUpdateHeld'
  <2>1. key' \in [User -> [Role -> Proc \cup {None}]]
    <3>1. [key[req[p].user] EXCEPT ![req[p].role] = p] \in [Role -> Proc \cup {None}]
      BY <1>1, <1>2 DEF TypeOK
    <3>2. key' = [key EXCEPT ![req[p].user] = [key[req[p].user] EXCEPT ![req[p].role] = p]]
      BY DEF TakeRole
    <3>3. QED
      BY <3>1, <3>2, <1>1 DEF TypeOK
  <2>2. QED
    BY <1>1, <2>1 DEF LockTypes, TypeOK, TakeRole, ForUpdateHeld
<1>9. QED
  BY <1>2, <1>3, <1>4, <1>5, <1>7, <1>8, StatementLemma DEF TakeRole, At

\* The user is locked FOR UPDATE.
LEMMA ForUpdateLemma ==
  ASSUME IInv, NEW p \in Proc, req[p].user \in User, TakeForUpdate(p, req[p].user)
  PROVE  /\ LockTypes /\ ForUpdateHeld'
         /\ writer'[req[p].user] = p /\ req[p].user \in forUpdate'
         /\ \A u \in User : writer[u] \in Proc \ {p} =>
              writer'[u] = writer[u] /\ (u \in forUpdate => u \in forUpdate')
  BY RoleAssumption DEF IInv, TakeForUpdate, CanUpdate, LockTypes, TypeOK, ForUpdateHeld

LEMMA LockUserForRevocationLemma ==
  ASSUME IInv, NEW p \in Proc, LockUserForRevocation(p)
  PROVE  IInv'
<1>1. TypeOK /\ RequestInv(p) /\ WritesInv(p) /\ LockInv(p)
  BY DEF IInv
<1>2. /\ req[p].kind \in {"setStatus", "remove", "revokeSessions", "bootstrap"}
      /\ req[p].user \in User /\ pc[p] = "lock"
  BY <1>1, PlaceLemma DEF LockUserForRevocation, At, Kind
<1>3. "revoke" \in Places(req[p].kind) \cap PC
  BY <1>2 DEF Places, PC
<1>4. ws[p] \in Writes /\ ws' = [ws EXCEPT ![p] = ws[p]] /\ ws'[p] = ws[p]
      /\ pc'[p] = "revoke" /\ req'[p] = req[p]
  BY <1>1 DEF TypeOK, LockUserForRevocation, Goto
<1>5. Holds(p)'
  BY <1>2, <1>4, ForUpdateLemma DEF Holds, LockUserForRevocation
<1>6. WritesInv(p)' /\ LockInv(p)'
  BY <1>1, <1>2, <1>4, <1>5 DEF WritesInv, LockInv, At
<1>7. QED
  BY <1>2, <1>3, <1>4, <1>6, ForUpdateLemma, StatementLemma
     DEF LockUserForRevocation, Goto, At

LEMMA LockActiveUserLemma ==
  ASSUME IInv, NEW p \in Proc, LockActiveUser(p)
  PROVE  IInv'
<1>1. TypeOK /\ RequestInv(p) /\ WritesInv(p) /\ LockInv(p)
  BY DEF IInv
<1>2. req[p].kind = "issue" /\ req[p].user \in User /\ pc[p] = "lockActive"
  BY <1>1, PlaceLemma DEF LockActiveUser, At, Kind
<1>3. "readRoles" \in Places(req[p].kind) \cap PC
  BY <1>2 DEF Places, PC
<1>4. ws[p] \in Writes /\ ws' = [ws EXCEPT ![p] = ws[p]] /\ ws'[p] = ws[p]
      /\ pc'[p] = "readRoles" /\ req'[p] = req[p]
  BY <1>1 DEF TypeOK, LockActiveUser, Goto
<1>5. Holds(p)'
  BY <1>2, <1>4, ForUpdateLemma DEF Holds, LockActiveUser
<1>6. WritesInv(p)' /\ LockInv(p)'
  BY <1>1, <1>2, <1>4, <1>5 DEF WritesInv, LockInv, At
<1>7. QED
  BY <1>2, <1>3, <1>4, <1>6, ForUpdateLemma, StatementLemma
     DEF LockActiveUser, Goto, At

LEMMA RevokeTokensLemma ==
  ASSUME IInv, NEW p \in Proc, RevokeTokens(p)
  PROVE  IInv'
<1> DEFINE w == [ws[p] EXCEPT !.ended = live[req[p].user]]
<1>1. TypeOK /\ RequestInv(p) /\ WritesInv(p) /\ LockInv(p) /\ ForUpdateHeld
  BY DEF IInv
<1>2. /\ req[p].kind \in {"setStatus", "remove", "revokeSessions", "bootstrap"}
      /\ req[p].user \in User /\ pc[p] = "revoke"
  BY <1>1, PlaceLemma DEF RevokeTokens, At, Kind
<1>3. "audit" \in Places(req[p].kind) \cap PC
  BY <1>2 DEF Places, PC
<1>4. ws[p] \in Writes /\ w \in Writes /\ ws' = [ws EXCEPT ![p] = w] /\ ws'[p] = w
  <2>1. ws[p] \in Writes
    BY <1>1 DEF TypeOK
  <2>2. w \in Writes
    <3>1. live[req[p].user] \in SUBSET SUBSET Role
      BY <1>1, <1>2 DEF TypeOK
    <3>2. QED
      BY <2>1, <3>1 DEF Writes
  <2>3. ws' = [ws EXCEPT ![p] = w]
    BY DEF RevokeTokens
  <2>4. ws'[p] = w
    BY <2>3, <1>1 DEF TypeOK
  <2>5. QED
    BY <2>1, <2>2, <2>3, <2>4
<1>5. pc' = [pc EXCEPT ![p] = "audit"] /\ pc'[p] = "audit"
  BY <1>1 DEF RevokeTokens, Goto, TypeOK
<1>6. /\ w.ended = live[req[p].user] /\ w.given = ws[p].given /\ w.status = ws[p].status
      /\ w.filled = ws[p].filled /\ w.taken = ws[p].taken /\ w.opened = ws[p].opened
      /\ w.audit = ws[p].audit
  BY <1>4 DEF Writes
<1> HIDE DEF w
<1>7. Holds(p) /\ Holds(p)'
  BY <1>1, <1>2 DEF LockInv, Holds, RevokeTokens, locks
<1>8. WritesInv(p)' /\ LockInv(p)'
  BY <1>1, <1>2, <1>4, <1>5, <1>6, <1>7 DEF WritesInv, LockInv, RevokeTokens, At, store
<1>9. LockTypes /\ ForUpdateHeld'
  BY <1>1 DEF LockTypes, TypeOK, RevokeTokens, ForUpdateHeld, locks
<1>10. QED
  BY <1>2, <1>3, <1>4, <1>5, <1>8, <1>9, StatementLemma DEF RevokeTokens, At, locks

LEMMA WriteAuditLemma ==
  ASSUME IInv, NEW p \in Proc, WriteAudit(p)
  PROVE  IInv'
<1> DEFINE w == [ws[p] EXCEPT !.audit = "written"]
<1>1. TypeOK /\ RequestInv(p) /\ WritesInv(p) /\ LockInv(p) /\ ForUpdateHeld
  BY DEF IInv
<1>2. /\ req[p].kind \in {"setStatus", "assign", "remove", "revokeSessions", "bootstrap"}
      /\ pc[p] = "audit"
  BY <1>1, PlaceLemma DEF WriteAudit, At
<1>3. "commit" \in Places(req[p].kind) \cap PC
  BY <1>2 DEF Places, PC
<1>4. ws[p] \in Writes /\ w \in Writes /\ ws' = [ws EXCEPT ![p] = w] /\ ws'[p] = w
  <2>1. ws[p] \in Writes
    BY <1>1 DEF TypeOK
  <2>2. w \in Writes
    BY <2>1, <1>1, <1>2 DEF Writes, TypeOK
  <2>3. ws' = [ws EXCEPT ![p] = w]
    BY DEF WriteAudit
  <2>4. ws'[p] = w
    BY <2>3, <1>1 DEF TypeOK
  <2>5. QED
    BY <2>1, <2>2, <2>3, <2>4
<1>5. pc' = [pc EXCEPT ![p] = "commit"] /\ pc'[p] = "commit"
  BY <1>1 DEF WriteAudit, Goto, TypeOK
<1>6. /\ w.audit = "written" /\ w.given = ws[p].given /\ w.status = ws[p].status
      /\ w.filled = ws[p].filled /\ w.taken = ws[p].taken /\ w.opened = ws[p].opened
      /\ w.ended = ws[p].ended
  BY <1>4 DEF Writes
<1> HIDE DEF w
<1>7. Holds(p) => Holds(p)'
  BY DEF Holds, WriteAudit
<1>8. WritesInv(p)' /\ LockInv(p)'
  BY <1>1, <1>2, <1>4, <1>5, <1>6, <1>7 DEF WritesInv, LockInv, WriteAudit, At, store
<1>9. LockTypes /\ ForUpdateHeld'
  BY <1>1 DEF LockTypes, TypeOK, WriteAudit, ForUpdateHeld
<1>10. QED
  BY <1>2, <1>3, <1>4, <1>5, <1>8, <1>9, StatementLemma DEF WriteAudit, At

LEMMA ReadRolesLemma ==
  ASSUME IInv, NEW p \in Proc, ReadRoles(p)
  PROVE  IInv'
<1> DEFINE w == [ws[p] EXCEPT !.opened = {roles[req[p].user]}]
<1>1. TypeOK /\ RequestInv(p) /\ WritesInv(p) /\ LockInv(p) /\ ForUpdateHeld
  BY DEF IInv
<1>2. req[p].kind = "issue" /\ req[p].user \in User /\ pc[p] = "readRoles"
  BY <1>1, PlaceLemma DEF ReadRoles, At, Kind
<1>3. "commit" \in Places(req[p].kind) \cap PC
  BY <1>2 DEF Places, PC
<1>4. ws[p] \in Writes /\ w \in Writes /\ ws' = [ws EXCEPT ![p] = w] /\ ws'[p] = w
  <2>1. ws[p] \in Writes
    BY <1>1 DEF TypeOK
  <2>2. w \in Writes
    <3>1. roles[req[p].user] \in SUBSET Role
      BY <1>1, <1>2 DEF TypeOK
    <3>2. QED
      BY <2>1, <3>1 DEF Writes
  <2>3. ws' = [ws EXCEPT ![p] = w]
    BY DEF ReadRoles
  <2>4. ws'[p] = w
    BY <2>3, <1>1 DEF TypeOK
  <2>5. QED
    BY <2>1, <2>2, <2>3, <2>4
<1>5. pc' = [pc EXCEPT ![p] = "commit"] /\ pc'[p] = "commit"
  BY <1>1 DEF ReadRoles, Goto, TypeOK
<1>6. /\ w.opened = {roles[req[p].user]} /\ w.given = ws[p].given /\ w.status = ws[p].status
      /\ w.filled = ws[p].filled /\ w.taken = ws[p].taken /\ w.audit = ws[p].audit
  BY <1>4 DEF Writes
<1> HIDE DEF w
<1>7. Holds(p) /\ Holds(p)'
  BY <1>1, <1>2 DEF LockInv, Holds, ReadRoles, locks
<1>8. WritesInv(p)' /\ LockInv(p)'
  BY <1>1, <1>2, <1>4, <1>5, <1>6, <1>7 DEF WritesInv, LockInv, ReadRoles, At, store
<1>9. LockTypes /\ ForUpdateHeld'
  BY <1>1 DEF LockTypes, TypeOK, ReadRoles, ForUpdateHeld, locks
<1>10. QED
  BY <1>2, <1>3, <1>4, <1>5, <1>8, <1>9, StatementLemma DEF ReadRoles, At, locks

LEMMA TakeSnapshotLemma ==
  ASSUME IInv, NEW p \in Proc, TakeSnapshot(p)
  PROVE  IInv'
<1> DEFINE w == [ws[p] EXCEPT !.filled = {u \in User : roles[u] = {}}]
<1>1. TypeOK /\ RequestInv(p) /\ WritesInv(p) /\ LockInv(p) /\ ForUpdateHeld
  BY DEF IInv
<1>2. req[p].kind = "backfill" /\ pc[p] = "snapshot"
  BY <1>1, PlaceLemma DEF TakeSnapshot, At
<1>3. "fill" \in Places(req[p].kind) \cap PC
  BY <1>2 DEF Places, PC
<1>4. ws[p] \in Writes /\ w \in Writes /\ ws' = [ws EXCEPT ![p] = w] /\ ws'[p] = w
  <2>1. ws[p] \in Writes
    BY <1>1 DEF TypeOK
  <2>2. w \in Writes
    BY <2>1, <1>1, <1>2 DEF Writes, TypeOK
  <2>3. ws' = [ws EXCEPT ![p] = w]
    BY DEF TakeSnapshot
  <2>4. ws'[p] = w
    BY <2>3, <1>1 DEF TypeOK
  <2>5. QED
    BY <2>1, <2>2, <2>3, <2>4
<1>5. pc' = [pc EXCEPT ![p] = "fill"] /\ pc'[p] = "fill"
  BY <1>1 DEF TakeSnapshot, Goto, TypeOK
<1>6. /\ w.opened = ws[p].opened /\ w.given = ws[p].given /\ w.status = ws[p].status
      /\ w.taken = ws[p].taken /\ w.audit = ws[p].audit
  BY <1>4 DEF Writes
<1> HIDE DEF w
<1>7. WritesInv(p)' /\ LockInv(p)'
  BY <1>1, <1>2, <1>4, <1>5, <1>6 DEF WritesInv, LockInv, TakeSnapshot, At, store
<1>8. LockTypes /\ ForUpdateHeld'
  BY <1>1 DEF LockTypes, TypeOK, TakeSnapshot, ForUpdateHeld, locks
<1>9. QED
  BY <1>2, <1>3, <1>4, <1>5, <1>7, <1>8, StatementLemma DEF TakeSnapshot, At, locks

LEMMA FillRolelessLemma ==
  ASSUME IInv, NEW p \in Proc, FillRoleless(p)
  PROVE  IInv'
<1>1. TypeOK /\ RequestInv(p) /\ WritesInv(p) /\ LockInv(p) /\ ForUpdateHeld
  BY DEF IInv
<1>2. req[p].kind = "backfill" /\ pc[p] = "fill"
  BY <1>1, PlaceLemma DEF FillRoleless, At
<1>3. "commit" \in Places(req[p].kind) \cap PC
  BY <1>2 DEF Places, PC
<1>4. ws[p] \in Writes /\ ws' = [ws EXCEPT ![p] = ws[p]] /\ ws'[p] = ws[p]
      /\ pc'[p] = "commit" /\ req'[p] = req[p]
  BY <1>1 DEF TypeOK, FillRoleless, Goto
<1>5. WritesInv(p)' /\ LockInv(p)'
  BY <1>1, <1>2, <1>4 DEF WritesInv, LockInv, At
<1>6. LockTypes /\ ForUpdateHeld'
  <2>1. \A u \in User : [key[u] EXCEPT ![DefaultRole] = p] \in [Role -> Proc \cup {None}]
    BY <1>1 DEF TypeOK
  <2>2. key' \in [User -> [Role -> Proc \cup {None}]]
    BY <1>1, <2>1 DEF FillRoleless, TypeOK
  <2>3. share' \in [User -> SUBSET Proc]
    BY <1>1 DEF FillRoleless, TypeOK
  <2>4. QED
    BY <1>1, <2>2, <2>3 DEF LockTypes, TypeOK, FillRoleless, ForUpdateHeld
<1>7. QED
  BY <1>2, <1>3, <1>4, <1>5, <1>6, StatementLemma DEF FillRoleless, Goto, At

LEMMA CommitLemma ==
  ASSUME IInv, NEW p \in Proc, Commit(p)
  PROVE  IInv'
<1>1. TypeOK /\ ForUpdateHeld /\ ReleaseLocks(p) /\ EndRequest(p)
      /\ WritesInv(p) /\ LockInv(p) /\ ws[p] \in Writes /\ pc[p] = "commit"
  BY DEF IInv, Commit, TypeOK, At
<1>2. RequestInv(p)' /\ WritesInv(p)' /\ LockInv(p)'
  BY <1>1, ReleaseLemma, EndLemma, NothingWrittenLemma DEF NoRequest
<1>3. TypeOK'
  <2>1. status' \in [User -> Status]
    BY <1>1 DEF Commit, TypeOK
  <2>2. ws[p].given \in SUBSET Role /\ ws[p].ended \in SUBSET SUBSET Role
        /\ ws[p].opened \in SUBSET SUBSET Role
    BY <1>1 DEF Writes
  <2>3. roles' \in [User -> SUBSET Role]
    <3>1. \A u \in User :
            (IF u = req[p].user THEN (roles[u] \ ws[p].taken) \cup ws[p].given
                                ELSE roles[u])
            \cup (IF u \in ws[p].filled THEN {DefaultRole} ELSE {}) \in SUBSET Role
      BY <1>1, <2>2, RoleAssumption DEF TypeOK
    <3>2. QED
      BY <3>1 DEF Commit
  <2>4. live' \in [User -> SUBSET SUBSET Role]
    <3>1. \A u \in User :
            (live[u] \ ws[p].ended) \cup ws[p].opened \in SUBSET SUBSET Role
      BY <1>1, <2>2 DEF TypeOK
    <3>2. QED
      BY <1>1, <3>1 DEF Commit, TypeOK
  <2>5. audited' \in [User -> Int]
    <3>1. Audits(p) \in Int
      BY DEF Audits
    <3>2. QED
      BY <1>1, <3>1 DEF Commit, TypeOK
  <2>6. QED
    BY <1>1, <2>1, <2>3, <2>4, <2>5, ReleaseLemma, EndLemma DEF TypeOK
<1>4. ASSUME NEW u \in User, NEW q \in Proc \ {p}, writer[u] = q, u \in forUpdate
      PROVE  live'[u] \subseteq live[u] /\ roles[u] \subseteq roles'[u]
  <2>1. u = req[p].user => ~Holds(p)
    BY <1>4 DEF Holds
  <2>2. u = req[p].user => ws[p].taken = {} /\ ws[p].opened = {}
    BY <1>1, <2>1 DEF LockInv
  <2>3. live'[u] \subseteq live[u]
    BY <2>2 DEF Commit
  <2>4. roles[u] \subseteq roles'[u]
    BY <2>2 DEF Commit
  <2>5. QED
    BY <2>3, <2>4
<1>5. \A q \in Proc \ {p} : Undisturbed(q)
  BY <1>1, <1>4, ReleaseLemma, EndLemma DEF Undisturbed
<1>6. QED
  BY <1>1, <1>2, <1>3, <1>5, ReleaseLemma, StepLemma

-----------------------------------------------------------------------------
(* Arrivals, and the whole.                                                *)

LEMMA StartLemma ==
  ASSUME IInv, NEW p \in Proc, Start(p)
  PROVE  IInv'
<1>1. CASE StartIssue(p)
  <2>1. PICK u \in User : Arrive(p, [NoRequest EXCEPT !.kind = "issue", !.user = u])
    BY <1>1 DEF StartIssue
  <2> DEFINE q == [NoRequest EXCEPT !.kind = "issue", !.user = u]
  <2>2. q \in Request /\ WellFormed(q)
    BY RoleAssumption DEF NoRequest, Request, Kind, WellFormed, Administrative
  <2>3. QED
    BY <2>1, <2>2, ArriveLemma
<1>2. CASE StartSetStatus(p)
  <2>1. PICK a \in User, u \in User, s \in Statuses :
          Arrive(p, [NoRequest EXCEPT !.kind = "setStatus", !.actor = a, !.user = u,
                                      !.status = s])
    BY <1>2 DEF StartSetStatus
  <2> DEFINE q == [NoRequest EXCEPT !.kind = "setStatus", !.actor = a, !.user = u,
                                    !.status = s]
  <2>2. q \in Request /\ WellFormed(q)
    BY RoleAssumption, BoundAssumption
       DEF NoRequest, Request, Kind, WellFormed, Administrative
  <2>3. QED
    BY <2>1, <2>2, ArriveLemma
<1>3. CASE StartRoleChange(p)
  <2>1. PICK a \in User, u \in User, r \in Role, k \in {"assign", "remove"} :
          Arrive(p, [NoRequest EXCEPT !.kind = k, !.actor = a, !.user = u, !.role = r])
    BY <1>3 DEF StartRoleChange
  <2> DEFINE q == [NoRequest EXCEPT !.kind = k, !.actor = a, !.user = u, !.role = r]
  <2>2. q \in Request /\ WellFormed(q)
    BY RoleAssumption DEF NoRequest, Request, Kind, WellFormed, Administrative
  <2>3. QED
    BY <2>1, <2>2, ArriveLemma
<1>4. CASE StartRevokeSessions(p)
  <2>1. PICK a \in User, u \in User :
          Arrive(p, [NoRequest EXCEPT !.kind = "revokeSessions", !.actor = a, !.user = u])
    BY <1>4 DEF StartRevokeSessions
  <2> DEFINE q == [NoRequest EXCEPT !.kind = "revokeSessions", !.actor = a, !.user = u]
  <2>2. q \in Request /\ WellFormed(q)
    BY RoleAssumption DEF NoRequest, Request, Kind, WellFormed, Administrative
  <2>3. QED
    BY <2>1, <2>2, ArriveLemma
<1>5. CASE StartBootstrap(p)
  <2>1. PICK u \in User :
          Arrive(p, [NoRequest EXCEPT !.kind = "bootstrap", !.user = u, !.role = AdminRole])
    BY <1>5 DEF StartBootstrap
  <2> DEFINE q == [NoRequest EXCEPT !.kind = "bootstrap", !.user = u, !.role = AdminRole]
  <2>2. q \in Request /\ WellFormed(q)
    BY RoleAssumption DEF NoRequest, Request, Kind, WellFormed, Administrative
  <2>3. QED
    BY <2>1, <2>2, ArriveLemma
<1>6. CASE StartBackfill(p)
  <2> DEFINE q == [NoRequest EXCEPT !.kind = "backfill", !.role = DefaultRole]
  <2>1. q \in Request /\ WellFormed(q)
    BY RoleAssumption DEF NoRequest, Request, Kind, WellFormed, Administrative
  <2>2. QED
    BY <1>6, <2>1, ArriveLemma DEF StartBackfill
<1>7. QED
  BY <1>1, <1>2, <1>3, <1>4, <1>5, <1>6 DEF Start

LEMMA InitLemma == Init => IInv
<1> SUFFICES ASSUME Init PROVE IInv
  OBVIOUS
<1>1. TypeOK
  <2>1. NoRequest \in Request /\ NoWrites \in Writes
    BY DEF NoRequest, Request, NoWrites, Writes
  <2>2. audited \in [User -> Int]
    <3>1. ASSUME NEW u \in User PROVE Cardinality(roles[u]) \in Nat
      <4>1. roles[u] = {} \/ roles[u] = {AdminRole}
        BY DEF Init
      <4>2. IsFiniteSet(roles[u])
        BY <4>1, FS_EmptySet, FS_Singleton
      <4>3. QED
        BY <4>2, FS_CardinalityType
    <3>2. QED
      BY <3>1 DEF Init
  <2>3. QED
    BY <2>1, <2>2, BoundAssumption, RoleAssumption DEF Init, TypeOK, PC
<1>2. ForUpdateHeld
  BY DEF Init, ForUpdateHeld
<1>3. ASSUME NEW p \in Proc
      PROVE  RequestInv(p) /\ WritesInv(p) /\ LockInv(p)
  <2>1. pc[p] = "idle" /\ req[p] = NoRequest /\ ws[p] = NoWrites
    BY DEF Init
  <2>2. RequestInv(p)
    BY <2>1, RoleAssumption
       DEF RequestInv, NoRequest, Places, WellFormed, Kind, Administrative
  <2>3. WritesInv(p) /\ LockInv(p)
    BY <2>1, RoleAssumption DEF WritesInv, LockInv, NoWrites, At
  <2>4. QED
    BY <2>2, <2>3
<1>4. QED
  BY <1>1, <1>2, <1>3 DEF IInv

LEMMA NextLemma == IInv /\ [Next]_vars => IInv'
<1> SUFFICES ASSUME IInv, [Next]_vars PROVE IInv'
  OBVIOUS
<1>1. CASE UNCHANGED vars
  BY <1>1 DEF IInv, vars, store, locks, TypeOK, ForUpdateHeld, RequestInv, WritesInv,
     LockInv, Holds, At, WellFormed, SelfAllowed
<1>2. ASSUME NEW p \in Proc, Start(p) \/ Statement(p) \/ Retry(p) \/ Fail(p)
      PROVE  IInv'
  <2>1. CASE Start(p)
    BY <2>1, StartLemma
  <2>2. CASE Retry(p)
    BY <2>2, RetryLemma
  <2>3. CASE Fail(p) \/ NoActiveUser(p)
    BY <2>3, RollbackLemma DEF Fail, NoActiveUser
  <2>4. CASE Statement(p) /\ ~NoActiveUser(p)
    BY <2>4, AuthorizeLemma, UpdateUserStatusLemma, FindActiveUserLemma,
       UpsertRoleLemma, GiveRoleLemma, NoRowLemma, TakeRoleLemma,
       LockUserForRevocationLemma, RevokeTokensLemma, WriteAuditLemma,
       LockActiveUserLemma, ReadRolesLemma, TakeSnapshotLemma, FillRolelessLemma,
       CommitLemma DEF Statement
  <2>5. QED
    BY <1>2, <2>1, <2>2, <2>3, <2>4
<1>3. QED
  BY <1>1, <1>2 DEF Next

\* Requests are of their kind, write what it lets them write, and hold the
\* lock on their user from the statement that relies on it to their commit.
THEOREM AdminInvariant == Spec => []IInv
<1>1. Init => IInv
  BY InitLemma
<1>2. IInv /\ [Next]_vars => IInv'
  BY NextLemma
<1>3. QED
  BY <1>1, <1>2, PTL DEF Spec
-----------------------------------------------------------------------------
(* What the invariant is for.                                              *)

\* Only commits change the committed rows.
LEMMA StoreLemma ==
  ASSUME [Next]_vars, ~UNCHANGED store
  PROVE  \E p \in Proc : Commit(p)
<1>1. ~UNCHANGED vars
  BY DEF vars
<1>2. PICK p \in Proc : Start(p) \/ Statement(p) \/ Retry(p) \/ Fail(p)
  BY <1>1 DEF Next
<1>3. CASE Start(p)
  BY <1>3 DEF Start, StartIssue, StartSetStatus, StartRoleChange, StartRevokeSessions,
     StartBootstrap, StartBackfill, Arrive
<1>4. CASE Retry(p) \/ Fail(p)
  BY <1>4 DEF Retry, Fail, Rollback
<1>5. CASE Statement(p)
  BY <1>5 DEF Statement, Authorize, UpdateUserStatus, FindActiveUser, UpsertRole,
     GiveRole, AlreadyGiven, TakeRole, NothingTaken, LockUserForRevocation, RevokeTokens,
     WriteAudit, LockActiveUser, NoActiveUser, ReadRoles, TakeSnapshot, FillRoleless,
     Rollback
<1>6. QED
  BY <1>2, <1>3, <1>4, <1>5

\* A live session carries no role its user has lost (remove_role revokes the
\* user's tokens under the lock an issue takes before it reads the roles).
THEOREM LiveSessionsCarryHeldRolesTheorem == Spec => []LiveSessionsCarryHeldRoles
<1>1. Init => LiveSessionsCarryHeldRoles
  BY DEF Init, LiveSessionsCarryHeldRoles
<1>2. IInv /\ LiveSessionsCarryHeldRoles /\ [Next]_vars => LiveSessionsCarryHeldRoles'
  <2> SUFFICES ASSUME IInv, LiveSessionsCarryHeldRoles, [Next]_vars,
                      NEW u \in User, NEW carried \in live'[u]
               PROVE  carried \subseteq roles'[u]
    BY DEF LiveSessionsCarryHeldRoles
  <2>1. CASE UNCHANGED store
    BY <2>1 DEF LiveSessionsCarryHeldRoles, store
  <2>2. ASSUME NEW p \in Proc, Commit(p)
        PROVE  carried \subseteq roles'[u]
    <3>1. WritesInv(p) /\ LockInv(p) /\ pc[p] = "commit" /\ TypeOK
      BY <2>2 DEF IInv, Commit, At
    <3>2. CASE u # req[p].user
      <4>1. live'[u] = live[u] /\ roles[u] \subseteq roles'[u]
        BY <2>2, <3>2 DEF Commit
      <4>2. QED
        BY <4>1 DEF LiveSessionsCarryHeldRoles
    <3>3. CASE u = req[p].user
      <4>1. carried \in (live[u] \ ws[p].ended) \cup ws[p].opened
        BY <2>2, <3>3 DEF Commit
      <4>2. (roles[u] \ ws[p].taken) \cup ws[p].given \subseteq roles'[u]
        BY <2>2, <3>3 DEF Commit
      <4>3. ws[p].opened # {} => ws[p].taken = {}
        BY <3>1 DEF WritesInv
      <4>4. ws[p].taken # {} => live[u] \subseteq ws[p].ended
        BY <3>1, <3>3 DEF LockInv
      <4>5. carried \in ws[p].opened => carried \subseteq roles[u]
        BY <3>1, <3>3 DEF LockInv
      <4>6. carried \in live[u] => carried \subseteq roles[u]
        BY DEF LiveSessionsCarryHeldRoles
      <4>7. QED
        BY <4>1, <4>2, <4>3, <4>4, <4>5, <4>6
    <3>4. QED
      BY <3>2, <3>3
  <2>3. QED
    BY <2>1, <2>2, StoreLemma
<1>3. QED
  BY <1>1, <1>2, AdminInvariant, PTL DEF Spec

-----------------------------------------------------------------------------
(* The audit log.                                                          *)

\* p's own rows, as KeyInv has them, and what a step may do to those of q.
Keeps(q) ==
  /\ pc'[q] = pc[q] /\ req'[q] = req[q] /\ ws'[q] = ws[q]
  /\ \A u \in User, r \in Role : key[u][r] = q =>
       key'[u][r] = q /\ (r \in roles'[u] <=> r \in roles[u])

LEMMA KeepsLemma ==
  ASSUME IInv, NEW q \in Proc, KeyInv(q), Keeps(q)
  PROVE  KeyInv(q)'
<1>1. TypeOK /\ RequestInv(q) /\ WritesInv(q) /\ ws[q] \in Writes
  BY DEF IInv, TypeOK
<1>2. /\ ws[q].given \subseteq Role /\ ws[q].taken \subseteq Role
      /\ ws[q].filled \subseteq User
  BY <1>1 DEF Writes
<1>3. ws[q].given # {} \/ ws[q].taken # {} => req[q].user \in User
  BY <1>1 DEF WritesInv, RequestInv, WellFormed, Kind
<1>4. QED
  BY <1>2, <1>3, RoleAssumption DEF KeyInv, Keeps, At

\* A step of p that gives up its rows, or leaves them as they are.
LEMMA KeyQuietLemma ==
  ASSUME IInv, \A q \in Proc : KeyInv(q), NEW p \in Proc, roles' = roles,
         \A q \in Proc \ {p} : pc'[q] = pc[q] /\ req'[q] = req[q] /\ ws'[q] = ws[q],
         \/ ReleaseLocks(p)
         \/ /\ key' = key
            /\ \/ req'[p] = req[p]
               \/ ws[p].given = {} /\ ws[p].taken = {}
            /\ /\ ws'[p].given = ws[p].given /\ ws'[p].taken = ws[p].taken
               /\ pc'[p] = "commit" => ws'[p].filled = {}
  PROVE  \A q \in Proc : KeyInv(q)'
<1>1. TypeOK /\ ForUpdateHeld
  BY DEF IInv
<1>2. CASE ReleaseLocks(p)
  <2>1. ws'[p] = NoWrites
    BY <1>1, <1>2, ReleaseLemma
  <2>2. KeyInv(p)'
    BY <2>1 DEF KeyInv, NoWrites
  <2>3. \A q \in Proc \ {p} : Keeps(q)
    BY <1>1, <1>2 DEF Keeps, ReleaseLocks, TypeOK
  <2>4. QED
    BY <2>2, <2>3, KeepsLemma
<1>3. CASE ~ReleaseLocks(p)
  <2>1. key' = key
    BY <1>3
  <2>2. KeyInv(p)'
    BY <1>3, <2>1 DEF KeyInv, At
  <2>3. \A q \in Proc \ {p} : Keeps(q)
    BY <2>1 DEF Keeps
  <2>4. QED
    BY <2>2, <2>3, KeepsLemma
<1>4. QED
  BY <1>2, <1>3

\* A request of another kind than the backfill fills nobody.
LEMMA UnfilledLemma ==
  ASSUME IInv, NEW p \in Proc, pc[p] \notin {"snapshot", "fill", "commit"}
  PROVE  ws[p].filled = {}
<1>1. RequestInv(p) /\ WritesInv(p)
  BY DEF IInv
<1>2. req[p].kind # "backfill"
  BY <1>1 DEF RequestInv, Places
<1>3. QED
  BY <1>1, <1>2 DEF WritesInv

\* The three statements that write rows of "UserRole".
LEMMA KeyWriteLemma ==
  ASSUME IInv, \A q \in Proc : KeyInv(q), NEW p \in Proc,
         GiveRole(p) \/ TakeRole(p) \/ FillRoleless(p)
  PROVE  \A q \in Proc : KeyInv(q)'
<1>1. TypeOK /\ RequestInv(p) /\ WritesInv(p) /\ KeyInv(p) /\ ws[p] \in Writes
  BY DEF IInv, TypeOK
<1>2. roles' = roles /\ req' = req
  BY DEF GiveRole, TakeRole, FillRoleless, store
<1>3. \A q \in Proc \ {p} : pc'[q] = pc[q] /\ ws'[q] = ws[q]
  BY <1>1 DEF GiveRole, TakeRole, FillRoleless, Goto, TypeOK
<1>4. \A u \in User, r \in Role : key[u][r] \in Proc \ {p} => key'[u][r] = key[u][r]
  <2>1. CASE GiveRole(p) \/ TakeRole(p)
    BY <1>1, <2>1, RoleAssumption DEF GiveRole, TakeRole, KeyFree, TypeOK
  <2>2. CASE FillRoleless(p)
    BY <1>1, <2>2, RoleAssumption DEF FillRoleless, KeyFree, TypeOK
  <2>3. QED
    BY <2>1, <2>2
<1>5. \A q \in Proc \ {p} : KeyInv(q)'
  BY <1>2, <1>3, <1>4, KeepsLemma DEF Keeps
<1>6. KeyInv(p)'
  <2> DEFINE u == req[p].user
             r == req[p].role
  <2>1. ASSUME GiveRole(p) \/ TakeRole(p), u \in User, r \in Role
        PROVE  key'[u][r] = p
    BY <1>1, <2>1 DEF GiveRole, TakeRole, TypeOK
  <2>2. CASE GiveRole(p)
    <3>1. /\ req[p].kind \in {"assign", "bootstrap"} /\ u \in User /\ r \in Role
          /\ pc[p] = "give"
      BY <1>1, <2>2, PlaceLemma, RoleAssumption
         DEF GiveRole, RequestInv, WellFormed, At, Kind
    <3>2. /\ ws'[p].given = {r} /\ ws'[p].taken = ws[p].taken
          /\ pc'[p] # "commit" /\ r \notin roles[u]
      BY <1>1, <2>2 DEF GiveRole, TypeOK, Writes, Goto
    <3>3. ws[p].taken = {}
      BY <1>1, <3>1 DEF WritesInv
    <3>4. QED
      BY <1>2, <2>1, <2>2, <3>1, <3>2, <3>3 DEF KeyInv, At
  <2>3. CASE TakeRole(p)
    <3>1. req[p].kind = "remove" /\ u \in User /\ r \in Role
      BY <1>1, <2>3, PlaceLemma DEF TakeRole, RequestInv, WellFormed, At, Kind
    <3>2. /\ ws'[p].taken = {r} /\ ws'[p].given = ws[p].given
          /\ pc'[p] # "commit" /\ r \in roles[u]
      BY <1>1, <2>3 DEF TakeRole, TypeOK, Writes, Goto
    <3>3. ws[p].given = {}
      BY <1>1, <3>1 DEF WritesInv
    <3>4. QED
      BY <1>2, <2>1, <2>3, <3>1, <3>2, <3>3 DEF KeyInv, At
  <2>4. CASE FillRoleless(p)
    <3>1. req[p].kind = "backfill" /\ ws'[p] = ws[p]
      BY <1>1, <2>4, PlaceLemma DEF FillRoleless, At
    <3>2. ws[p].given = {} /\ ws[p].taken = {}
      BY <1>1, <3>1 DEF WritesInv
    <3>3. \A v \in ws[p].filled : v \in User /\ DefaultRole \notin roles[v]
      BY <1>1, <2>4 DEF FillRoleless, Writes
    <3>4. \A v \in ws[p].filled : key'[v][DefaultRole] = p
      BY <1>1, <2>4, <3>3, RoleAssumption DEF FillRoleless, TypeOK
    <3>5. QED
      BY <1>2, <3>1, <3>2, <3>3, <3>4 DEF KeyInv
  <2>5. QED
    BY <2>2, <2>3, <2>4
<1>7. QED
  BY <1>5, <1>6

\* A commit changes no "UserRole" row but those it has written.
LEMMA KeyCommitLemma ==
  ASSUME IInv, \A q \in Proc : KeyInv(q), NEW p \in Proc, Commit(p)
  PROVE  \A q \in Proc : KeyInv(q)'
<1>1. /\ TypeOK /\ ForUpdateHeld /\ ReleaseLocks(p) /\ EndRequest(p)
      /\ KeyInv(p) /\ At(p, "commit")
  BY DEF IInv, Commit
<1>2. ASSUME NEW u \in User, NEW r \in Role, ~(r \in roles'[u] <=> r \in roles[u])
      PROVE  key[u][r] = p
  BY <1>1, <1>2 DEF KeyInv, Commit
<1>3. ASSUME NEW q \in Proc \ {p} PROVE Keeps(q)
  <2>1. pc'[q] = pc[q] /\ req'[q] = req[q] /\ ws'[q] = ws[q]
    BY <1>1, ReleaseLemma, EndLemma
  <2>2. \A u \in User, r \in Role : key[u][r] = q => key'[u][r] = q
    BY <1>1 DEF ReleaseLocks, TypeOK
  <2>3. QED
    BY <1>2, <2>1, <2>2 DEF Keeps
<1>4. KeyInv(p)'
  BY <1>1, ReleaseLemma DEF KeyInv, NoWrites
<1>5. QED
  BY <1>3, <1>4, KeepsLemma

LEMMA KeyStepLemma ==
  ASSUME IInv, \A q \in Proc : KeyInv(q), [Next]_vars
  PROVE  \A q \in Proc : KeyInv(q)'
<1>1. TypeOK
  BY DEF IInv
<1>2. CASE UNCHANGED vars
  BY <1>2 DEF vars, store, locks, KeyInv, At
<1>3. ASSUME NEW p \in Proc, Start(p)
      PROVE  \A q \in Proc : KeyInv(q)'
  <2>1. PICK r : Arrive(p, r)
    BY <1>3 DEF Start, StartIssue, StartSetStatus, StartRoleChange,
       StartRevokeSessions, StartBootstrap, StartBackfill
  <2>2. pc[p] = "idle" /\ WritesInv(p) /\ RequestInv(p) /\ roles' = roles
        /\ key' = key /\ ws' = ws
    BY <2>1 DEF IInv, Arrive, At, store, locks
  <2>3. req[p].kind = None /\ None \notin Kind
    BY <1>1, <2>2, PlaceLemma, RoleAssumption DEF At
  <2>4. ws[p].given = {} /\ ws[p].taken = {} /\ ws[p].filled = {}
    BY <2>2, <2>3 DEF WritesInv, Kind
  <2>5. \A q \in Proc \ {p} : pc'[q] = pc[q] /\ req'[q] = req[q]
    BY <1>1, <2>1 DEF Arrive, Goto, TypeOK
  <2>6. QED
    BY <2>2, <2>4, <2>5, KeyQuietLemma
<1>4. ASSUME NEW p \in Proc, Rollback(p) \/ Retry(p)
      PROVE  \A q \in Proc : KeyInv(q)'
  <2>1. ReleaseLocks(p) /\ roles' = roles
    BY <1>4 DEF Rollback, Retry, store
  <2>2. \A q \in Proc \ {p} : pc'[q] = pc[q] /\ req'[q] = req[q] /\ ws'[q] = ws[q]
    BY <1>1, <1>4, <2>1 DEF Rollback, Retry, EndRequest, Goto, ReleaseLocks, TypeOK
  <2>3. QED
    BY <2>1, <2>2, KeyQuietLemma
<1>5. ASSUME NEW p \in Proc,
             \/ UpdateUserStatus(p) \/ UpsertRole(p) \/ AlreadyGiven(p)
             \/ NothingTaken(p) \/ LockUserForRevocation(p) \/ RevokeTokens(p)
             \/ WriteAudit(p) \/ LockActiveUser(p) \/ ReadRoles(p) \/ TakeSnapshot(p)
      PROVE  \A q \in Proc : KeyInv(q)'
  <2>1. /\ roles' = roles /\ key' = key /\ req' = req
        /\ \A q \in Proc \ {p} : pc'[q] = pc[q] /\ ws'[q] = ws[q]
    BY <1>1, <1>5
       DEF UpdateUserStatus, UpsertRole, AlreadyGiven, NothingTaken,
           LockUserForRevocation, TakeForUpdate, RevokeTokens, WriteAudit,
           LockActiveUser, ReadRoles, TakeSnapshot, Goto, TypeOK, store, locks
  <2>2. ws'[p].given = ws[p].given /\ ws'[p].taken = ws[p].taken
    BY <1>1, <1>5
       DEF UpdateUserStatus, UpsertRole, AlreadyGiven, NothingTaken,
           LockUserForRevocation, RevokeTokens, WriteAudit, LockActiveUser,
           ReadRoles, TakeSnapshot, TypeOK, Writes
  <2>3. CASE TakeSnapshot(p)
    <3>1. pc'[p] = "fill"
      BY <1>1, <2>3 DEF TakeSnapshot, Goto, TypeOK
    <3>2. QED
      BY <2>1, <2>2, <3>1, KeyQuietLemma
  <2>4. CASE ~TakeSnapshot(p)
    <3>1. pc[p] \notin {"snapshot", "fill", "commit"}
      BY <1>5, <2>4
         DEF UpdateUserStatus, UpsertRole, AlreadyGiven, NothingTaken,
             LockUserForRevocation, RevokeTokens, WriteAudit, LockActiveUser,
             ReadRoles, At
    <3>2. ws'[p].filled = ws[p].filled
      BY <1>1, <1>5, <2>4
         DEF UpdateUserStatus, UpsertRole, AlreadyGiven, NothingTaken,
             LockUserForRevocation, RevokeTokens, WriteAudit, LockActiveUser,
             ReadRoles, TypeOK, Writes
    <3>3. QED
      BY <2>1, <2>2, <3>1, <3>2, UnfilledLemma, KeyQuietLemma
  <2>5. QED
    BY <2>3, <2>4
<1>6. ASSUME NEW p \in Proc, Authorize(p)
      PROVE  \A q \in Proc : KeyInv(q)'
  <2>1. pc[p] = "authorize" /\ roles' = roles /\ key' = key /\ ws' = ws
    BY <1>6 DEF Authorize, At, store, locks
  <2>2. req[p].kind \in Administrative /\ WritesInv(p)
    BY <1>1, <2>1, PlaceLemma DEF IInv, At
  <2>3. ws[p].given = {} /\ ws[p].taken = {} /\ ws[p].filled = {}
    BY <2>1, <2>2 DEF WritesInv, Administrative, At
  <2>4. \A q \in Proc \ {p} : pc'[q] = pc[q] /\ req'[q] = req[q]
    BY <1>1, <1>6 DEF Authorize, EndRequest, Goto, TypeOK
  <2>5. QED
    BY <2>1, <2>3, <2>4, KeyQuietLemma
<1>7. ASSUME NEW p \in Proc, FindActiveUser(p), ~Rollback(p)
      PROVE  \A q \in Proc : KeyInv(q)'
  <2>1. /\ roles' = roles /\ key' = key /\ ws' = ws /\ req' = req
        /\ pc' = [pc EXCEPT ![p] = "upsert"]
    BY <1>7 DEF FindActiveUser, Rollback, Goto, store, locks
  <2>2. \A q \in Proc \ {p} : pc'[q] = pc[q]
    BY <1>1, <2>1 DEF TypeOK
  <2>3. pc'[p] = "upsert"
    BY <1>1, <2>1 DEF TypeOK
  <2>4. QED
    BY <2>1, <2>2, <2>3, KeyQuietLemma
<1>8. QED
  BY <1>2, <1>3, <1>4, <1>5, <1>6, <1>7, KeyWriteLemma, KeyCommitLemma
     DEF Next, Statement, Fail, NoActiveUser

AuditInv ==
  /\ \A p \in Proc : KeyInv(p)
  /\ \A u \in User : IsFiniteSet(roles[u])
  /\ RolesMatchAudit

\* What a commit does to one user's roles, by its kind, and what it audits.
LEMMA CountLemma ==
  ASSUME IInv, AuditInv, NEW p \in Proc, Commit(p), NEW u \in User
  PROVE  IsFiniteSet(roles'[u]) /\ Cardinality(roles'[u]) = audited'[u]
<1>1. /\ TypeOK /\ RequestInv(p) /\ WritesInv(p) /\ KeyInv(p) /\ At(p, "commit")
      /\ ws[p].audit \in {"none", "written"}
  BY DEF IInv, AuditInv, Commit, TypeOK, Writes
<1>2. IsFiniteSet(roles[u]) /\ Cardinality(roles[u]) = audited[u] /\ audited[u] \in Int
  BY <1>1 DEF AuditInv, RolesMatchAudit, TypeOK
<1>3. req[p].kind \in Kind
  BY <1>1, PlaceLemma DEF At
<1> DEFINE n == IF u = req[p].user THEN Audits(p) ELSE 0
           f == IF u \in ws[p].filled THEN 1 ELSE 0
<1>4. /\ roles'[u] = (IF u = req[p].user THEN (roles[u] \ ws[p].taken) \cup ws[p].given
                                         ELSE roles[u])
                     \cup (IF u \in ws[p].filled THEN {DefaultRole} ELSE {})
      /\ audited'[u] = audited[u] + n + f
  BY DEF Commit
<1>5. /\ \A r \in Role \ roles[u] :
           /\ IsFiniteSet(roles[u] \cup {r})
           /\ Cardinality(roles[u] \cup {r}) = audited[u] + 1
      /\ \A r \in roles[u] :
           /\ IsFiniteSet(roles[u] \ {r})
           /\ Cardinality(roles[u] \ {r}) = audited[u] - 1
  BY <1>2, FS_AddElement, FS_RemoveElement
<1>6. CASE u = req[p].user /\ ws[p].given # {}
  <2>1. /\ req[p].kind \in {"assign", "bootstrap"} /\ ws[p].given = {req[p].role}
        /\ ws[p].audit = "written" /\ ws[p].taken = {} /\ ws[p].filled = {}
    BY <1>1, <1>6 DEF WritesInv, At
  <2>2. roles'[u] = roles[u] \cup {req[p].role} /\ req[p].role \notin roles[u]
    BY <1>1, <1>4, <1>6, <2>1 DEF KeyInv
  <2>3. req[p].role \in Role
    BY <1>1, <2>1, RoleAssumption DEF RequestInv, WellFormed
  <2>4. n = 1 /\ f = 0
    BY <1>6, <2>1 DEF Audits
  <2> HIDE DEF n, f
  <2>5. audited'[u] = audited[u] + 1
    BY <1>2, <1>4, <2>4
  <2>6. QED
    BY <1>5, <2>2, <2>3, <2>5
<1>7. CASE u = req[p].user /\ ws[p].given = {} /\ ws[p].taken # {}
  <2>1. /\ req[p].kind = "remove" /\ ws[p].taken = {req[p].role}
        /\ ws[p].audit = "written" /\ ws[p].filled = {}
    BY <1>1, <1>7 DEF WritesInv, At
  <2>2. roles'[u] = roles[u] \ {req[p].role} /\ req[p].role \in roles[u]
    BY <1>1, <1>4, <1>7, <2>1 DEF KeyInv
  <2>3. n = -1 /\ f = 0
    BY <1>7, <2>1 DEF Audits
  <2>4. QED
    BY <1>2, <1>4, <1>5, <2>2, <2>3
<1>8. CASE ~(u = req[p].user /\ (ws[p].given # {} \/ ws[p].taken # {}))
  <2>1. n = 0
    <3>1. CASE u # req[p].user
      BY <3>1
    <3>2. CASE ws[p].given = {} /\ ws[p].taken = {}
      <4>1. ws[p].audit = "written" => req[p].kind \notin {"assign", "remove"}
        BY <1>1, <3>2 DEF WritesInv
      <4>2. Audits(p) = 0
        <5>1. CASE ws[p].audit = "none"
          BY <5>1 DEF Audits
        <5>2. CASE ws[p].audit = "written" /\ req[p].kind = "bootstrap"
          BY <3>2, <5>2 DEF Audits
        <5>3. CASE ws[p].audit = "written" /\ req[p].kind # "bootstrap"
          BY <4>1, <5>3 DEF Audits
        <5>4. QED
          BY <1>1, <5>1, <5>2, <5>3
      <4>3. QED
        BY <4>2
    <3>3. QED
      BY <1>8, <3>1, <3>2
  <2>2. roles'[u] = roles[u] \cup (IF u \in ws[p].filled THEN {DefaultRole} ELSE {})
    BY <1>4, <1>8
  <2>3. u \in ws[p].filled => DefaultRole \notin roles[u]
    BY <1>1 DEF KeyInv
  <2>4. CASE u \in ws[p].filled
    <3>1. f = 1 /\ roles'[u] = roles[u] \cup {DefaultRole} /\ DefaultRole \in Role \ roles[u]
      BY <2>2, <2>3, <2>4, RoleAssumption
    <3> HIDE DEF n, f
    <3>2. audited'[u] = audited[u] + 1
      BY <1>2, <1>4, <2>1, <3>1
    <3>3. QED
      BY <1>5, <3>1, <3>2
  <2>5. CASE u \notin ws[p].filled
    <3>1. f = 0 /\ roles'[u] = roles[u]
      BY <2>2, <2>5
    <3> HIDE DEF n, f
    <3>2. audited'[u] = audited[u]
      BY <1>2, <1>4, <2>1, <3>1
    <3>3. QED
      BY <1>2, <3>1, <3>2
  <2>6. QED
    BY <2>4, <2>5
<1>9. QED
  BY <1>6, <1>7, <1>8

\* The rows written for a user's roles are as many, and as many of each kind, as
\* the changes made: ON CONFLICT and DELETE decide by the row they lock, and the
\* audit row commits with the change or not at all.
THEOREM RolesMatchAuditTheorem == Spec => []RolesMatchAudit
<1>1. Init => AuditInv
  <2>1. ASSUME Init, NEW u \in User PROVE IsFiniteSet(roles[u])
    <3>1. roles[u] = {} \/ roles[u] = {AdminRole}
      BY <2>1 DEF Init
    <3>2. QED
      BY <3>1, FS_EmptySet, FS_Singleton
  <2>2. ASSUME Init, NEW p \in Proc PROVE KeyInv(p)
    BY <2>2 DEF Init, KeyInv, NoWrites
  <2>3. Init => RolesMatchAudit
    BY DEF Init, RolesMatchAudit
  <2>4. QED
    BY <2>1, <2>2, <2>3 DEF AuditInv
<1>2. IInv /\ AuditInv /\ [Next]_vars => AuditInv'
  <2> SUFFICES ASSUME IInv, AuditInv, [Next]_vars PROVE AuditInv'
    OBVIOUS
  <2>1. \A p \in Proc : KeyInv(p)'
    BY KeyStepLemma DEF AuditInv
  <2>2. CASE UNCHANGED store
    BY <2>1, <2>2 DEF AuditInv, RolesMatchAudit, store
  <2>3. CASE ~UNCHANGED store
    BY <2>1, <2>3, StoreLemma, CountLemma DEF AuditInv, RolesMatchAudit
  <2>4. QED
    BY <2>2, <2>3
<1>3. AuditInv => RolesMatchAudit
  BY DEF AuditInv
<1>4. QED
  BY <1>1, <1>2, <1>3, AdminInvariant, PTL DEF Spec
-----------------------------------------------------------------------------
(* The last administrator.                                                 *)

\* A request of an administrator who still is one when it commits leaves at
\* least that administrator, except for a status they give themselves: the
\* actor is not checked again after authorize_admin, which is why two requests
\* that overlap can still take the last one.
THEOREM LastAdminTheorem == Spec => LastAdminFallsOnlyToOverlap
<1> DEFINE Falls ==
      ActiveAdmins # {} /\ ActiveAdmins' = {} =>
        \E p \in Proc :
          /\ Commit(p)
          /\ \/ req[p].actor \notin ActiveAdmins
             \/ req[p].kind = "setStatus" /\ req[p].actor = req[p].user
<1>1. IInv /\ [Next]_vars => Falls \/ UNCHANGED vars
  <2> SUFFICES ASSUME IInv, [Next]_vars, ActiveAdmins # {}, ActiveAdmins' = {}
               PROVE  \E p \in Proc :
                        /\ Commit(p)
                        /\ \/ req[p].actor \notin ActiveAdmins
                           \/ req[p].kind = "setStatus" /\ req[p].actor = req[p].user
    OBVIOUS
  <2>1. ~UNCHANGED store
    BY DEF store, ActiveAdmins, ActiveAdmin
  <2>2. PICK p \in Proc : Commit(p)
    BY <2>1, StoreLemma
  <2>3. SUFFICES ASSUME req[p].actor \in ActiveAdmins,
                        ~(req[p].kind = "setStatus" /\ req[p].actor = req[p].user)
                 PROVE  FALSE
    BY <2>2
  <2> DEFINE a == req[p].actor
  <2>4. a \in User /\ status[a] = "ACTIVE" /\ AdminRole \in roles[a]
    BY <2>3 DEF ActiveAdmins, ActiveAdmin
  <2>5. WritesInv(p) /\ RequestInv(p) /\ ~At(p, "authorize")
    BY <2>2 DEF IInv, Commit, At
  <2>6. status'[a] = "ACTIVE"
    BY <2>2, <2>3, <2>4, <2>5 DEF Commit, WritesInv
  <2>7. AdminRole \in roles'[a]
    <3>1. a = req[p].user => AdminRole \notin ws[p].taken
      BY <2>5 DEF WritesInv, RequestInv, SelfAllowed, Administrative
    <3>2. QED
      BY <2>2, <2>4, <3>1 DEF Commit
  <2>8. a \in ActiveAdmins'
    BY <2>4, <2>6, <2>7 DEF ActiveAdmins, ActiveAdmin
  <2>9. QED
    BY <2>8
<1>2. QED
  BY <1>1, AdminInvariant, PTL DEF Spec, LastAdminFallsOnlyToOverlap
=============================================================================
