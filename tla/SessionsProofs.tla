--------------------------- MODULE SessionsProofs ---------------------------
(***************************************************************************)
(* Proofs about Sessions: IInv is an inductive invariant, the statement    *)
(* level implements the atomic store, and so the promises of the store,    *)
(* proved here of the store alone, hold of the statements too.  WaitInv,   *)
(* inductive with it, says who can wait for whom: sign-in, refresh and     *)
(* sign-out are on no cycle of waits.                                      *)
(*                                                                         *)
(* A step of process p is shown to preserve IInv in two halves: what the   *)
(* step does to p itself, and that p leaves every other process alone      *)
(* (OthersLemma), which is where the row locks are used.                   *)
(***************************************************************************)
EXTENDS SessionsInv, TLAPS
-----------------------------------------------------------------------------
(* The promises of the atomic store, for every set of users and tokens.    *)

\* The three tables keep their types under every request.
LEMMA StoreTyping == StoreSpec => []StoreTypeOK
<1>1. StoreInit => StoreTypeOK
  BY DEF StoreInit, StoreTypeOK, Row, Unused
<1>2. StoreTypeOK /\ [StoreNext]_storeVars => StoreTypeOK'
  <2> SUFFICES ASSUME StoreTypeOK, [StoreNext]_storeVars
               PROVE  StoreTypeOK'
    OBVIOUS
  <2> USE DEF StoreTypeOK, Row, Moved
  <2>1. ASSUME NEW u \in User, NEW n \in Token, Issue(u, n)
        PROVE  StoreTypeOK'
    BY <2>1 DEF Issue
  <2>2. ASSUME NEW t \in Token, NEW n \in Token, Rotate(t, n)
        PROVE  StoreTypeOK'
    BY <2>2 DEF Rotate
  <2>3. ASSUME NEW t \in Token, Revoke(t)
        PROVE  StoreTypeOK'
    BY <2>3 DEF Revoke
  <2>4. ASSUME NEW u \in User, RevokeAll(u)
        PROVE  StoreTypeOK'
    BY <2>4 DEF RevokeAll
  <2>5. ASSUME NEW u \in User, NEW s \in Status, SetStatus(u, s)
        PROVE  StoreTypeOK'
    BY <2>5 DEF SetStatus
  <2>6. ASSUME NEW S \in SUBSET Token, Purge(S)
        PROVE  StoreTypeOK'
    BY <2>6 DEF Purge
  <2>7. ASSUME NEW t \in Token, Expire(t)
        PROVE  StoreTypeOK'
    BY <2>7 DEF Expire
  <2>8. CASE UNCHANGED storeVars
    BY <2>8 DEF storeVars
  <2>9. QED
    BY <2>1, <2>2, <2>3, <2>4, <2>5, <2>6, <2>7, <2>8 DEF StoreNext
<1>3. QED
  BY <1>1, <1>2, PTL DEF StoreSpec

\* Suspension and deletion of a user leave no session behind, and no later
\* request gives a barred user one (admin status change, issue, rotate).
THEOREM BarredTheorem == StoreSpec => []BarredUserHasNoLiveSession
<1> DEFINE I == BarredUserHasNoLiveSession
<1>1. StoreInit => I
  BY DEF StoreInit, BarredUserHasNoLiveSession, Unused
<1>2. StoreTypeOK /\ I /\ [StoreNext]_storeVars => I'
  <2> SUFFICES ASSUME StoreTypeOK, I, [StoreNext]_storeVars
               PROVE  I'
    OBVIOUS
  <2> USE StoreAssumption DEF StoreTypeOK, BarredUserHasNoLiveSession, Barred, Row, Moved
  <2>1. ASSUME NEW u \in User, NEW n \in Token, Issue(u, n)
        PROVE  I'
    BY <2>1 DEF Issue
  <2>2. ASSUME NEW t \in Token, NEW n \in Token, Rotate(t, n)
        PROVE  I'
    BY <2>2 DEF Rotate
  <2>3. ASSUME NEW t \in Token, Revoke(t)
        PROVE  I'
    BY <2>3 DEF Revoke
  <2>4. ASSUME NEW u \in User, RevokeAll(u)
        PROVE  I'
    BY <2>4 DEF RevokeAll
  <2>5. ASSUME NEW u \in User, NEW s \in Status, SetStatus(u, s)
        PROVE  I'
    BY <2>5 DEF SetStatus, LiveOf
  <2>6. ASSUME NEW S \in SUBSET Token, Purge(S)
        PROVE  I'
    BY <2>6 DEF Purge
  <2>7. ASSUME NEW t \in Token, Expire(t)
        PROVE  I'
    BY <2>7 DEF Expire
  <2>8. CASE UNCHANGED storeVars
    BY <2>8 DEF storeVars
  <2>9. QED
    BY <2>1, <2>2, <2>3, <2>4, <2>5, <2>6, <2>7, <2>8 DEF StoreNext
<1>3. QED
  BY <1>1, <1>2, StoreTyping, PTL DEF StoreSpec

\* Only existing rows carry a parent, and every parent has been spent.
LineageInv ==
  /\ \A t \in Token : row[t].state = "unused" => row[t].parent = None
  /\ \A t \in Token : row[t].parent # None =>
       row[row[t].parent].state \in {"revoked", "deleted"}

\* A refresh token is redeemed at most once: the rotation spends the token it
\* replaces, and a spent token is never rotated again.
THEOREM OneSuccessorTheorem == StoreSpec => []OneSuccessorPerToken
<1> DEFINE I == LineageInv /\ OneSuccessorPerToken
<1>1. StoreInit => I
  BY StoreAssumption DEF StoreInit, LineageInv, OneSuccessorPerToken, Unused
<1>2. StoreTypeOK /\ I /\ [StoreNext]_storeVars => I'
  <2> SUFFICES ASSUME StoreTypeOK, I, [StoreNext]_storeVars
               PROVE  I'
    OBVIOUS
  <2> USE StoreAssumption
      DEF StoreTypeOK, LineageInv, OneSuccessorPerToken, Row, Moved
  <2>1. ASSUME NEW u \in User, NEW n \in Token, Issue(u, n)
        PROVE  I'
    BY <2>1 DEF Issue
  <2>2. ASSUME NEW t \in Token, NEW n \in Token, Rotate(t, n)
        PROVE  I'
    BY <2>2 DEF Rotate
  <2>3. ASSUME NEW t \in Token, Revoke(t)
        PROVE  I'
    BY <2>3 DEF Revoke
  <2>4. ASSUME NEW u \in User, RevokeAll(u)
        PROVE  I'
    BY <2>4 DEF RevokeAll, LiveOf
  <2>5. ASSUME NEW u \in User, NEW s \in Status, SetStatus(u, s)
        PROVE  I'
    BY <2>5 DEF SetStatus, LiveOf
  <2>6. ASSUME NEW S \in SUBSET Token, Purge(S)
        PROVE  I'
    BY <2>6 DEF Purge, Retired
  <2>7. ASSUME NEW t \in Token, Expire(t)
        PROVE  I'
    BY <2>7 DEF Expire
  <2>8. CASE UNCHANGED storeVars
    BY <2>8 DEF storeVars
  <2>9. QED
    BY <2>1, <2>2, <2>3, <2>4, <2>5, <2>6, <2>7, <2>8 DEF StoreNext
<1>3. QED
  BY <1>1, <1>2, StoreTyping, PTL DEF StoreSpec

\* Revocation is final, and a session never changes hands.
THEOREM DeadSessionsTheorem == StoreSpec => DeadSessionsStayDead
<1> DEFINE A == \A t \in Token :
             /\ row[t].state = "revoked" => row'[t].state \in {"revoked", "deleted"}
             /\ row[t].state = "deleted" => row'[t].state = "deleted"
             /\ row[t].state # "unused" => row'[t].user = row[t].user
<1>1. StoreTypeOK /\ [StoreNext]_storeVars => [A]_storeVars
  <2> SUFFICES ASSUME StoreTypeOK, StoreNext
               PROVE  A
    BY DEF storeVars
  <2> USE DEF StoreTypeOK, Row, Moved
  <2>1. ASSUME NEW u \in User, NEW n \in Token, Issue(u, n)
        PROVE  A
    BY <2>1 DEF Issue
  <2>2. ASSUME NEW t \in Token, NEW n \in Token, Rotate(t, n)
        PROVE  A
    BY <2>2 DEF Rotate
  <2>3. ASSUME NEW t \in Token, Revoke(t)
        PROVE  A
    BY <2>3 DEF Revoke
  <2>4. ASSUME NEW u \in User, RevokeAll(u)
        PROVE  A
    BY <2>4 DEF RevokeAll, LiveOf
  <2>5. ASSUME NEW u \in User, NEW s \in Status, SetStatus(u, s)
        PROVE  A
    BY <2>5 DEF SetStatus, LiveOf
  <2>6. ASSUME NEW S \in SUBSET Token, Purge(S)
        PROVE  A
    BY <2>6 DEF Purge, Retired
  <2>7. ASSUME NEW t \in Token, Expire(t)
        PROVE  A
    BY <2>7 DEF Expire
  <2>8. QED
    BY <2>1, <2>2, <2>3, <2>4, <2>5, <2>6, <2>7 DEF StoreNext
<1>2. QED
  BY <1>1, StoreTyping, PTL DEF StoreSpec, DeadSessionsStayDead
-----------------------------------------------------------------------------
(* The statements.                                                         *)

\* What a step of another process leaves of q: its own state and its locks.
Untouched(q) ==
  /\ pc'[q] = pc[q]
  /\ req'[q] = req[q]
  /\ ws'[q] = ws[q]
  /\ todo'[q] = todo[q]
  /\ \A u \in User : writer[u] = q => writer'[u] = q
  /\ \A t \in Token : rowLock[t] = q => rowLock'[t] = q
  /\ \A r \in Proc \ {q} : \A n \in ws[q].inserted : n \notin ws'[r].inserted

\* What it may do to the committed store: rows only age, and neither the users
\* that q has locked nor the rows q is ending or inserting change.
Respected(q) ==
  /\ expired \subseteq expired'
  /\ \A u \in User : writer[u] = q => status'[u] = status[u]
  /\ \A t \in Token :
       /\ row[t].state # "unused" =>
            /\ row'[t].state \in {"live", "revoked", "deleted"}
            /\ row'[t].user = row[t].user
       /\ row[t].state = "revoked" => row'[t].state \in {"revoked", "deleted"}
       /\ row[t].state = "deleted" => row'[t].state = "deleted"
       /\ t \in ws[q].ended \cup ws[q].inserted => row'[t] = row[t]
       /\ row'[t].state = "live" /\ writer[row'[t].user] = q => row'[t] = row[t]

\* The statements a request can be at tell its kind.
LEMMA LabelLemma ==
  ASSUME IInv, NEW q \in Proc
  PROVE  /\ pc[q] \in {"read", "revoke"} => req[q].kind = "rotate"
         /\ pc[q] \in {"lockActive", "insert"} => req[q].kind \in {"issue", "rotate"}
         /\ pc[q] = "update" => req[q].kind = "setStatus"
         /\ pc[q] = "lockAny" => req[q].kind \in {"setStatus", "revokeSessions"}
         /\ pc[q] \in {"snapshot", "rows"} =>
              req[q].kind \in {"setStatus", "revokeSessions", "cleanup"}
         /\ pc[q] = "audit" => req[q].kind \in {"setStatus", "revokeSessions"}
         /\ pc[q] = "commit" => req[q].kind \notin {"logout", None}
         /\ pc[q] = "logout" => req[q].kind = "logout"
         /\ pc[q] # "idle" => req[q].kind \in Kind
         /\ pc[q] = "idle" => req[q] = NoRequest
  BY ProcAssumption DEF IInv, RequestInv, NoRequest, Kind

\* A request knows its user from the first statement that locks the user on.
LEMMA UserLemma ==
  ASSUME IInv, NEW q \in Proc,
         \/ req[q].kind \in {"issue", "setStatus", "revokeSessions"}
         \/ req[q].kind = "rotate" /\ pc[q] # "read"
  PROVE  req[q].user \in User
<1>1. RequestInv(q) /\ RowInv
  BY DEF IInv
<1>2. QED
  BY <1>1, ProcAssumption DEF RequestInv, RowInv, NoRequest, Kind

\* A process that is left alone keeps its part of the invariant.
LEMMA OthersLemma ==
  ASSUME IInv, NEW q \in Proc, Untouched(q), Respected(q)
  PROVE  RequestInv(q)' /\ LockInv(q)' /\ WriteInv(q)'
<1>1. RequestInv(q) /\ LockInv(q) /\ WriteInv(q)
  BY DEF IInv
<1>2. RequestInv(q)'
  BY <1>1 DEF Untouched, Respected, RequestInv, NoRequest
<1>3. LockInv(q)'
  <2>1. CASE \/ pc[q] \in {"revoke", "insert"}
             \/ pc[q] = "commit" /\ req[q].kind \in {"issue", "rotate"}
    BY <2>1, <1>1, UserLemma, LabelLemma DEF Untouched, Respected, LockInv
  <2>2. CASE \/ req[q].kind = "setStatus" /\ pc[q] # "update"
             \/ req[q].kind = "revokeSessions" /\ pc[q] # "lockAny"
    BY <2>2, <1>1, UserLemma, LabelLemma DEF Untouched, Respected, LockInv
  <2>3. QED
    BY <2>1, <2>2 DEF Untouched, LockInv
<1>4. WriteInv(q)'
  <2>1. /\ ws[q].ended \subseteq Token
        /\ ws[q].inserted \subseteq Token
        /\ todo[q] \subseteq Token
        /\ \A t \in Token : row[t].state \in {"unused", "live", "revoked", "deleted"}
    BY DEF IInv, TypeOK, StoreTypeOK, Writes, Row
  <2>2. ASSUME Revoking(q), pc[q] \in {"rows", "audit", "commit"}
        PROVE  LiveOf(req[q].user)' \subseteq LiveOf(req[q].user)
    <3>1. writer[req[q].user] = q
      BY <1>1, <2>2 DEF LockInv, Revoking
    <3>2. QED
      BY <3>1 DEF Untouched, Respected, LiveOf
  <2>3. ASSUME NEW t \in Token, t \in Retired
        PROVE  t \in Retired' \/ row'[t].state = "deleted"
    BY <2>1, <2>3 DEF Respected, Retired
  <2>4. ASSUME NEW t \in ws[q].ended
        PROVE  /\ rowLock'[t] = q
               /\ req[q].kind = "cleanup" => t \in Retired'
               /\ req[q].kind # "cleanup" =>
                    row'[t].state = "live" /\ row'[t].user = req[q].user
    <3>1. t \in Token /\ rowLock[t] = q
      BY <1>1, <2>1, <2>4 DEF WriteInv
    <3>2. /\ req[q].kind = "cleanup" => t \in Retired
          /\ req[q].kind # "cleanup" => row[t].state = "live" /\ row[t].user = req[q].user
      BY <1>1, <2>4 DEF WriteInv
    <3>3. rowLock'[t] = q /\ row'[t] = row[t]
      BY <2>4, <3>1 DEF Untouched, Respected
    <3>4. QED
      BY <3>1, <3>2, <3>3 DEF Respected, Retired
  <2>5. ASSUME NEW n \in ws[q].inserted
        PROVE  row'[n].state = "unused" /\ \A r \in Proc \ {q} : n \notin ws'[r].inserted
    BY <1>1, <2>1 DEF Untouched, Respected, WriteInv
  <2>6. ASSUME NEW t \in Token, row[t].state = "deleted"
        PROVE  row'[t].state = "deleted"
    BY <2>6 DEF Respected
  <2>7. Revoking(q)' <=> Revoking(q)
    BY DEF Untouched, Revoking
  <2>8. ASSUME NEW t \in todo[q], req[q].kind # "cleanup"
        PROVE  row'[t].state # "unused" /\ row'[t].user = req[q].user
    BY <1>1, <2>1, <2>8 DEF Respected, WriteInv
  <2>9. QED
    BY <1>1, <2>1, <2>2, <2>3, <2>4, <2>5, <2>6, <2>7, <2>8 DEF Untouched, WriteInv
<1>5. QED
  BY <1>2, <1>3, <1>4

\* Writing one field of one request's record keeps the type of the whole.
LEMMA TypingLemma ==
  ASSUME NEW p \in Proc
  PROVE  /\ \A f \in [Proc -> Request], u \in User :
              [f EXCEPT ![p].user = u] \in [Proc -> Request]
         /\ \A f \in [Proc -> Writes], S \in SUBSET Token :
              /\ [f EXCEPT ![p].ended = S] \in [Proc -> Writes]
              /\ [f EXCEPT ![p].inserted = S] \in [Proc -> Writes]
         /\ \A f \in [Proc -> Writes], t \in Token :
              /\ [f EXCEPT ![p].ended = @ \cup {t}] \in [Proc -> Writes]
              /\ [f EXCEPT ![p].inserted = {t}] \in [Proc -> Writes]
  BY DEF Request, Writes

\* No token is being inserted by two requests.
LEMMA ApartLemma ==
  ASSUME IInv, NEW q \in Proc, NEW r \in Proc \ {q}, NEW n \in ws[q].inserted
  PROVE  n \notin ws[r].inserted
<1>1. WriteInv(q)
  BY DEF IInv
<1>2. QED
  BY <1>1 DEF WriteInv

\* A step that leaves the committed store alone and touches nobody else.
LEMMA QuietLemma ==
  ASSUME IInv, NEW p \in Proc, UNCHANGED storeVars, TypeOK',
         RequestInv(p)', LockInv(p)', WriteInv(p)',
         \A q \in Proc \ {p} : Untouched(q)
  PROVE  IInv'
<1>1. ASSUME NEW q \in Proc \ {p}
      PROVE  RequestInv(q)' /\ LockInv(q)' /\ WriteInv(q)'
  <2>1. Respected(q)
    BY DEF IInv, TypeOK, StoreTypeOK, Row, storeVars, Respected
  <2>2. QED
    BY <2>1, OthersLemma
<1>2. RowInv'
  BY DEF IInv, RowInv, storeVars
<1>3. QED
  BY <1>1, <1>2 DEF IInv
-----------------------------------------------------------------------------
(* Arrivals.                                                               *)

LEMMA ArriveLemma ==
  ASSUME IInv, NEW p \in Proc, NEW r \in Request, r.kind \in Kind, Arrive(p, r),
         RequestInv(p)'
  PROVE  IInv'
<1>1. /\ TypeOK /\ WriteInv(p) /\ req[p] = NoRequest
      /\ pc[p] = "idle" /\ req'[p] = r /\ pc'[p] = FirstStatement(r.kind)
  BY LabelLemma DEF IInv, Arrive, At, Goto, TypeOK
<1>2. FirstStatement(r.kind) \in PC \ {"idle", "revoke", "insert", "rows", "audit", "commit"}
  BY DEF FirstStatement, PC, Kind
<1>3. TypeOK'
  BY <1>1, <1>2 DEF TypeOK, StoreTypeOK, storeVars, locks, Arrive, Goto
<1>4. ASSUME NEW q \in Proc \ {p}
      PROVE  Untouched(q)
  BY <1>1, <1>4, ApartLemma DEF TypeOK, Arrive, Goto, locks, Untouched
<1>5. LockInv(p)'
  BY <1>1, <1>2, ProcAssumption DEF LockInv, FirstStatement
<1>6. WriteInv(p)'
  <2>1. /\ ws'[p] = ws[p] /\ todo'[p] = todo[p]
        /\ ws[p].status = None /\ ws[p].inserted = {} /\ ws[p].ended = {}
        /\ todo[p] = {}
    BY <1>1, ProcAssumption DEF Arrive, WriteInv, NoRequest, Kind
  <2>2. /\ req'[p].kind = "setStatus" => pc'[p] = "update"
        /\ todo'[p] = {}
        /\ pc'[p] \notin {"insert", "rows", "audit", "commit"}
    BY <1>1, <1>2, <2>1 DEF FirstStatement
  <2>3. QED
    BY <2>1, <2>2 DEF WriteInv
<1>7. QED
  BY <1>3, <1>4, <1>5, <1>6, QuietLemma DEF Arrive

LEMMA StartIssuePreserves ==
  ASSUME IInv, NEW p \in Proc, StartIssue(p)
  PROVE  IInv'
<1>1. PICK u \in User :
        Arrive(p, [NoRequest EXCEPT !.kind = "issue", !.user = u])
  BY DEF StartIssue
<1> DEFINE r == [NoRequest EXCEPT !.kind = "issue", !.user = u]
<1>2. r \in Request /\ r.kind \in Kind
  BY AdminAssumption, BoundAssumption, StoreAssumption DEF NoRequest, Request, Kind
<1>3. RequestInv(p)'
  <2>1. req'[p] = r /\ pc'[p] = FirstStatement(r.kind) /\ UNCHANGED row
    BY <1>1 DEF IInv, TypeOK, Arrive, Goto, storeVars
  <2>2. QED
    BY <1>1, <2>1, AdminAssumption, BoundAssumption DEF RequestInv, FirstStatement, NoRequest
<1>4. QED
  BY <1>1, <1>2, <1>3, ArriveLemma

LEMMA StartRefreshPreserves ==
  ASSUME IInv, NEW p \in Proc, StartRefresh(p)
  PROVE  IInv'
<1>1. PICK t \in Token :
        row[t].state # "unused" /\ Arrive(p, [NoRequest EXCEPT !.kind = "rotate", !.token = t, !.fresh = t \notin expired])
  BY DEF StartRefresh
<1> DEFINE r == [NoRequest EXCEPT !.kind = "rotate", !.token = t, !.fresh = t \notin expired]
<1>2. r \in Request /\ r.kind \in Kind
  BY AdminAssumption, BoundAssumption, StoreAssumption DEF NoRequest, Request, Kind
<1>3. RequestInv(p)'
  <2>1. req'[p] = r /\ pc'[p] = FirstStatement(r.kind) /\ UNCHANGED row
    BY <1>1 DEF IInv, TypeOK, Arrive, Goto, storeVars
  <2>2. QED
    BY <1>1, <2>1, AdminAssumption, BoundAssumption DEF RequestInv, FirstStatement, NoRequest
<1>4. QED
  BY <1>1, <1>2, <1>3, ArriveLemma

LEMMA StartLogoutPreserves ==
  ASSUME IInv, NEW p \in Proc, StartLogout(p)
  PROVE  IInv'
<1>1. PICK t \in Token :
        Arrive(p, [NoRequest EXCEPT !.kind = "logout", !.token = t])
  BY DEF StartLogout
<1> DEFINE r == [NoRequest EXCEPT !.kind = "logout", !.token = t]
<1>2. r \in Request /\ r.kind \in Kind
  BY AdminAssumption, BoundAssumption, StoreAssumption DEF NoRequest, Request, Kind
<1>3. RequestInv(p)'
  <2>1. req'[p] = r /\ pc'[p] = FirstStatement(r.kind) /\ UNCHANGED row
    BY <1>1 DEF IInv, TypeOK, Arrive, Goto, storeVars
  <2>2. QED
    BY <1>1, <2>1, AdminAssumption, BoundAssumption DEF RequestInv, FirstStatement, NoRequest
<1>4. QED
  BY <1>1, <1>2, <1>3, ArriveLemma

LEMMA StartSetStatusPreserves ==
  ASSUME IInv, NEW p \in Proc, StartSetStatus(p)
  PROVE  IInv'
<1>1. PICK a \in Admin, u \in User, s \in Statuses :
        Arrive(p, [NoRequest EXCEPT !.kind = "setStatus", !.actor = a, !.user = u, !.status = s])
  BY DEF StartSetStatus
<1> DEFINE r == [NoRequest EXCEPT !.kind = "setStatus", !.actor = a, !.user = u, !.status = s]
<1>2. r \in Request /\ r.kind \in Kind
  BY AdminAssumption, BoundAssumption, StoreAssumption DEF NoRequest, Request, Kind
<1>3. RequestInv(p)'
  <2>1. req'[p] = r /\ pc'[p] = FirstStatement(r.kind) /\ UNCHANGED row
    BY <1>1 DEF IInv, TypeOK, Arrive, Goto, storeVars
  <2>2. QED
    BY <1>1, <2>1, AdminAssumption, BoundAssumption DEF RequestInv, FirstStatement, NoRequest
<1>4. QED
  BY <1>1, <1>2, <1>3, ArriveLemma

LEMMA StartRevokeSessionsPreserves ==
  ASSUME IInv, NEW p \in Proc, StartRevokeSessions(p)
  PROVE  IInv'
<1>1. PICK a \in Admin, u \in User :
        Arrive(p, [NoRequest EXCEPT !.kind = "revokeSessions", !.actor = a, !.user = u])
  BY DEF StartRevokeSessions
<1> DEFINE r == [NoRequest EXCEPT !.kind = "revokeSessions", !.actor = a, !.user = u]
<1>2. r \in Request /\ r.kind \in Kind
  BY AdminAssumption, BoundAssumption, StoreAssumption DEF NoRequest, Request, Kind
<1>3. RequestInv(p)'
  <2>1. req'[p] = r /\ pc'[p] = FirstStatement(r.kind) /\ UNCHANGED row
    BY <1>1 DEF IInv, TypeOK, Arrive, Goto, storeVars
  <2>2. QED
    BY <1>1, <2>1, AdminAssumption, BoundAssumption DEF RequestInv, FirstStatement, NoRequest
<1>4. QED
  BY <1>1, <1>2, <1>3, ArriveLemma

LEMMA StartCleanupPreserves ==
  ASSUME IInv, NEW p \in Proc, StartCleanup(p)
  PROVE  IInv'
<1> DEFINE r == [NoRequest EXCEPT !.kind = "cleanup"]
<1>1. Arrive(p, r)
  BY DEF StartCleanup
<1>2. r \in Request /\ r.kind \in Kind
  BY AdminAssumption, BoundAssumption, StoreAssumption DEF NoRequest, Request, Kind
<1>3. RequestInv(p)'
  <2>1. req'[p] = r /\ pc'[p] = FirstStatement(r.kind) /\ UNCHANGED row
    BY <1>1 DEF IInv, TypeOK, Arrive, Goto, storeVars
  <2>2. QED
    BY <1>1, <2>1, AdminAssumption, BoundAssumption DEF RequestInv, FirstStatement, NoRequest
<1>4. QED
  BY <1>1, <1>2, <1>3, ArriveLemma

-----------------------------------------------------------------------------
(* Statements.                                                             *)

LEMMA ReadTokenPreserves ==
  ASSUME IInv, NEW p \in Proc, ReadToken(p)
  PROVE  IInv'
<1>1. TypeOK /\ RowInv /\ RequestInv(p) /\ LockInv(p) /\ WriteInv(p)
  BY DEF IInv
<1>2. /\ pc[p] = "read" /\ pc'[p] = "lockActive"
      /\ req[p].kind = "rotate" /\ req[p].token \in Token
      /\ row[req[p].token].user \in User
      /\ req' = [req EXCEPT ![p].user = row[req[p].token].user]
      /\ pc' = [pc EXCEPT ![p] = "lockActive"]
      /\ UNCHANGED <<ws, todo, attempt, writer, forUpdate, share, rowLock>>
  BY <1>1, LabelLemma, UserLemma, ProcAssumption, StoreAssumption
     DEF ReadToken, At, Goto, TypeOK, RowInv, RequestInv, NoRequest, locks
<1>3. UNCHANGED storeVars
  BY DEF ReadToken
<1>4. TypeOK'
  <2>1. req' \in [Proc -> Request]
    BY <1>1, <1>2, TypingLemma DEF TypeOK
  <2>2. QED
    BY <1>1, <1>2, <1>3, <2>1 DEF TypeOK, StoreTypeOK, PC, storeVars, locks
<1>5. ASSUME NEW q \in Proc \ {p}
      PROVE  Untouched(q)
  BY <1>1, <1>2, <1>5, ApartLemma, ProcAssumption
     DEF TypeOK, Untouched, locks
<1>6. RequestInv(p)'
  BY <1>1, <1>2, <1>3 DEF RequestInv, storeVars, NoRequest, TypeOK, Request
<1>7. LockInv(p)'
  BY <1>1, <1>2, <1>3 DEF LockInv, storeVars, TypeOK
<1>8. WriteInv(p)'
  BY <1>1, <1>2, <1>3 DEF WriteInv, storeVars, Revoking, LiveOf, Retired, TypeOK, Request
<1>9. QED
  BY <1>3, <1>4, <1>5, <1>6, <1>7, <1>8, QuietLemma

LEMMA LockActiveUserPreserves ==
  ASSUME IInv, NEW p \in Proc, LockActiveUser(p)
  PROVE  IInv'
<1>1. TypeOK /\ RowInv /\ RequestInv(p) /\ LockInv(p) /\ WriteInv(p)
  BY DEF IInv
<1>2. /\ pc[p] = "lockActive" /\ req[p].kind \in {"issue", "rotate"}
      /\ req[p].user \in User /\ status[req[p].user] = "ACTIVE"
      /\ writer[req[p].user] \in {None, p}
      /\ writer' = [writer EXCEPT ![req[p].user] = p]
      /\ forUpdate' = forUpdate \cup {req[p].user}
      /\ pc' = [pc EXCEPT ![p] = IF req[p].kind = "rotate" THEN "revoke" ELSE "insert"]
      /\ UNCHANGED <<req, ws, todo, attempt, share, rowLock>>
  BY <1>1, LabelLemma, UserLemma, ProcAssumption, StoreAssumption
     DEF LockActiveUser, TakeForUpdate, CanLock, CanUpdate, At, Goto
<1>3. UNCHANGED storeVars
  BY DEF LockActiveUser
<1>4. TypeOK'
  BY <1>1, <1>2, <1>3 DEF TypeOK, StoreTypeOK, PC, storeVars, Request
<1>5. ASSUME NEW q \in Proc \ {p}
      PROVE  Untouched(q)
  BY <1>1, <1>2, <1>5, ApartLemma, ProcAssumption
     DEF TypeOK, Untouched, locks
<1>6. RequestInv(p)'
  BY <1>1, <1>2, <1>3 DEF RequestInv, storeVars, NoRequest, TypeOK
<1>7. LockInv(p)'
  BY <1>1, <1>2, <1>3 DEF LockInv, storeVars, TypeOK
<1>8. WriteInv(p)'
  BY <1>1, <1>2, <1>3 DEF WriteInv, storeVars, Revoking, LiveOf, Retired, TypeOK
<1>9. QED
  BY <1>3, <1>4, <1>5, <1>6, <1>7, <1>8, QuietLemma

LEMMA RevokePresentedPreserves ==
  ASSUME IInv, NEW p \in Proc, RevokePresented(p)
  PROVE  IInv'
<1>1. TypeOK /\ RowInv /\ RequestInv(p) /\ LockInv(p) /\ WriteInv(p)
  BY DEF IInv
<1>2. /\ pc[p] = "revoke" /\ req[p].kind = "rotate" /\ req[p].token \in Token
      /\ row[req[p].token].state = "live" /\ row[req[p].token].user = req[p].user
      /\ rowLock[req[p].token] \in {None, p}
      /\ rowLock' = [rowLock EXCEPT ![req[p].token] = p]
      /\ ws' = [ws EXCEPT ![p].ended = {req[p].token}]
      /\ pc' = [pc EXCEPT ![p] = "insert"]
      /\ UNCHANGED <<req, todo, attempt, writer, forUpdate, share>>
  BY <1>1, LabelLemma, UserLemma, ProcAssumption, StoreAssumption
     DEF RevokePresented, Redeemable, RowFree, At, Goto, RequestInv, NoRequest
<1>3. UNCHANGED storeVars
  BY DEF RevokePresented
<1>4. TypeOK'
  <2>1. ws' \in [Proc -> Writes]
    <3>1. /\ ws \in [Proc -> Writes] /\ {req[p].token} \in SUBSET Token
          /\ ws' = [ws EXCEPT ![p].ended = {req[p].token}]
      BY <1>1, <1>2 DEF TypeOK
    <3>2. QED
      BY <3>1 DEF Writes
  <2>2. QED
    BY <1>1, <1>2, <1>3, <2>1 DEF TypeOK, StoreTypeOK, PC, storeVars, locks
<1>5. ASSUME NEW q \in Proc \ {p}
      PROVE  Untouched(q)
  BY <1>1, <1>2, <1>5, ApartLemma, ProcAssumption
     DEF TypeOK, Untouched, locks, Writes
<1>6. RequestInv(p)'
  BY <1>1, <1>2, <1>3 DEF RequestInv, storeVars, NoRequest
<1>7. LockInv(p)'
  BY <1>1, <1>2, <1>3 DEF LockInv, storeVars, TypeOK
<1>8. WriteInv(p)'
  BY <1>1, <1>2, <1>3 DEF WriteInv, storeVars, Revoking, LiveOf, Retired, TypeOK, Writes
<1>9. QED
  BY <1>3, <1>4, <1>5, <1>6, <1>7, <1>8, QuietLemma

LEMMA InsertTokenPreserves ==
  ASSUME IInv, NEW p \in Proc, InsertToken(p)
  PROVE  IInv'
<1>1. TypeOK /\ RowInv /\ RequestInv(p) /\ LockInv(p) /\ WriteInv(p)
  BY DEF IInv
<1>2. /\ pc[p] = "insert" /\ req[p].kind \in {"issue", "rotate"}
      /\ \E n \in Token : /\ row[n].state = "unused"
                          /\ \A q \in Proc : n \notin ws[q].inserted
                          /\ ws' = [ws EXCEPT ![p].inserted = {n}]
      /\ pc' = [pc EXCEPT ![p] = "commit"]
      /\ UNCHANGED <<req, todo, attempt, locks>>
  BY <1>1, LabelLemma, UserLemma, ProcAssumption, StoreAssumption
     DEF InsertToken, At, Goto
<1>3. UNCHANGED storeVars
  BY DEF InsertToken
<1>4. TypeOK'
  <2>1. ws' \in [Proc -> Writes]
    <3>1. /\ ws \in [Proc -> Writes]
          /\ \E n \in Token : ws' = [ws EXCEPT ![p].inserted = {n}]
      BY <1>1, <1>2 DEF TypeOK
    <3>2. QED
      BY <3>1 DEF Writes
  <2>2. QED
    BY <1>1, <1>2, <1>3, <2>1 DEF TypeOK, StoreTypeOK, PC, storeVars, locks
<1>5. ASSUME NEW q \in Proc \ {p}
      PROVE  Untouched(q)
  BY <1>1, <1>2, <1>5, ApartLemma, ProcAssumption
     DEF TypeOK, Untouched, locks, Writes
<1>6. RequestInv(p)'
  BY <1>1, <1>2, <1>3 DEF RequestInv, storeVars, NoRequest, TypeOK
<1>7. LockInv(p)'
  BY <1>1, <1>2, <1>3 DEF LockInv, storeVars, TypeOK, locks
<1>8. WriteInv(p)'
  BY <1>1, <1>2, <1>3 DEF WriteInv, storeVars, Revoking, LiveOf, Retired, TypeOK, Writes, locks
<1>9. QED
  BY <1>3, <1>4, <1>5, <1>6, <1>7, <1>8, QuietLemma

LEMMA UpdateUserStatusPreserves ==
  ASSUME IInv, NEW p \in Proc, UpdateUserStatus(p)
  PROVE  IInv'
<1>1. TypeOK /\ RowInv /\ RequestInv(p) /\ LockInv(p) /\ WriteInv(p)
  BY DEF IInv
<1>2. /\ pc[p] = "update" /\ req[p].kind = "setStatus"
      /\ req[p].user \in User /\ req[p].status \in Status
      /\ writer[req[p].user] \in {None, p}
      /\ writer' = [writer EXCEPT ![req[p].user] = p]
      /\ ws' = [ws EXCEPT ![p].status = req[p].status]
      /\ pc' = [pc EXCEPT ![p] = IF req[p].status \in Barred THEN "lockAny" ELSE "audit"]
      /\ UNCHANGED <<req, todo, attempt, forUpdate, share, rowLock>>
  BY <1>1, LabelLemma, UserLemma, ProcAssumption, StoreAssumption
     DEF UpdateUserStatus, CanUpdate, At, Goto, RequestInv, NoRequest
<1>3. UNCHANGED storeVars
  BY DEF UpdateUserStatus
<1>4. TypeOK'
  <2>1. ws' \in [Proc -> Writes]
    <3>1. ws \in [Proc -> Writes]
      BY <1>1 DEF TypeOK
    <3>2. QED
      BY <1>2, <3>1 DEF Writes
  <2>2. pc' \in [Proc -> PC]
    BY <1>1, <1>2 DEF TypeOK, PC
  <2>3. QED
    BY <1>1, <1>2, <1>3, <2>1, <2>2 DEF TypeOK, StoreTypeOK, storeVars
<1>5. ASSUME NEW q \in Proc \ {p}
      PROVE  Untouched(q)
  BY <1>1, <1>2, <1>5, ApartLemma, ProcAssumption
     DEF TypeOK, Untouched, locks, Writes
<1>6. RequestInv(p)'
  BY <1>1, <1>2, <1>3 DEF RequestInv, storeVars, NoRequest
<1>7. LockInv(p)'
  BY <1>1, <1>2, <1>3 DEF LockInv, storeVars, TypeOK
<1>8. WriteInv(p)'
  BY <1>1, <1>2, <1>3 DEF WriteInv, storeVars, Revoking, LiveOf, Retired, TypeOK, Writes
<1>9. QED
  BY <1>3, <1>4, <1>5, <1>6, <1>7, <1>8, QuietLemma

LEMMA LockUserForRevocationPreserves ==
  ASSUME IInv, NEW p \in Proc, LockUserForRevocation(p)
  PROVE  IInv'
<1>1. TypeOK /\ RowInv /\ RequestInv(p) /\ LockInv(p) /\ WriteInv(p)
  BY DEF IInv
<1>2. /\ pc[p] = "lockAny" /\ req[p].kind \in {"setStatus", "revokeSessions"}
      /\ req[p].user \in User
      /\ writer[req[p].user] \in {None, p}
      /\ writer' = [writer EXCEPT ![req[p].user] = p]
      /\ forUpdate' = forUpdate \cup {req[p].user}
      /\ pc' = [pc EXCEPT ![p] = "snapshot"]
      /\ UNCHANGED <<req, ws, todo, attempt, share, rowLock>>
  BY <1>1, LabelLemma, UserLemma, ProcAssumption, StoreAssumption
     DEF LockUserForRevocation, TakeForUpdate, CanLock, CanUpdate, At, Goto
<1>3. UNCHANGED storeVars
  BY DEF LockUserForRevocation
<1>4. TypeOK'
  BY <1>1, <1>2, <1>3 DEF TypeOK, StoreTypeOK, PC, storeVars, Request
<1>5. ASSUME NEW q \in Proc \ {p}
      PROVE  Untouched(q)
  BY <1>1, <1>2, <1>5, ApartLemma, ProcAssumption
     DEF TypeOK, Untouched, locks
<1>6. RequestInv(p)'
  BY <1>1, <1>2, <1>3 DEF RequestInv, storeVars, NoRequest, TypeOK
<1>7. LockInv(p)'
  BY <1>1, <1>2, <1>3 DEF LockInv, storeVars, TypeOK
<1>8. WriteInv(p)'
  BY <1>1, <1>2, <1>3 DEF WriteInv, storeVars, Revoking, LiveOf, Retired, TypeOK
<1>9. QED
  BY <1>3, <1>4, <1>5, <1>6, <1>7, <1>8, QuietLemma

LEMMA BeginRowsPreserves ==
  ASSUME IInv, NEW p \in Proc, BeginRows(p)
  PROVE  IInv'
<1>1. TypeOK /\ RowInv /\ RequestInv(p) /\ LockInv(p) /\ WriteInv(p)
  BY DEF IInv
<1>2. /\ pc[p] = "snapshot" /\ req[p].kind \in {"setStatus", "revokeSessions", "cleanup"}
      /\ \E S \in SUBSET Token :
           /\ todo' = [todo EXCEPT ![p] = S]
           /\ req[p].kind = "cleanup" => S \subseteq Retired
           /\ req[p].kind # "cleanup" => S = LiveOf(req[p].user)
      /\ pc' = [pc EXCEPT ![p] = "rows"]
      /\ UNCHANGED <<req, ws, attempt, writer, forUpdate, share, rowLock>>
  BY <1>1, LabelLemma, UserLemma, ProcAssumption, StoreAssumption
     DEF BeginRows, At, Goto, LiveOf, Retired, locks
<1>3. UNCHANGED storeVars
  BY DEF BeginRows
<1>4. TypeOK'
  BY <1>1, <1>2, <1>3 DEF TypeOK, StoreTypeOK, PC, storeVars, Request
<1>5. ASSUME NEW q \in Proc \ {p}
      PROVE  Untouched(q)
  BY <1>1, <1>2, <1>5, ApartLemma, ProcAssumption
     DEF TypeOK, Untouched, locks
<1>6. RequestInv(p)'
  BY <1>1, <1>2, <1>3 DEF RequestInv, storeVars, NoRequest, TypeOK
<1>7. LockInv(p)'
  BY <1>1, <1>2, <1>3 DEF LockInv, storeVars
<1>8. WriteInv(p)'
  BY <1>1, <1>2, <1>3 DEF WriteInv, storeVars, Revoking, LiveOf, Retired, TypeOK
<1>9. QED
  BY <1>3, <1>4, <1>5, <1>6, <1>7, <1>8, QuietLemma

LEMMA WriteRowPreserves ==
  ASSUME IInv, NEW p \in Proc, WriteRow(p)
  PROVE  IInv'
<1>1. TypeOK /\ RowInv /\ RequestInv(p) /\ LockInv(p) /\ WriteInv(p)
  BY DEF IInv
<1>2. /\ pc[p] = "rows" /\ pc'[p] = "rows" /\ req[p].kind \in {"setStatus", "revokeSessions", "cleanup"}
      /\ \E t \in Token :
           /\ t \in todo[p] /\ rowLock[t] \in {None, p}
           /\ req[p].kind = "cleanup" => row[t].state # "deleted"
           /\ req[p].kind # "cleanup" => row[t].state = "live"
           /\ rowLock' = [rowLock EXCEPT ![t] = p]
           /\ ws' = [ws EXCEPT ![p].ended = @ \cup {t}]
           /\ todo' = [todo EXCEPT ![p] = @ \ {t}]
      /\ UNCHANGED <<pc, req, attempt, writer, forUpdate, share>>
  BY <1>1, LabelLemma, UserLemma, ProcAssumption, StoreAssumption
     DEF WriteRow, StillMatches, RowFree, At, TypeOK
<1>3. UNCHANGED storeVars
  BY DEF WriteRow
<1>4. TypeOK'
  <2>1. ws' \in [Proc -> Writes]
    <3>1. /\ ws \in [Proc -> Writes]
          /\ \E t \in Token : ws' = [ws EXCEPT ![p].ended = @ \cup {t}]
      BY <1>1, <1>2 DEF TypeOK
    <3>2. QED
      BY <3>1 DEF Writes
  <2>2. QED
    BY <1>1, <1>2, <1>3, <2>1 DEF TypeOK, StoreTypeOK, PC, storeVars, locks
<1>5. ASSUME NEW q \in Proc \ {p}
      PROVE  Untouched(q)
  BY <1>1, <1>2, <1>5, ApartLemma, ProcAssumption
     DEF TypeOK, Untouched, locks, Writes
<1>6. RequestInv(p)'
  BY <1>1, <1>2, <1>3 DEF RequestInv, storeVars, NoRequest
<1>7. LockInv(p)'
  BY <1>1, <1>2, <1>3 DEF LockInv, storeVars
<1>8. WriteInv(p)'
  <2>1. PICK t \in Token :
          /\ t \in todo[p] /\ rowLock[t] \in {None, p}
          /\ req[p].kind = "cleanup" => row[t].state # "deleted"
          /\ req[p].kind # "cleanup" => row[t].state = "live"
          /\ rowLock' = [rowLock EXCEPT ![t] = p]
          /\ ws' = [ws EXCEPT ![p].ended = @ \cup {t}]
          /\ todo' = [todo EXCEPT ![p] = @ \ {t}]
    BY <1>2
  <2>2. /\ ws'[p].ended = ws[p].ended \cup {t} /\ todo'[p] = todo[p] \ {t}
        /\ ws'[p].status = ws[p].status /\ ws'[p].inserted = ws[p].inserted
        /\ ws[p].ended \subseteq Token /\ todo[p] \subseteq Token
        /\ ws[p].inserted = {}
    BY <1>1, <1>2, <2>1 DEF TypeOK, Writes, WriteInv
  <2>3. /\ req[p].kind = "cleanup" => t \in Retired
        /\ req[p].kind # "cleanup" => row[t].state = "live" /\ row[t].user = req[p].user
    BY <1>1, <2>1 DEF WriteInv
  <2>4. \A s \in ws'[p].ended : rowLock'[s] = p
    BY <1>1, <2>1, <2>2 DEF WriteInv, TypeOK
  <2>5. req[p].kind = "setStatus" => Revoking(p)
    BY <1>1, <1>2, ProcAssumption DEF RequestInv, NoRequest, Revoking, Kind
  <2>6. /\ Revoking(p)' <=> Revoking(p)
        /\ Revoking(p) => LiveOf(req[p].user)' \subseteq todo'[p] \cup ws'[p].ended
        /\ Retired' = Retired
    BY <1>1, <1>2, <1>3, <2>2 DEF WriteInv, Revoking, LiveOf, Retired, storeVars
  <2>7. QED
    BY <1>1, <1>2, <1>3, <2>2, <2>3, <2>4, <2>5, <2>6 DEF WriteInv, storeVars
<1>9. QED
  BY <1>3, <1>4, <1>5, <1>6, <1>7, <1>8, QuietLemma

LEMMA SkipRowPreserves ==
  ASSUME IInv, NEW p \in Proc, SkipRow(p)
  PROVE  IInv'
<1>1. TypeOK /\ RowInv /\ RequestInv(p) /\ LockInv(p) /\ WriteInv(p)
  BY DEF IInv
<1>2. /\ pc[p] = "rows" /\ req[p].kind \in {"setStatus", "revokeSessions", "cleanup"}
      /\ \E t \in Token :
           /\ t \in todo[p]
           /\ req[p].kind # "cleanup" => row[t].state # "live"
           /\ todo' = [todo EXCEPT ![p] = @ \ {t}]
      /\ UNCHANGED <<pc, req, ws, attempt, writer, forUpdate, share, rowLock>>
  BY <1>1, LabelLemma, UserLemma, ProcAssumption, StoreAssumption
     DEF SkipRow, StillMatches, At, TypeOK, locks
<1>3. UNCHANGED storeVars
  BY DEF SkipRow
<1>4. TypeOK'
  BY <1>1, <1>2, <1>3 DEF TypeOK, StoreTypeOK, PC, storeVars, Writes
<1>5. ASSUME NEW q \in Proc \ {p}
      PROVE  Untouched(q)
  BY <1>1, <1>2, <1>5, ApartLemma, ProcAssumption
     DEF TypeOK, Untouched, locks
<1>6. RequestInv(p)'
  BY <1>1, <1>2, <1>3 DEF RequestInv, storeVars, NoRequest
<1>7. LockInv(p)'
  BY <1>1, <1>2, <1>3 DEF LockInv, storeVars
<1>8. WriteInv(p)'
  BY <1>1, <1>2, <1>3 DEF WriteInv, storeVars, Revoking, LiveOf, Retired, TypeOK
<1>9. QED
  BY <1>3, <1>4, <1>5, <1>6, <1>7, <1>8, QuietLemma

LEMMA EndRowsPreserves ==
  ASSUME IInv, NEW p \in Proc, EndRows(p)
  PROVE  IInv'
<1>1. TypeOK /\ RowInv /\ RequestInv(p) /\ LockInv(p) /\ WriteInv(p)
  BY DEF IInv
<1>2. /\ pc[p] = "rows" /\ req[p].kind \in {"setStatus", "revokeSessions", "cleanup"}
      /\ todo[p] = {}
      /\ pc' = [pc EXCEPT ![p] = IF req[p].kind = "cleanup" THEN "commit" ELSE "audit"]
      /\ UNCHANGED <<req, ws, todo, attempt, writer, forUpdate, share, rowLock>>
  BY <1>1, LabelLemma, UserLemma, ProcAssumption, StoreAssumption
     DEF EndRows, At, Goto, locks
<1>3. UNCHANGED storeVars
  BY DEF EndRows
<1>4. TypeOK'
  BY <1>1, <1>2, <1>3 DEF TypeOK, StoreTypeOK, PC, storeVars, Request
<1>5. ASSUME NEW q \in Proc \ {p}
      PROVE  Untouched(q)
  BY <1>1, <1>2, <1>5, ApartLemma, ProcAssumption
     DEF TypeOK, Untouched, locks
<1>6. RequestInv(p)'
  BY <1>1, <1>2, <1>3 DEF RequestInv, storeVars, NoRequest, TypeOK
<1>7. LockInv(p)'
  BY <1>1, <1>2, <1>3 DEF LockInv, storeVars
<1>8. WriteInv(p)'
  BY <1>1, <1>2, <1>3 DEF WriteInv, storeVars, Revoking, LiveOf, Retired, TypeOK
<1>9. QED
  BY <1>3, <1>4, <1>5, <1>6, <1>7, <1>8, QuietLemma

LEMMA WriteAuditPreserves ==
  ASSUME IInv, NEW p \in Proc, WriteAudit(p)
  PROVE  IInv'
<1>1. TypeOK /\ RowInv /\ RequestInv(p) /\ LockInv(p) /\ WriteInv(p)
  BY DEF IInv
<1>2. /\ pc[p] = "audit" /\ req[p].kind \in {"setStatus", "revokeSessions"}
      /\ share' = [share EXCEPT ![req[p].actor] = @ \cup {p}]
      /\ pc' = [pc EXCEPT ![p] = "commit"]
      /\ UNCHANGED <<req, ws, todo, attempt, writer, forUpdate, rowLock>>
  BY <1>1, LabelLemma, UserLemma, ProcAssumption, StoreAssumption
     DEF WriteAudit, At, Goto
<1>3. UNCHANGED storeVars
  BY DEF WriteAudit
<1>4. TypeOK'
  BY <1>1, <1>2, <1>3 DEF TypeOK, StoreTypeOK, PC, storeVars, Request
<1>5. ASSUME NEW q \in Proc \ {p}
      PROVE  Untouched(q)
  BY <1>1, <1>2, <1>5, ApartLemma, ProcAssumption
     DEF TypeOK, Untouched, locks
<1>6. RequestInv(p)'
  BY <1>1, <1>2, <1>3 DEF RequestInv, storeVars, NoRequest, TypeOK
<1>7. LockInv(p)'
  BY <1>1, <1>2, <1>3 DEF LockInv, storeVars, TypeOK
<1>8. WriteInv(p)'
  BY <1>1, <1>2, <1>3 DEF WriteInv, storeVars, Revoking, LiveOf, Retired, TypeOK
<1>9. QED
  BY <1>3, <1>4, <1>5, <1>6, <1>7, <1>8, QuietLemma
-----------------------------------------------------------------------------
(* Ends of requests and of transactions.                                   *)

\* A request that has ended keeps nothing, so only its effect on the committed
\* store and on the others is left to check.
LEMMA EndLemma ==
  ASSUME IInv, NEW p \in Proc, TypeOK', RowInv',
         pc'[p] = "idle", req'[p] = NoRequest, todo'[p] = {},
         ws'[p].status = None, ws'[p].inserted = {}, ws'[p].ended = {},
         \A q \in Proc \ {p} : Untouched(q) /\ Respected(q)
  PROVE  IInv'
<1>1. ASSUME NEW q \in Proc \ {p}
      PROVE  RequestInv(q)' /\ LockInv(q)' /\ WriteInv(q)'
  BY OthersLemma
<1>2. RequestInv(p)'
  BY DEF RequestInv
<1>3. LockInv(p)'
  BY ProcAssumption DEF LockInv, NoRequest, Kind
<1>4. WriteInv(p)'
  BY ProcAssumption DEF WriteInv, NoRequest, Kind, Revoking
<1>5. QED
  BY <1>1, <1>2, <1>3, <1>4 DEF IInv

\* What EndTransaction leaves of the tables of locks and writes.
LEMMA EndTransactionLemma ==
  ASSUME IInv, NEW p \in Proc, EndTransaction(p)
  PROVE  /\ writer' \in [User -> Proc \cup {None}]
         /\ forUpdate' \in SUBSET User
         /\ share' \in [User -> SUBSET Proc]
         /\ rowLock' \in [Token -> Proc \cup {None}]
         /\ ws' \in [Proc -> Writes]
         /\ todo' \in [Proc -> SUBSET Token]
         /\ ws'[p] = NoWrites /\ todo'[p] = {}
         /\ \A q \in Proc \ {p} :
              /\ ws'[q] = ws[q] /\ todo'[q] = todo[q]
              /\ \A u \in User : writer[u] = q => writer'[u] = q
              /\ \A t \in Token : rowLock[t] = q => rowLock'[t] = q
<1>1. TypeOK
  BY DEF IInv
<1>2. NoWrites \in Writes
  BY DEF NoWrites, Writes
<1>3. QED
  BY <1>1, <1>2 DEF TypeOK, EndTransaction

\* What EndRequest leaves of the table of requests.
LEMMA EndRequestLemma ==
  ASSUME IInv, NEW p \in Proc, EndRequest(p)
  PROVE  /\ pc' \in [Proc -> PC]
         /\ req' \in [Proc -> Request]
         /\ attempt' \in [Proc -> 1..MaxAttempts]
         /\ pc'[p] = "idle" /\ req'[p] = NoRequest
         /\ \A q \in Proc \ {p} : pc'[q] = pc[q] /\ req'[q] = req[q]
<1>1. TypeOK
  BY DEF IInv
<1>2. NoRequest \in Request /\ "idle" \in PC /\ 1 \in 1..MaxAttempts
  BY AttemptsAssumption DEF NoRequest, Request, PC
<1>3. QED
  BY <1>1, <1>2 DEF TypeOK, EndRequest

\* Whoever is not committing keeps its inserted rows to itself.
LEMMA StillApartLemma ==
  ASSUME IInv, NEW p \in Proc,
         ws'[p].inserted \subseteq ws[p].inserted,
         \A q \in Proc \ {p} : ws'[q] = ws[q],
         NEW q \in Proc \ {p}, NEW r \in Proc \ {q}, NEW n \in ws[q].inserted
  PROVE  n \notin ws'[r].inserted
<1>1. n \notin ws[r].inserted
  BY ApartLemma
<1>2. QED
  BY <1>1

LEMMA RollbackPreserves ==
  ASSUME IInv, NEW p \in Proc, Rollback(p)
  PROVE  IInv'
<1>1. TypeOK /\ RowInv
  BY DEF IInv
<1>2. EndTransaction(p) /\ EndRequest(p) /\ UNCHANGED storeVars
  BY DEF Rollback
<1>3. TypeOK'
  BY <1>1, <1>2, EndTransactionLemma, EndRequestLemma DEF TypeOK, StoreTypeOK, storeVars
<1>4. RowInv'
  BY <1>1, <1>2 DEF RowInv, storeVars
<1>5. ws'[p].status = None /\ ws'[p].inserted = {} /\ ws'[p].ended = {}
  BY <1>2, EndTransactionLemma DEF NoWrites
<1>6. ASSUME NEW q \in Proc \ {p}
      PROVE  Untouched(q) /\ Respected(q)
  <2>1. Untouched(q)
    BY <1>2, <1>5, EndTransactionLemma, EndRequestLemma, StillApartLemma DEF Untouched
  <2>2. Respected(q)
    BY <1>1, <1>2 DEF TypeOK, StoreTypeOK, Row, storeVars, Respected
  <2>3. QED
    BY <2>1, <2>2
<1>7. QED
  BY <1>2, <1>3, <1>4, <1>5, <1>6, EndTransactionLemma, EndRequestLemma, EndLemma

LEMMA RetryDeadlockPreserves ==
  ASSUME IInv, NEW p \in Proc, RetryDeadlock(p)
  PROVE  IInv'
<1>1. TypeOK /\ RowInv /\ RequestInv(p) /\ LockInv(p) /\ WriteInv(p)
  BY DEF IInv
<1>2. pc[p] # "idle"
  <2>1. WaitsFor(p) # {}
    BY DEF RetryDeadlock, Deadlocked, Stuck
  <2>2. QED
    BY <2>1 DEF WaitsFor, At
<1>3. req[p].kind \in Kind \ {"logout"}
  <2>1. pc[p] # "logout"
    <3>1. WaitsFor(p) # {}
      BY DEF RetryDeadlock, Deadlocked, Stuck
    <3>2. QED
      BY <3>1 DEF WaitsFor, At
  <2>2. QED
    BY <1>1, <1>2, <2>1, LabelLemma DEF RequestInv, Kind, NoRequest
<1>4. /\ EndTransaction(p) /\ UNCHANGED storeVars /\ req' = req
      /\ attempt' = [attempt EXCEPT ![p] = @ + 1] /\ attempt[p] < MaxAttempts
      /\ pc' = [pc EXCEPT ![p] = FirstStatement(req[p].kind)]
  BY DEF RetryDeadlock, Goto
<1>5. /\ FirstStatement(req[p].kind) \in {"lockActive", "read", "update", "lockAny", "snapshot"}
      /\ req[p].kind = "issue" => FirstStatement(req[p].kind) = "lockActive"
      /\ req[p].kind = "rotate" => FirstStatement(req[p].kind) = "read"
      /\ req[p].kind = "setStatus" => FirstStatement(req[p].kind) = "update"
      /\ req[p].kind = "revokeSessions" => FirstStatement(req[p].kind) = "lockAny"
      /\ req[p].kind = "cleanup" => FirstStatement(req[p].kind) = "snapshot"
  BY <1>3 DEF FirstStatement, Kind
<1>6. TypeOK'
  <2>1. pc' \in [Proc -> PC]
    BY <1>1, <1>4, <1>5 DEF TypeOK, PC
  <2>2. attempt' \in [Proc -> 1..MaxAttempts]
    BY <1>1, <1>4, AttemptsAssumption DEF TypeOK
  <2>3. QED
    BY <1>1, <1>4, <2>1, <2>2, EndTransactionLemma DEF TypeOK, StoreTypeOK, storeVars
<1>7. pc'[p] = FirstStatement(req[p].kind) /\ req'[p] = req[p]
  BY <1>1, <1>4 DEF TypeOK
<1>8. /\ ws'[p].status = None /\ ws'[p].inserted = {} /\ ws'[p].ended = {}
      /\ todo'[p] = {}
  BY <1>4, EndTransactionLemma DEF NoWrites
<1>9. ASSUME NEW q \in Proc \ {p}
      PROVE  Untouched(q)
  BY <1>1, <1>4, <1>8, EndTransactionLemma, StillApartLemma DEF TypeOK, Untouched
<1>10. RequestInv(p)'
  <2>1. row' = row
    BY <1>4 DEF storeVars
  <2>2. CASE req[p].kind = "issue"
    BY <1>1, <1>2, <1>5, <1>7, <2>2 DEF RequestInv
  <2>3. CASE req[p].kind = "rotate"
    BY <1>1, <1>2, <1>5, <1>7, <2>1, <2>3 DEF RequestInv
  <2>4. CASE req[p].kind = "setStatus"
    BY <1>1, <1>2, <1>5, <1>7, <2>4 DEF RequestInv
  <2>5. CASE req[p].kind = "revokeSessions"
    BY <1>1, <1>2, <1>5, <1>7, <2>5 DEF RequestInv
  <2>6. CASE req[p].kind = "cleanup"
    BY <1>1, <1>2, <1>5, <1>7, <2>6 DEF RequestInv
  <2>7. QED
    BY <1>3, <2>2, <2>3, <2>4, <2>5, <2>6 DEF Kind
<1>11. LockInv(p)'
  BY <1>3, <1>5, <1>7 DEF LockInv, Kind
<1>12. WriteInv(p)'
  BY <1>3, <1>5, <1>7, <1>8 DEF WriteInv, Kind
<1>13. QED
  BY <1>4, <1>6, <1>9, <1>10, <1>11, <1>12, QuietLemma

LEMMA LogoutPreserves ==
  ASSUME IInv, NEW p \in Proc, Logout(p)
  PROVE  IInv'
<1>1. TypeOK /\ RowInv /\ RequestInv(p) /\ WriteInv(p)
  BY DEF IInv
<1>2. /\ req[p].kind = "logout" /\ req[p].token \in Token /\ pc[p] = "logout"
      /\ EndRequest(p) /\ UNCHANGED <<status, expired, ws, todo, locks>>
  BY <1>1, LabelLemma, ProcAssumption DEF Logout, At, RequestInv, NoRequest, Kind
<1> DEFINE t == req[p].token
<1>3. \/ row[t].state = "live" /\ rowLock[t] \in {None, p} /\ row' = Moved({t}, "revoked")
      \/ row' = row
  BY DEF Logout, RowFree
<1>4. TypeOK'
  <2>1. row' \in [Token -> Row]
    BY <1>1, <1>2, <1>3 DEF TypeOK, StoreTypeOK, Moved, Row
  <2>2. QED
    BY <1>1, <1>2, <2>1, EndRequestLemma DEF TypeOK, StoreTypeOK, locks
<1>5. RowInv'
  BY <1>1, <1>2, <1>3 DEF TypeOK, StoreTypeOK, RowInv, Moved, Row
<1>6. ws'[p].status = None /\ ws'[p].inserted = {} /\ ws'[p].ended = {} /\ todo'[p] = {}
  BY <1>1, <1>2 DEF WriteInv
<1>7. ASSUME NEW q \in Proc \ {p}
      PROVE  Untouched(q) /\ Respected(q)
  <2>1. Untouched(q)
    BY <1>1, <1>2, ApartLemma, EndRequestLemma DEF Untouched, locks
  <2>2. WriteInv(q)
    BY DEF IInv
  <2>3. \A s \in ws[q].ended \cup ws[q].inserted : s \in Token /\ row'[s] = row[s]
    BY <1>1, <1>2, <1>3, <2>2, ProcAssumption DEF WriteInv, TypeOK, Writes, Moved
  <2>4. Respected(q)
    BY <1>1, <1>2, <1>3, <2>3 DEF TypeOK, StoreTypeOK, Row, Moved, Respected
  <2>5. QED
    BY <2>1, <2>4
<1>8. QED
  BY <1>2, <1>4, <1>5, <1>6, <1>7, EndRequestLemma, EndLemma

LEMMA TimePassesPreserves ==
  ASSUME IInv, TimePasses
  PROVE  IInv'
<1>1. PICK t \in Token : Expire(t)
  BY DEF TimePasses
<1>2. /\ expired' = expired \cup {t} /\ UNCHANGED <<status, row>>
      /\ UNCHANGED <<pc, req, ws, todo, attempt, locks>>
  BY <1>1 DEF Expire, TimePasses
<1>3. TypeOK'
  BY <1>2 DEF IInv, TypeOK, StoreTypeOK, locks
<1>4. RowInv'
  BY <1>2 DEF IInv, RowInv
<1>5. ASSUME NEW q \in Proc
      PROVE  Untouched(q) /\ Respected(q)
  <2>1. Untouched(q)
    BY <1>2, ApartLemma DEF Untouched, locks
  <2>2. Respected(q)
    BY <1>2 DEF IInv, TypeOK, StoreTypeOK, Row, Respected
  <2>3. QED
    BY <2>1, <2>2
<1>6. QED
  BY <1>3, <1>4, <1>5, OthersLemma DEF IInv

\* What a committing request has written, and what its commit does with it.
LEMMA CommitLemma ==
  ASSUME IInv, NEW p \in Proc, Commit(p)
  PROVE  /\ req[p].kind \in {"issue", "rotate", "setStatus", "revokeSessions", "cleanup"}
         /\ \A u \in User : \/ status'[u] = status[u]
                            \/ /\ writer[u] = p /\ u = req[p].user
                               /\ req[p].kind = "setStatus"
                               /\ status'[u] = req[p].status
         /\ \A t \in Token :
              \/ t \in ws[p].inserted /\ row[t].state = "unused"
                 /\ req[p].user \in User /\ writer[req[p].user] = p
                 /\ row'[t] = [state |-> "live", user |-> req[p].user, parent |-> req[p].token]
              \/ t \in ws[p].ended /\ t \notin ws[p].inserted /\ rowLock[t] = p
                 /\ row'[t] = [row[t] EXCEPT !.state = EndState(p)]
              \/ t \notin ws[p].ended \cup ws[p].inserted /\ row'[t] = row[t]
         /\ \A t \in ws[p].ended :
              /\ t \in Token
              /\ IF req[p].kind = "cleanup" THEN t \in Retired /\ EndState(p) = "deleted"
                 ELSE /\ row[t].state = "live" /\ row[t].user = req[p].user
                      /\ EndState(p) = "revoked"
<1>1. TypeOK /\ RowInv /\ RequestInv(p) /\ LockInv(p) /\ WriteInv(p) /\ pc[p] = "commit"
  BY DEF IInv, Commit, At
<1>2. req[p].kind \in {"issue", "rotate", "setStatus", "revokeSessions", "cleanup"}
  BY <1>1, LabelLemma, ProcAssumption DEF Kind
<1>3. ASSUME NEW u \in User, status'[u] # status[u]
      PROVE  /\ writer[u] = p /\ u = req[p].user
             /\ req[p].kind = "setStatus" /\ status'[u] = req[p].status
  <2>1. u = req[p].user /\ ws[p].status # None /\ status'[u] = ws[p].status
    BY <1>3 DEF Commit
  <2>2. req[p].kind = "setStatus" /\ ws[p].status = req[p].status
    BY <1>1, <2>1 DEF WriteInv
  <2>3. QED
    BY <1>1, <2>1, <2>2 DEF LockInv
<1>4. ASSUME NEW t \in Token, t \in ws[p].inserted
      PROVE  /\ row[t].state = "unused"
             /\ req[p].user \in User /\ writer[req[p].user] = p
             /\ row'[t] = [state |-> "live", user |-> req[p].user, parent |-> req[p].token]
  <2>1. row[t].state = "unused" /\ req[p].kind \in {"issue", "rotate"}
    BY <1>1, <1>4 DEF WriteInv
  <2>2. QED
    BY <1>1, <1>4, <2>1, UserLemma DEF LockInv, Commit
<1>5. ASSUME NEW t \in ws[p].ended
      PROVE  /\ t \in Token /\ rowLock[t] = p
             /\ req[p].kind = "cleanup" => t \in Retired /\ EndState(p) = "deleted"
             /\ req[p].kind # "cleanup" =>
                  /\ row[t].state = "live" /\ row[t].user = req[p].user
                  /\ EndState(p) = "revoked"
  BY <1>1, <1>5 DEF WriteInv, TypeOK, Writes, EndState
<1>6. ASSUME NEW t \in Token, t \notin ws[p].inserted
      PROVE  row'[t] = IF t \in ws[p].ended THEN [row[t] EXCEPT !.state = EndState(p)]
                                            ELSE row[t]
  BY <1>6 DEF Commit, Moved
<1>7. ASSUME NEW t \in Token
      PROVE  \/ t \in ws[p].inserted /\ row[t].state = "unused"
                /\ req[p].user \in User /\ writer[req[p].user] = p
                /\ row'[t] = [state |-> "live", user |-> req[p].user, parent |-> req[p].token]
             \/ t \in ws[p].ended /\ t \notin ws[p].inserted /\ rowLock[t] = p
                /\ row'[t] = [row[t] EXCEPT !.state = EndState(p)]
             \/ t \notin ws[p].ended \cup ws[p].inserted /\ row'[t] = row[t]
  BY <1>4, <1>5, <1>6
<1>8. QED
  BY <1>2, <1>3, <1>5, <1>7

LEMMA CommitPreserves ==
  ASSUME IInv, NEW p \in Proc, Commit(p)
  PROVE  IInv'
<1>1. TypeOK /\ RowInv /\ RequestInv(p)
  BY DEF IInv
<1>2. EndTransaction(p) /\ EndRequest(p) /\ UNCHANGED expired
  BY DEF Commit
<1>3. req[p].token \in Token \cup {None}
  BY <1>1 DEF TypeOK, Request
<1>4. EndState(p) \in {"deleted", "revoked"}
  BY DEF EndState
<1>5. ASSUME NEW t \in Token
      PROVE  /\ t \in ws[p].inserted =>
                  /\ row[t].state = "unused" /\ req[p].user \in User
                  /\ writer[req[p].user] = p
                  /\ row'[t] = [state |-> "live", user |-> req[p].user,
                               parent |-> req[p].token]
             /\ \/ t \in ws[p].inserted
                \/ t \in ws[p].ended /\ row'[t] = [row[t] EXCEPT !.state = EndState(p)]
                \/ row'[t] = row[t]
  <2>1. WriteInv(p)
    BY DEF IInv
  <2>2. ~(t \in ws[p].inserted /\ t \in ws[p].ended)
    BY <2>1, CommitLemma DEF WriteInv, Retired
  <2>3. QED
    BY <2>2, CommitLemma
<1>6. TypeOK'
  <2>1. status' \in [User -> Status]
    <3>1. req[p].kind = "setStatus" => req[p].status \in Status
      BY <1>1, ProcAssumption DEF RequestInv, NoRequest, Kind
    <3>2. \A u \in User : status[u] \in Status
      BY <1>1 DEF TypeOK, StoreTypeOK
    <3>3. ASSUME NEW u \in User
          PROVE  status'[u] \in Status
      <4>1. \/ status'[u] = status[u]
            \/ req[p].kind = "setStatus" /\ status'[u] = req[p].status
        BY CommitLemma
      <4>2. QED
        BY <3>1, <3>2, <4>1
    <3>4. QED
      BY <3>3 DEF Commit
  <2>2. row' \in [Token -> Row]
    <3>1. ASSUME NEW t \in Token
          PROVE  row'[t] \in Row
      <4>1. row[t] \in Row
        BY <1>1 DEF TypeOK, StoreTypeOK
      <4>2. CASE t \in ws[p].inserted
        <5>1. req[p].user \in User
          BY <1>5, <4>2
        <5>2. row'[t] = [state |-> "live", user |-> req[p].user, parent |-> req[p].token]
          BY <1>5, <4>2
        <5>3. QED
          BY <1>3, <5>1, <5>2 DEF Row
      <4>3. CASE row'[t] = [row[t] EXCEPT !.state = EndState(p)]
        BY <1>4, <4>1, <4>3 DEF Row
      <4>4. QED
        BY <1>5, <4>1, <4>2, <4>3
    <3>2. QED
      BY <3>1 DEF Commit
  <2>3. QED
    BY <1>1, <1>2, <2>1, <2>2, EndTransactionLemma, EndRequestLemma DEF TypeOK, StoreTypeOK
<1>7. RowInv'
  <2>1. ASSUME NEW t \in Token
        PROVE  /\ row'[t].state # "unused" => row'[t].user \in User
               /\ row'[t].state = "unused" => row'[t].parent = None
    <3>1. row[t] \in Row
      BY <1>1 DEF TypeOK, StoreTypeOK
    <3>2. CASE t \in ws[p].inserted
      <4>1. req[p].user \in User /\ writer[req[p].user] = p /\ row[t].state = "unused"
        BY <1>5, <3>2
      <4>2. row'[t] = [state |-> "live", user |-> req[p].user, parent |-> req[p].token]
        BY <1>5, <3>2
      <4>3. QED
        BY <4>1, <4>2
    <3>3. CASE t \in ws[p].ended /\ row'[t] = [row[t] EXCEPT !.state = EndState(p)]
      <4>1. row[t].user \in User
        BY <1>1, <3>3, CommitLemma DEF RowInv, Retired
      <4>2. QED
        BY <1>4, <3>1, <3>3, <4>1 DEF Row
    <3>4. CASE row'[t] = row[t]
      BY <1>1, <3>4 DEF RowInv
    <3>5. QED
      BY <1>5, <3>2, <3>3, <3>4
  <2>2. QED
    BY <2>1 DEF RowInv
<1>8. ws'[p].status = None /\ ws'[p].inserted = {} /\ ws'[p].ended = {}
  BY <1>2, EndTransactionLemma DEF NoWrites
<1>9. ASSUME NEW q \in Proc \ {p}
      PROVE  Untouched(q) /\ Respected(q)
  <2>1. Untouched(q)
    BY <1>2, <1>8, EndTransactionLemma, EndRequestLemma, StillApartLemma DEF Untouched
  <2>2. WriteInv(q)
    BY DEF IInv
  <2>3. ASSUME NEW t \in Token, t \in ws[q].ended \cup ws[q].inserted
        PROVE  t \notin ws[p].ended \cup ws[p].inserted
    <3>1. t \in ws[q].ended => rowLock[t] = q /\ row[t].state # "unused"
      BY <2>2 DEF WriteInv, Retired
    <3>2. t \in ws[q].inserted => row[t].state = "unused" /\ t \notin ws[p].inserted
      BY <2>2, ApartLemma DEF WriteInv
    <3>3. t \in ws[p].ended => rowLock[t] = p /\ row[t].state # "unused"
      <4>1. WriteInv(p)
        BY DEF IInv
      <4>2. QED
        BY <4>1 DEF WriteInv, Retired
    <3>4. t \in ws[p].inserted => row[t].state = "unused"
      BY <1>5
    <3>5. QED
      BY <2>3, <3>1, <3>2, <3>3, <3>4
  <2>4. ASSUME NEW t \in Token
        PROVE  /\ row[t].state # "unused" =>
                    /\ row'[t].state \in {"live", "revoked", "deleted"}
                    /\ row'[t].user = row[t].user
               /\ row[t].state = "revoked" => row'[t].state \in {"revoked", "deleted"}
               /\ row[t].state = "deleted" => row'[t].state = "deleted"
               /\ row'[t].state = "live" /\ writer[row'[t].user] = q => row'[t] = row[t]
    <3>1. row[t] \in Row
      BY <1>1 DEF TypeOK, StoreTypeOK
    <3>2. CASE t \in ws[p].inserted
      <4>1. req[p].user \in User /\ writer[req[p].user] = p /\ row[t].state = "unused"
        BY <1>5, <3>2
      <4>2. row'[t] = [state |-> "live", user |-> req[p].user, parent |-> req[p].token]
        BY <1>5, <3>2
      <4>3. QED
        BY <4>1, <4>2
    <3>3. CASE t \in ws[p].ended /\ row'[t] = [row[t] EXCEPT !.state = EndState(p)]
      <4>1. /\ row[t].state \in {"live", "revoked"}
            /\ row[t].state = "revoked" => EndState(p) = "deleted"
        BY <3>3, CommitLemma DEF Retired
      <4>2. row'[t].state = EndState(p) /\ row'[t].user = row[t].user
        BY <3>1, <3>3 DEF Row
      <4>3. QED
        BY <1>4, <4>1, <4>2
    <3>4. CASE row'[t] = row[t]
      BY <3>1, <3>4 DEF Row
    <3>5. QED
      BY <1>5, <3>2, <3>3, <3>4
  <2>5. \A u \in User : writer[u] = q => status'[u] = status[u]
    BY CommitLemma
  <2>6. ASSUME NEW t \in Token, t \in ws[q].ended \cup ws[q].inserted
        PROVE  row'[t] = row[t]
    <3>1. t \notin ws[p].ended /\ t \notin ws[p].inserted
      BY <2>3, <2>6
    <3>2. QED
      BY <1>5, <3>1
  <2>7. Respected(q)
    BY <1>2, <2>4, <2>5, <2>6 DEF Respected
  <2>8. QED
    BY <2>1, <2>7
<1>10. QED
  BY <1>2, <1>6, <1>7, <1>8, <1>9, EndTransactionLemma, EndRequestLemma, EndLemma
-----------------------------------------------------------------------------
(* The invariant.                                                          *)

LEMMA InitLemma == Init => IInv
<1> SUFFICES ASSUME Init
             PROVE  IInv
  OBVIOUS
<1>1. /\ status \in [User -> Status]
      /\ row = [t \in Token |-> Unused] /\ expired = {}
      /\ pc = [p \in Proc |-> "idle"] /\ req = [p \in Proc |-> NoRequest]
      /\ ws = [p \in Proc |-> NoWrites] /\ todo = [p \in Proc |-> {}]
      /\ attempt = [p \in Proc |-> 1]
      /\ writer = [u \in User |-> None] /\ forUpdate = {}
      /\ share = [u \in User |-> {}] /\ rowLock = [t \in Token |-> None]
  BY DEF Init, StoreInit
<1>2. /\ Unused \in Row /\ NoRequest \in Request /\ NoWrites \in Writes
      /\ "idle" \in PC /\ 1 \in 1..MaxAttempts
  BY AttemptsAssumption DEF Unused, Row, NoRequest, Request, NoWrites, Writes, PC
<1>3. TypeOK
  BY <1>1, <1>2 DEF TypeOK, StoreTypeOK
<1>4. RowInv
  BY <1>1 DEF RowInv, Unused
<1>5. ASSUME NEW p \in Proc
      PROVE  RequestInv(p) /\ LockInv(p) /\ WriteInv(p)
  <2>1. /\ pc[p] = "idle" /\ req[p] = NoRequest /\ todo[p] = {}
        /\ ws[p].status = None /\ ws[p].inserted = {} /\ ws[p].ended = {}
    BY <1>1 DEF NoWrites
  <2>2. QED
    BY <2>1, ProcAssumption DEF RequestInv, LockInv, WriteInv, Revoking, NoRequest, Kind
<1>6. QED
  BY <1>3, <1>4, <1>5 DEF IInv

LEMMA NextLemma == IInv /\ [Next]_vars => IInv'
<1> SUFFICES ASSUME IInv, [Next]_vars
             PROVE  IInv'
  OBVIOUS
<1>1. ASSUME NEW p \in Proc, Start(p)
      PROVE  IInv'
  BY <1>1, StartIssuePreserves, StartRefreshPreserves, StartLogoutPreserves,
     StartSetStatusPreserves, StartRevokeSessionsPreserves, StartCleanupPreserves
     DEF Start
<1>2. ASSUME NEW p \in Proc, Statement(p)
      PROVE  IInv'
  <2>1. CASE ReadNoToken(p) \/ NoActiveUser(p) \/ RotationConflict(p)
    BY <2>1, RollbackPreserves DEF ReadNoToken, NoActiveUser, RotationConflict
  <2>2. QED
    BY <1>2, <2>1, ReadTokenPreserves, LockActiveUserPreserves,
       RevokePresentedPreserves, InsertTokenPreserves, LogoutPreserves,
       UpdateUserStatusPreserves, LockUserForRevocationPreserves,
       BeginRowsPreserves, WriteRowPreserves, SkipRowPreserves, EndRowsPreserves,
       WriteAuditPreserves, CommitPreserves
       DEF Statement
<1>3. ASSUME NEW p \in Proc, BreakDeadlock(p) \/ Fail(p)
      PROVE  IInv'
  BY <1>3, RetryDeadlockPreserves, RollbackPreserves DEF BreakDeadlock, GiveUp, Fail
<1>4. CASE TimePasses
  BY <1>4, TimePassesPreserves
<1>5. CASE UNCHANGED vars
  <2>1. TypeOK' /\ RowInv'
    BY <1>5 DEF IInv, TypeOK, StoreTypeOK, RowInv, vars, locks
  <2>2. ASSUME NEW p \in Proc
        PROVE  Untouched(p) /\ Respected(p)
    <3>1. Untouched(p)
      BY <1>5, ApartLemma DEF Untouched, vars, locks
    <3>2. Respected(p)
      BY <1>5 DEF IInv, TypeOK, StoreTypeOK, Row, Respected, vars
    <3>3. QED
      BY <3>1, <3>2
  <2>3. QED
    BY <2>1, <2>2, OthersLemma DEF IInv
<1>6. QED
  BY <1>1, <1>2, <1>3, <1>4, <1>5 DEF Next

\* Between any two statements, whatever the interleaving, deadlocks and lost
\* connections, every request holds the locks and writes its place implies.
THEOREM InductiveInvariant == Spec => []IInv
  BY InitLemma, NextLemma, PTL DEF Spec

\* Every table keeps its type; a transaction runs at most MaxAttempts times.
THEOREM Typing == Spec => []TypeOK
<1>1. IInv => TypeOK
  BY DEF IInv
<1>2. QED
  BY <1>1, InductiveInvariant, PTL
-----------------------------------------------------------------------------
(* Refinement: each commit is one step of the atomic store.                *)

LEMMA CommitMaps ==
  ASSUME IInv, NEW p \in Proc, Commit(p)
  PROVE  StoreNext
<1>1. TypeOK /\ RowInv /\ RequestInv(p) /\ LockInv(p) /\ WriteInv(p) /\ pc[p] = "commit"
  BY DEF IInv, Commit, At
<1>2. /\ status' = [u \in User |->
                      IF u = req[p].user /\ ws[p].status # None
                      THEN ws[p].status ELSE status[u]]
      /\ row' = [t \in Token |->
                   IF t \in ws[p].inserted
                   THEN [state |-> "live", user |-> req[p].user, parent |-> req[p].token]
                   ELSE Moved(ws[p].ended, EndState(p))[t]]
      /\ UNCHANGED expired
  BY DEF Commit
<1>3. row \in [Token -> Row] /\ status \in [User -> Status]
  BY <1>1 DEF TypeOK, StoreTypeOK
<1>4. ws[p].ended \subseteq Token /\ ws[p].inserted \subseteq Token
  BY <1>1 DEF TypeOK, Writes
<1>5. ASSUME req[p].kind # "setStatus"
      PROVE  status' = status
  BY <1>1, <1>2, <1>3, <1>5 DEF WriteInv
<1>6. ASSUME req[p].kind \notin {"issue", "rotate"}
      PROVE  row' = Moved(ws[p].ended, EndState(p))
  <2>1. ws[p].inserted = {}
    BY <1>1, <1>6 DEF WriteInv
  <2>2. QED
    BY <1>2, <2>1 DEF Moved
<1>7. ASSUME Revoking(p)
      PROVE  ws[p].ended = LiveOf(req[p].user)
  BY <1>1, <1>4, <1>7 DEF WriteInv, Revoking, LiveOf
<1>8. ASSUME req[p].kind \in {"issue", "rotate"}
      PROVE  \E n \in Token :
               /\ row[n].state = "unused"
               /\ row' = [Moved(ws[p].ended, "revoked") EXCEPT ![n] =
                            [state |-> "live", user |-> req[p].user,
                             parent |-> req[p].token]]
               /\ req[p].user \in User /\ status[req[p].user] = "ACTIVE"
  <2>1. PICK n \in Token : ws[p].inserted = {n} /\ row[n].state = "unused"
    BY <1>1, <1>4, <1>8 DEF WriteInv
  <2>2. EndState(p) = "revoked"
    BY <1>8 DEF EndState
  <2>3. row' = [Moved(ws[p].ended, "revoked") EXCEPT ![n] =
                  [state |-> "live", user |-> req[p].user, parent |-> req[p].token]]
    BY <1>2, <2>1, <2>2 DEF Moved
  <2>4. req[p].user \in User /\ status[req[p].user] = "ACTIVE"
    BY <1>1, <1>8, UserLemma DEF LockInv
  <2>5. QED
    BY <2>1, <2>3, <2>4
<1>9. CASE req[p].kind = "issue"
  <2>1. ws[p].ended = {} /\ req[p].token = None
    BY <1>1, <1>9, ProcAssumption DEF WriteInv, RequestInv, NoRequest, Kind
  <2>2. Moved(ws[p].ended, "revoked") = row
    BY <1>3, <2>1 DEF Moved
  <2>3. \E n \in Token : Issue(req[p].user, n)
    BY <1>2, <1>5, <1>8, <1>9, <2>1, <2>2 DEF Issue
  <2>4. QED
    BY <1>8, <1>9, <2>3 DEF StoreNext
<1>10. CASE req[p].kind = "rotate"
  <2>1. ws[p].ended = {req[p].token} /\ req[p].token \in Token
    BY <1>1, <1>4, <1>10 DEF WriteInv
  <2>2. row[req[p].token].state = "live" /\ row[req[p].token].user = req[p].user
    BY <1>1, <1>10, <2>1 DEF WriteInv
  <2>3. \E n \in Token : Rotate(req[p].token, n)
    BY <1>2, <1>5, <1>8, <1>10, <2>1, <2>2 DEF Rotate
  <2>4. QED
    BY <2>1, <2>3 DEF StoreNext
<1>11. CASE req[p].kind = "setStatus"
  <2>1. req[p].user \in User /\ req[p].status \in Status /\ ws[p].status = req[p].status
    BY <1>1, <1>11, ProcAssumption DEF RequestInv, WriteInv, NoRequest, Kind
  <2>2. status' = [status EXCEPT ![req[p].user] = req[p].status]
    BY <1>2, <1>3, <2>1, StoreAssumption
  <2>3. EndState(p) = "revoked" /\ row' = Moved(ws[p].ended, EndState(p))
    BY <1>6, <1>11 DEF EndState
  <2>4. row' = IF req[p].status \in Barred THEN Moved(LiveOf(req[p].user), "revoked")
                                           ELSE row
    <3>1. CASE req[p].status \in Barred
      BY <1>7, <1>11, <2>3, <3>1 DEF Revoking
    <3>2. CASE req[p].status \notin Barred
      <4>1. ws[p].ended = {}
        BY <1>1, <1>11, <3>2 DEF WriteInv, Revoking
      <4>2. QED
        BY <1>3, <2>3, <3>2, <4>1 DEF Moved
    <3>3. QED
      BY <3>1, <3>2
  <2>5. SetStatus(req[p].user, req[p].status)
    BY <1>2, <2>2, <2>4 DEF SetStatus
  <2>6. QED
    BY <2>1, <2>5 DEF StoreNext
<1>12. CASE req[p].kind = "revokeSessions"
  <2>1. EndState(p) = "revoked" /\ Revoking(p)
    BY <1>12 DEF EndState, Revoking
  <2>2. RevokeAll(req[p].user)
    BY <1>2, <1>5, <1>6, <1>7, <1>12, <2>1 DEF RevokeAll
  <2>3. req[p].user \in User
    BY <1>12, UserLemma
  <2>4. QED
    BY <2>2, <2>3 DEF StoreNext
<1>13. CASE req[p].kind = "cleanup"
  <2>1. EndState(p) = "deleted" /\ ws[p].ended \subseteq Retired
    BY <1>1, <1>13 DEF EndState, WriteInv
  <2>2. Purge(ws[p].ended)
    BY <1>2, <1>5, <1>6, <1>13, <2>1 DEF Purge
  <2>3. QED
    BY <1>4, <2>2 DEF StoreNext
<1>14. QED
  BY <1>9, <1>10, <1>11, <1>12, <1>13, CommitLemma

LEMMA LogoutMaps ==
  ASSUME IInv, NEW p \in Proc, Logout(p)
  PROVE  [StoreNext]_storeVars
<1>1. req[p].token \in Token
  <2>1. RequestInv(p) /\ req[p].kind = "logout"
    BY LabelLemma DEF IInv, Logout, At
  <2>2. QED
    BY <2>1, ProcAssumption DEF RequestInv, NoRequest, Kind
<1>2. Revoke(req[p].token) \/ UNCHANGED storeVars
  BY DEF Logout, Revoke, storeVars
<1>3. QED
  BY <1>1, <1>2 DEF StoreNext

LEMMA StepMaps == IInv /\ [Next]_vars => [StoreNext]_storeVars
<1> SUFFICES ASSUME IInv, [Next]_vars
             PROVE  [StoreNext]_storeVars
  OBVIOUS
<1>1. ASSUME NEW p \in Proc, Start(p)
      PROVE  UNCHANGED storeVars
  BY <1>1 DEF Start, StartIssue, StartRefresh, StartLogout, StartSetStatus,
              StartRevokeSessions, StartCleanup, Arrive
<1>2. ASSUME NEW p \in Proc, Statement(p)
      PROVE  [StoreNext]_storeVars
  <2>1. CASE Commit(p)
    BY <2>1, CommitMaps
  <2>2. CASE Logout(p)
    BY <2>2, LogoutMaps
  <2>3. CASE ~Commit(p) /\ ~Logout(p)
    <3>1. UNCHANGED storeVars
      BY <1>2, <2>3
         DEF Statement, ReadToken, ReadNoToken, LockActiveUser, NoActiveUser,
             RevokePresented, RotationConflict, InsertToken, UpdateUserStatus,
             LockUserForRevocation, BeginRows, WriteRow, SkipRow, EndRows,
             WriteAudit, Rollback
    <3>2. QED
      BY <3>1
  <2>4. QED
    BY <2>1, <2>2, <2>3
<1>3. ASSUME NEW p \in Proc, BreakDeadlock(p) \/ Fail(p)
      PROVE  UNCHANGED storeVars
  BY <1>3 DEF BreakDeadlock, RetryDeadlock, GiveUp, Fail, Rollback
<1>4. CASE TimePasses
  BY <1>4 DEF TimePasses, StoreNext
<1>5. CASE UNCHANGED vars
  BY <1>5 DEF vars, storeVars
<1>6. QED
  BY <1>1, <1>2, <1>3, <1>4, <1>5 DEF Next

\* The statements of concurrent requests, under row locks, re-checks, retries
\* and lost connections, amount to requests that take effect one at a time.
THEOREM Refinement == Spec => ImplementsStore
<1>1. Init => StoreInit
  BY DEF Init
<1>2. QED
  BY <1>1, StepMaps, InductiveInvariant, PTL DEF Spec, StoreSpec, ImplementsStore

\* No interleaving of a sign-in or refresh with a suspension or deletion leaves
\* the barred user a live session.
THEOREM BarredUsers == Spec => []BarredUserHasNoLiveSession
  BY Refinement, BarredTheorem, PTL DEF ImplementsStore

\* Of any number of concurrent refreshes of one token, one succeeds.
THEOREM OneSuccessor == Spec => []OneSuccessorPerToken
  BY Refinement, OneSuccessorTheorem, PTL DEF ImplementsStore

\* A revoked or deleted session never comes back.
THEOREM DeadSessions == Spec => DeadSessionsStayDead
  BY Refinement, DeadSessionsTheorem, PTL DEF ImplementsStore

\* When a revocation of all sessions commits, none of that user's is left live:
\* the user lock kept new ones out since before the snapshot.
THEOREM RevokeAllTheorem == Spec => RevokeAllLeavesNothingLive
<1> DEFINE A == \A p \in Proc :
                  Commit(p) /\ Revoking(p) =>
                    \A t \in Token : row'[t].state = "live" => row'[t].user # req[p].user
<1>1. IInv /\ [Next]_vars => [A]_vars
  <2> SUFFICES ASSUME IInv, NEW p \in Proc, Commit(p), Revoking(p), NEW t \in Token,
                      row'[t].state = "live", row'[t].user = req[p].user
               PROVE  FALSE
    OBVIOUS
  <2>1. WriteInv(p) /\ pc[p] = "commit" /\ row[t] \in Row
    BY DEF IInv, Commit, At, TypeOK, StoreTypeOK
  <2>2. t \notin ws[p].inserted
    BY <2>1 DEF WriteInv, Revoking
  <2>3. CASE t \in ws[p].ended
    BY <2>1, <2>2, <2>3 DEF Commit, Moved, EndState, Row
  <2>4. CASE row'[t] = row[t]
    BY <2>1, <2>3, <2>4 DEF WriteInv, LiveOf
  <2>5. QED
    BY <2>2, <2>3, <2>4, CommitLemma
<1>2. QED
  BY <1>1, InductiveInvariant, PTL DEF Spec, RevokeAllLeavesNothingLive
-----------------------------------------------------------------------------
(* Deadlocks: who can wait for whom.                                       *)

Acts(p) == Start(p) \/ Statement(p) \/ BreakDeadlock(p) \/ Fail(p)

\* The end of a transaction, seen from the tables of locks.
LEMMA LocksGoLemma ==
  ASSUME IInv, NEW p \in Proc, EndTransaction(p)
  PROVE  /\ \A u \in User : /\ writer'[u] \in {writer[u], None} /\ writer'[u] # p
                            /\ share'[u] = share[u] \ {p}
         /\ \A t \in Token : rowLock'[t] \in {rowLock[t], None} /\ rowLock'[t] # p
         /\ ws'[p].ended = {} /\ todo'[p] = {}
         /\ \A q \in Proc \ {p} : ws'[q] = ws[q] /\ todo'[q] = todo[q]
<1>1. TypeOK
  BY DEF IInv
<1>2. ws'[p].ended = {}
  BY EndTransactionLemma DEF NoWrites
<1>3. QED
  BY <1>1, <1>2, EndTransactionLemma, ProcAssumption DEF EndTransaction, TypeOK

\* The ways in which a step of p ends its transaction.
Ends(p) == EndTransaction(p) /\ (EndRequest(p) \/ (req' = req /\ RetryDeadlock(p)))

LEMMA ShapeLemma ==
  ASSUME NEW p \in Proc, Acts(p)
  PROVE  \/ Ends(p)
         \/ Logout(p)
         \/ \E r \in Request : Arrive(p, r) /\ (r.fresh => r.token \notin expired)
         \/ ReadToken(p) \/ LockActiveUser(p) \/ RevokePresented(p) \/ InsertToken(p)
         \/ UpdateUserStatus(p) \/ LockUserForRevocation(p) \/ BeginRows(p)
         \/ WriteRow(p) \/ SkipRow(p) \/ EndRows(p) \/ WriteAudit(p)
<1> DEFINE Arrives == \E r \in Request : Arrive(p, r) /\ (r.fresh => r.token \notin expired)
<1>1. CASE StartIssue(p)
  <2>1. PICK u \in User : Arrive(p, [NoRequest EXCEPT !.kind = "issue", !.user = u])
    BY <1>1 DEF StartIssue
  <2>2. [NoRequest EXCEPT !.kind = "issue", !.user = u] \in Request
    BY DEF NoRequest, Kind, Request
  <2>3. Arrives
    BY <2>1, <2>2 DEF NoRequest
  <2>4. QED
    BY <2>3
<1>2. CASE StartRefresh(p)
  <2>1. PICK t \in Token : Arrive(p, [NoRequest EXCEPT !.kind = "rotate", !.token = t,
                                                      !.fresh = t \notin expired])
    BY <1>2 DEF StartRefresh
  <2>2. [NoRequest EXCEPT !.kind = "rotate", !.token = t, !.fresh = t \notin expired] \in Request
    BY DEF NoRequest, Kind, Request
  <2>3. Arrives
    BY <2>1, <2>2 DEF NoRequest
  <2>4. QED
    BY <2>3
<1>3. CASE StartLogout(p)
  <2>1. PICK t \in Token : Arrive(p, [NoRequest EXCEPT !.kind = "logout", !.token = t])
    BY <1>3 DEF StartLogout
  <2>2. [NoRequest EXCEPT !.kind = "logout", !.token = t] \in Request
    BY DEF NoRequest, Kind, Request
  <2>3. Arrives
    BY <2>1, <2>2 DEF NoRequest
  <2>4. QED
    BY <2>3
<1>4. CASE StartSetStatus(p)
  <2>1. PICK actor \in Admin, u \in User, s \in Statuses :
          Arrive(p, [NoRequest EXCEPT !.kind = "setStatus", !.actor = actor,
                                      !.user = u, !.status = s])
    BY <1>4 DEF StartSetStatus
  <2>2. [NoRequest EXCEPT !.kind = "setStatus", !.actor = actor, !.user = u, !.status = s] \in Request
    BY AdminAssumption, BoundAssumption DEF NoRequest, Kind, Request
  <2>3. Arrives
    BY <2>1, <2>2 DEF NoRequest
  <2>4. QED
    BY <2>3
<1>5. CASE StartRevokeSessions(p)
  <2>1. PICK actor \in Admin, u \in User :
          Arrive(p, [NoRequest EXCEPT !.kind = "revokeSessions", !.actor = actor, !.user = u])
    BY <1>5 DEF StartRevokeSessions
  <2>2. [NoRequest EXCEPT !.kind = "revokeSessions", !.actor = actor, !.user = u] \in Request
    BY AdminAssumption DEF NoRequest, Kind, Request
  <2>3. Arrives
    BY <2>1, <2>2 DEF NoRequest
  <2>4. QED
    BY <2>3
<1>6. CASE StartCleanup(p)
  <2>1. Arrive(p, [NoRequest EXCEPT !.kind = "cleanup"])
    BY <1>6 DEF StartCleanup
  <2>2. [NoRequest EXCEPT !.kind = "cleanup"] \in Request
    BY DEF NoRequest, Kind, Request
  <2>3. Arrives
    BY <2>1, <2>2 DEF NoRequest
  <2>4. QED
    BY <2>3
<1>7. CASE Rollback(p) \/ Commit(p) \/ RetryDeadlock(p)
  BY <1>7 DEF Rollback, Commit, RetryDeadlock, Ends
<1> HIDE DEF Arrives
<1>8. QED
  BY <1>1, <1>2, <1>3, <1>4, <1>5, <1>6, <1>7
  DEF Acts, Start, Statement, BreakDeadlock, GiveUp, Fail, ReadNoToken, NoActiveUser,
      RotationConflict, Arrives

\* A step of p takes locks for p only, and writes no other request's part.
LEMMA OwnLocksLemma ==
  ASSUME IInv, NEW p \in Proc, Acts(p)
  PROVE  /\ \A u \in User : /\ writer'[u] \in {writer[u], p, None}
                            /\ share'[u] \subseteq share[u] \cup {p}
         /\ \A t \in Token : rowLock'[t] \in {rowLock[t], p, None}
         /\ \A q \in Proc \ {p} : /\ pc'[q] = pc[q] /\ req'[q] = req[q]
                                  /\ ws'[q] = ws[q] /\ todo'[q] = todo[q]
<1> USE DEF TypeOK
<1>1. TypeOK
  BY DEF IInv
<1>2. CASE Ends(p)
  <2>1. \A q \in Proc \ {p} : pc'[q] = pc[q] /\ req'[q] = req[q]
    BY <1>1, <1>2, EndRequestLemma DEF Ends, RetryDeadlock, Goto
  <2>2. QED
    BY <1>2, <2>1, LocksGoLemma DEF Ends
<1>3. CASE Logout(p)
  BY <1>1, <1>3, EndRequestLemma DEF Logout, locks
<1>4. CASE \E r : Arrive(p, r)
  BY <1>1, <1>4 DEF Arrive, Goto, locks
<1>5. CASE ReadToken(p) \/ InsertToken(p) \/ BeginRows(p) \/ SkipRow(p) \/ EndRows(p)
  BY <1>1, <1>5 DEF ReadToken, InsertToken, BeginRows, SkipRow, EndRows, Goto, locks
<1>6. CASE LockActiveUser(p) \/ LockUserForRevocation(p)
  BY <1>1, <1>6 DEF LockActiveUser, LockUserForRevocation, TakeForUpdate, Goto
<1>7. CASE RevokePresented(p) \/ UpdateUserStatus(p) \/ WriteRow(p) \/ WriteAudit(p)
  BY <1>1, <1>7 DEF RevokePresented, UpdateUserStatus, WriteRow, WriteAudit, Goto
<1>8. QED
  BY <1>2, <1>3, <1>4, <1>5, <1>6, <1>7, ShapeLemma

\* A request that is back before its first lock, or has not left it, holds nothing.
LEMMA HoldsNothingLemma ==
  ASSUME IInv, NEW p \in Proc, HoldsNothing(p), Acts(p)
  PROVE  HoldsNothing(p)'
<1> USE DEF TypeOK
<1>1. TypeOK
  BY DEF IInv
<1>2. CASE Ends(p)
  BY <1>2, LocksGoLemma DEF Ends, HoldsNothing
<1>3. CASE Logout(p)
  BY <1>3 DEF Logout, locks, HoldsNothing, At
<1>4. CASE \E r : Arrive(p, r)
  BY <1>4 DEF Arrive, locks, HoldsNothing, At
<1>5. CASE ReadToken(p)
  BY <1>5 DEF ReadToken, locks, HoldsNothing, At
<1>6. ASSUME NEW l \in PC \ {"idle", "read", "lockActive", "logout"}, pc'[p] = l
      PROVE  HoldsNothing(p)'
  BY <1>6 DEF HoldsNothing
<1>7. CASE \/ LockActiveUser(p) \/ RevokePresented(p) \/ InsertToken(p) \/ UpdateUserStatus(p)
           \/ LockUserForRevocation(p) \/ BeginRows(p) \/ EndRows(p) \/ WriteAudit(p)
  <2>1. pc'[p] \in PC \ {"idle", "read", "lockActive", "logout"}
    BY <1>1, <1>7 DEF LockActiveUser, RevokePresented, InsertToken, UpdateUserStatus,
       LockUserForRevocation, BeginRows, EndRows, WriteAudit, Goto, PC
  <2>2. QED
    BY <1>6, <2>1
<1>8. CASE WriteRow(p) \/ SkipRow(p)
  <2>1. pc'[p] = "rows"
    BY <1>8 DEF WriteRow, SkipRow, At
  <2>2. QED
    BY <2>1 DEF HoldsNothing
<1>9. QED
  BY <1>2, <1>3, <1>4, <1>5, <1>7, <1>8, ShapeLemma

\* Every row p has locked it is ending.
LEMMA OwnRowsLemma ==
  ASSUME IInv, LocksEndRows, NEW p \in Proc, Acts(p),
         NEW t \in Token, rowLock'[t] = p
  PROVE  t \in ws'[p].ended
<1> USE DEF TypeOK
<1>1. TypeOK /\ WriteInv(p) /\ p # None
  BY ProcAssumption DEF IInv
<1>2. rowLock[t] = p => t \in ws[p].ended
  BY <1>1 DEF LocksEndRows
<1>3. ASSUME rowLock' = rowLock, ws'[p].ended = ws[p].ended PROVE t \in ws'[p].ended
  BY <1>2, <1>3
<1>4. CASE Ends(p)
  BY <1>4, LocksGoLemma DEF Ends
<1>5. CASE Logout(p) \/ \E r : Arrive(p, r)
  BY <1>3, <1>5 DEF Logout, Arrive, locks
<1>6. CASE ReadToken(p) \/ BeginRows(p) \/ SkipRow(p) \/ EndRows(p)
  BY <1>3, <1>6 DEF ReadToken, BeginRows, SkipRow, EndRows, locks
<1>7. CASE LockActiveUser(p) \/ LockUserForRevocation(p) \/ WriteAudit(p)
  BY <1>3, <1>7 DEF LockActiveUser, LockUserForRevocation, TakeForUpdate, WriteAudit
<1>8. CASE InsertToken(p) \/ UpdateUserStatus(p)
  <2>1. rowLock' = rowLock
    BY <1>8 DEF InsertToken, UpdateUserStatus, locks
  <2>2. ws'[p].ended = ws[p].ended
    BY <1>1, <1>8 DEF InsertToken, UpdateUserStatus, Writes
  <2>3. QED
    BY <1>3, <2>1, <2>2
<1>9. CASE RevokePresented(p)
  <2>1. pc[p] = "revoke" /\ req[p].kind = "rotate"
    BY <1>9, LabelLemma DEF RevokePresented, At
  <2>2. ws[p].ended = {}
    BY <1>1, <2>1 DEF WriteInv
  <2>3. rowLock' = [rowLock EXCEPT ![req[p].token] = p] /\ ws'[p].ended = {req[p].token}
    BY <1>1, <1>9 DEF RevokePresented, Writes
  <2>4. QED
    BY <1>1, <1>2, <2>2, <2>3
<1>10. CASE WriteRow(p)
  <2>1. PICK x \in todo[p] : /\ rowLock' = [rowLock EXCEPT ![x] = p]
                             /\ ws' = [ws EXCEPT ![p].ended = @ \cup {x}]
    BY <1>10 DEF WriteRow
  <2>2. ws'[p].ended = ws[p].ended \cup {x}
    BY <1>1, <2>1 DEF Writes
  <2>3. QED
    BY <1>1, <1>2, <2>1, <2>2
<1>11. QED
  BY <1>4, <1>5, <1>6, <1>7, <1>8, <1>9, <1>10, ShapeLemma

\* A row that is live now, and was inserted before, was live before.
LEMMA NoRevivalLemma ==
  ASSUME IInv, NEW p \in Proc, Acts(p),
         NEW t \in Token, row'[t].state = "live", row[t].state # "unused"
  PROVE  row[t].state = "live"
<1>1. row \in [Token -> Row]
  BY DEF IInv, TypeOK, StoreTypeOK
<1>2. CASE Commit(p)
  <2>1. row[t] \in Row /\ EndState(p) \in {"deleted", "revoked"}
    BY <1>1 DEF EndState
  <2>2. CASE row'[t] = [row[t] EXCEPT !.state = EndState(p)]
    BY <2>1, <2>2 DEF Row
  <2>3. CASE row'[t] = row[t]
    BY <2>3
  <2>4. QED
    BY <1>2, <2>2, <2>3, CommitLemma
<1>3. CASE Logout(p)
  BY <1>1, <1>3 DEF Logout, Moved, Row
<1>4. CASE ~Commit(p) /\ ~Logout(p)
  <2>1. row' = row
    BY <1>4 DEF Acts, Start, StartIssue, StartRefresh, StartLogout, StartSetStatus,
       StartRevokeSessions, StartCleanup, Arrive, Statement, ReadToken, ReadNoToken,
       LockActiveUser, NoActiveUser, RevokePresented, RotationConflict, InsertToken,
       UpdateUserStatus, LockUserForRevocation, BeginRows, WriteRow, SkipRow, EndRows,
       WriteAudit, BreakDeadlock, RetryDeadlock, GiveUp, Fail, Rollback, storeVars
  <2>2. QED
    BY <2>1
<1>5. QED
  BY <1>2, <1>3, <1>4

\* What the retention job p has before it, after a step of its own: nothing new,
\* but at its snapshot, where it passes over the rows in use.
LEMMA CleanupRowsLemma ==
  ASSUME IInv, NEW p \in Proc, Acts(p), req'[p].kind = "cleanup",
         NEW t \in todo'[p] \cup ws'[p].ended
  PROVE  \/ req[p].kind = "cleanup" /\ t \in todo[p] \cup ws[p].ended
         \/ BeginRows(p) /\ t \in Retired /\ ~InUse(t)
<1> USE DEF TypeOK
<1>1. TypeOK /\ WriteInv(p)
  BY DEF IInv
<1>2. CASE Ends(p)
  BY <1>2, LocksGoLemma DEF Ends
<1>3. CASE Logout(p)
  BY <1>3, EndRequestLemma, ProcAssumption DEF Logout, NoRequest, Kind
<1>4. CASE \E r : Arrive(p, r)
  <2>1. pc[p] = "idle" /\ ws'[p] = ws[p] /\ todo'[p] = todo[p] /\ req[p] = NoRequest
    BY <1>4, LabelLemma DEF Arrive, At
  <2>2. ws[p].ended = {} /\ todo[p] = {}
    BY <1>1, <2>1, ProcAssumption DEF WriteInv, NoRequest, Kind
  <2>3. QED
    BY <2>1, <2>2
<1>5. CASE ReadToken(p) \/ LockActiveUser(p) \/ RevokePresented(p) \/ InsertToken(p)
  <2>1. req[p].kind \in {"issue", "rotate"} /\ req'[p].kind = req[p].kind
    BY <1>1, <1>5, LabelLemma DEF ReadToken, LockActiveUser, RevokePresented, InsertToken,
       At, Request
  <2>2. QED
    BY <2>1
<1>6. CASE UpdateUserStatus(p) \/ LockUserForRevocation(p) \/ WriteAudit(p)
  <2>1. req[p].kind \in {"setStatus", "revokeSessions"} /\ req' = req
    BY <1>6, LabelLemma DEF UpdateUserStatus, LockUserForRevocation, WriteAudit, At
  <2>2. QED
    BY <2>1
<1>7. CASE BeginRows(p)
  <2>1. req' = req /\ ws' = ws /\ pc[p] = "snapshot" /\ req[p].kind = "cleanup"
    BY <1>7 DEF BeginRows, At
  <2>2. PICK S \in SUBSET {x \in Retired : ~InUse(x)} : todo' = [todo EXCEPT ![p] = S]
    BY <1>7, <2>1 DEF BeginRows
  <2>3. todo'[p] = S
    BY <1>1, <2>2
  <2>4. QED
    BY <1>7, <2>1, <2>3
<1>8. CASE WriteRow(p)
  <2>1. req' = req
    BY <1>8 DEF WriteRow
  <2>2. PICK x \in todo[p] : /\ ws' = [ws EXCEPT ![p].ended = @ \cup {x}]
                             /\ todo' = [todo EXCEPT ![p] = @ \ {x}]
    BY <1>8 DEF WriteRow
  <2>3. ws'[p].ended = ws[p].ended \cup {x} /\ todo'[p] = todo[p] \ {x}
    BY <1>1, <2>2 DEF Writes
  <2>4. QED
    BY <2>1, <2>3
<1>9. CASE SkipRow(p) \/ EndRows(p)
  <2>1. req' = req /\ ws' = ws
    BY <1>9 DEF SkipRow, EndRows
  <2>2. todo'[p] \subseteq todo[p]
    BY <1>1, <1>9 DEF SkipRow, EndRows
  <2>3. QED
    BY <2>1, <2>2
<1>10. QED
  BY <1>2, <1>3, <1>4, <1>5, <1>6, <1>7, <1>8, <1>9, ShapeLemma

\* A request is fresh from its arrival or not at all.
LEMMA FreshLemma ==
  ASSUME IInv, NEW p \in Proc, Acts(p), req'[p].fresh
  PROVE  \/ req[p].fresh /\ req'[p].token = req[p].token
         \/ req'[p].token \notin expired /\ row' = row
<1>1. TypeOK
  BY DEF IInv
<1>2. CASE Ends(p) \/ Logout(p)
  BY <1>2, EndRequestLemma DEF Ends, Logout, NoRequest
<1>3. CASE \E r \in Request : Arrive(p, r) /\ (r.fresh => r.token \notin expired)
  BY <1>1, <1>3 DEF Arrive, storeVars, TypeOK
<1>4. CASE ReadToken(p)
  BY <1>1, <1>4 DEF ReadToken, TypeOK, Request
<1>5. CASE \/ LockActiveUser(p) \/ RevokePresented(p) \/ InsertToken(p)
           \/ UpdateUserStatus(p) \/ LockUserForRevocation(p) \/ BeginRows(p)
           \/ WriteRow(p) \/ SkipRow(p) \/ EndRows(p) \/ WriteAudit(p)
  BY <1>5 DEF LockActiveUser, RevokePresented, InsertToken, UpdateUserStatus,
     LockUserForRevocation, BeginRows, WriteRow, SkipRow, EndRows, WriteAudit
<1>6. QED
  BY <1>2, <1>3, <1>4, <1>5, ShapeLemma

\* The retention job's cutoff, and an expiry that is never taken back, keep it
\* off the rows that can still be redeemed.
LEMMA SparesFreshLemma ==
  ASSUME IInv, WaitInv, NEW p \in Proc, Acts(p), NEW c \in Proc
  PROVE  SparesFresh(c)'
<1> SUFFICES ASSUME req'[c].kind = "cleanup", NEW t \in todo'[c] \cup ws'[c].ended,
                    NEW q \in Proc, req'[q].fresh, req'[q].token = t,
                    row'[t].state = "live"
             PROVE  FALSE
  BY DEF SparesFresh
<1>1. TypeOK /\ WriteInv(c) /\ SparesFresh(c)
  BY DEF IInv, WaitInv
<1>2. \/ req[c].kind = "cleanup" /\ t \in todo[c] \cup ws[c].ended
      \/ c = p /\ BeginRows(p) /\ t \in Retired /\ ~InUse(t)
  <2>1. CASE c = p
    BY <2>1, CleanupRowsLemma
  <2>2. CASE c # p
    BY <2>2, OwnLocksLemma
  <2>3. QED
    BY <2>1, <2>2
<1>3. t \in Token /\ (t \in Retired \/ row[t].state = "deleted")
  BY <1>1, <1>2 DEF WriteInv, TypeOK, Writes, Retired
<1>4. row[t].state = "live" /\ t \in expired
  <2>1. row[t].state = "live"
    BY <1>3, NoRevivalLemma DEF Retired
  <2>2. QED
    BY <1>3, <2>1 DEF Retired
<1>5. req[q].fresh /\ req[q].token = t
  <2>1. CASE q = p
    BY <1>4, <2>1, FreshLemma
  <2>2. CASE q # p
    BY <2>2, OwnLocksLemma
  <2>3. QED
    BY <2>1, <2>2
<1>6. QED
  BY <1>1, <1>2, <1>4, <1>5 DEF SparesFresh, InUse

LEMMA WaitLemma ==
  ASSUME IInv, WaitInv, [Next]_vars
  PROVE  WaitInv'
<1>1. ASSUME NEW p \in Proc, Acts(p)
      PROVE  WaitInv'
  <2>1. ASSUME NEW q \in Proc
        PROVE  HoldsNothing(q)'
    <3>1. HoldsNothing(q)
      BY DEF WaitInv
    <3>2. CASE q = p
      BY <1>1, <3>1, <3>2, HoldsNothingLemma
    <3>3. CASE q # p
      BY <1>1, <3>1, <3>3, OwnLocksLemma, ProcAssumption DEF HoldsNothing
    <3>4. QED
      BY <3>2, <3>3
  <2>2. ASSUME NEW t \in Token, rowLock'[t] # None
        PROVE  t \in ws'[rowLock'[t]].ended
    <3>1. CASE rowLock'[t] = p
      BY <1>1, <3>1, OwnRowsLemma DEF WaitInv
    <3>2. CASE rowLock'[t] # p
      <4>1. rowLock'[t] = rowLock[t] /\ rowLock[t] \in Proc \ {p}
        BY <1>1, <2>2, <3>2, OwnLocksLemma DEF IInv, TypeOK
      <4>2. t \in ws[rowLock[t]].ended
        BY <2>2, <4>1 DEF WaitInv, LocksEndRows
      <4>3. ws'[rowLock[t]] = ws[rowLock[t]]
        BY <1>1, <4>1, OwnLocksLemma
      <4>4. QED
        BY <4>1, <4>2, <4>3
    <3>3. QED
      BY <3>1, <3>2
  <2>3. \A c \in Proc : SparesFresh(c)'
    BY <1>1, SparesFreshLemma
  <2>4. QED
    BY <2>1, <2>2, <2>3 DEF WaitInv, LocksEndRows
<1>2. CASE TimePasses \/ UNCHANGED vars
  <2>1. UNCHANGED <<row, pc, req, ws, todo, locks>>
    BY <1>2 DEF TimePasses, Expire, vars
  <2>2. QED
    BY <2>1 DEF WaitInv, LocksEndRows, HoldsNothing, SparesFresh, locks
<1>3. QED
  BY <1>1, <1>2 DEF Next, Acts

\* Nobody waits for a request that holds nothing.
LEMMA NobodyWaitsLemma ==
  ASSUME IInv, WaitInv, NEW p \in Proc, pc[p] = "lockActive", NEW q \in Proc
  PROVE  p \notin WaitsFor(q)
<1>1. /\ \A u \in User : writer[u] # p /\ p \notin share[u]
      /\ \A t \in Token : rowLock[t] # p
  BY DEF WaitInv, HoldsNothing
<1>2. CASE pc[q] \in {"update", "lockAny", "lockActive"}
  <2>1. req[q].user \in User
    BY <1>2, LabelLemma, UserLemma
  <2>2. QED
    BY <1>1, <1>2, <2>1 DEF WaitsFor, At
<1>3. CASE pc[q] = "audit"
  <2>1. req[q].actor \in User
    BY <1>3, LabelLemma DEF IInv, RequestInv
  <2>2. QED
    BY <1>1, <1>3, <2>1 DEF WaitsFor, At
<1>4. CASE pc[q] = "revoke"
  <2>1. req[q].token \in Token
    BY <1>4, LabelLemma DEF IInv, RequestInv
  <2>2. QED
    BY <1>1, <1>4, <2>1 DEF WaitsFor, At
<1>5. CASE pc[q] = "rows"
  <2>1. todo[q] \subseteq Token
    BY DEF IInv, TypeOK
  <2>2. QED
    BY <1>1, <1>5, <2>1 DEF WaitsFor, At
<1>6. QED
  BY <1>2, <1>3, <1>4, <1>5 DEF WaitsFor, At

\* rotate's conditional revoke waits for nobody: whoever could have written the
\* presented row holds the user's lock, which is rotate's, or is the retention
\* job, which spares it.
LEMMA RevokeRunsLemma ==
  ASSUME IInv, WaitInv, NEW p \in Proc, pc[p] = "revoke"
  PROVE  WaitsFor(p) = {}
<1> SUFFICES ASSUME NEW q \in Proc \ {p}, Redeemable(p), rowLock[req[p].token] = q
             PROVE  FALSE
  BY DEF WaitsFor, At
<1> DEFINE t == req[p].token
<1>1. /\ RequestInv(p) /\ LockInv(p) /\ LockInv(q) /\ WriteInv(q)
      /\ req[p].kind = "rotate" /\ q # None
  BY LabelLemma, ProcAssumption DEF IInv
<1>2. /\ t \in Token /\ req[p].user = row[t].user
      /\ row[t].state = "live" /\ req[p].fresh /\ writer[req[p].user] = p
  BY <1>1 DEF RequestInv, LockInv, Redeemable
<1>3. t \in ws[q].ended
  BY <1>1, <1>2 DEF WaitInv, LocksEndRows
<1>4. CASE req[q].kind = "cleanup"
  BY <1>2, <1>3, <1>4 DEF WaitInv, SparesFresh
<1>5. CASE req[q].kind # "cleanup"
  <2>1. req[q].user = req[p].user
    BY <1>1, <1>2, <1>3, <1>5 DEF WriteInv
  <2>2. /\ req[q].kind # "issue"
        /\ req[q].kind = "rotate" => pc[q] \in {"insert", "commit"}
        /\ req[q].kind # "rotate" => pc[q] \in {"rows", "audit", "commit"}
    BY <1>1, <1>3 DEF WriteInv
  <2>3. req[q].kind \in {"rotate", "setStatus", "revokeSessions"}
    BY <1>5, <2>2, LabelLemma DEF Kind
  <2>4. writer[req[q].user] = q
    BY <1>1, <2>2, <2>3 DEF LockInv
  <2>5. QED
    BY <1>2, <2>1, <2>4
<1>6. QED
  BY <1>4, <1>5

\* Sign-in, refresh and sign-out are never on a cycle of waits, so PostgreSQL
\* never picks one of them as the victim of a deadlock.
THEOREM NeverDeadlockTheorem == Spec => []SessionRequestsNeverDeadlock
<1>1. Init => WaitInv
  <2> SUFFICES ASSUME Init PROVE WaitInv
    OBVIOUS
  <2>1. /\ \A u \in User : writer[u] = None /\ share[u] = {}
        /\ \A t \in Token : rowLock[t] = None
        /\ \A p \in Proc : req[p].kind = None
    BY DEF Init, NoRequest
  <2>2. None \notin Proc /\ None # "cleanup"
    BY ProcAssumption DEF Kind
  <2>3. QED
    BY <2>1, <2>2 DEF WaitInv, LocksEndRows, HoldsNothing, SparesFresh
<1>2. IInv /\ WaitInv /\ [Next]_vars => WaitInv'
  BY WaitLemma
<1>3. IInv /\ WaitInv => SessionRequestsNeverDeadlock
  <2> SUFFICES ASSUME IInv, WaitInv, NEW p \in Proc,
                      req[p].kind \in {"issue", "rotate", "logout"}, Deadlocked(p)
               PROVE  FALSE
    BY DEF SessionRequestsNeverDeadlock
  <2>1. PICK S \in SUBSET Proc : /\ p \in S /\ Stuck(S)
                                 /\ \A T \in SUBSET S : Stuck(T) => T = S
    BY DEF Deadlocked
  <2>2. WaitsFor(p) # {}
    BY <2>1 DEF Stuck
  <2>3. pc[p] \in {"lockActive", "revoke"}
    <3>1. RequestInv(p)
      BY DEF IInv
    <3>2. pc[p] \in {"read", "lockActive", "revoke", "insert", "commit", "logout"}
      BY <3>1, ProcAssumption DEF RequestInv, NoRequest, Kind
    <3>3. QED
      BY <2>2, <3>2 DEF WaitsFor, At
  <2>4. pc[p] = "lockActive"
    BY <2>2, <2>3, RevokeRunsLemma
  <2>5. Stuck(S \ {p})
    <3>1. \A q \in S : p \notin WaitsFor(q)
      BY <2>1, <2>4, NobodyWaitsLemma
    <3>2. \A q \in S : WaitsFor(q) \cap (S \ {p}) # {}
      BY <2>1, <3>1 DEF Stuck
    <3>3. S \ {p} # {}
      BY <2>1, <3>2
    <3>4. QED
      BY <3>2, <3>3 DEF Stuck
  <2>6. QED
    BY <2>1, <2>5
<1>4. QED
  BY <1>1, <1>2, <1>3, InductiveInvariant, PTL DEF Spec
=============================================================================
