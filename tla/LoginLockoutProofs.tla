------------------------- MODULE LoginLockoutProofs -------------------------
(***************************************************************************)
(* Proofs about LoginLockout: IInv is an inductive invariant, so the lock  *)
(* follows the counter, no failure is lost and a reset token is used once; *)
(* and no step touches an account whose lock is in force, unless it began  *)
(* before that lock or is a password reset.  RaceInv bounds what requests  *)
(* that read an account before its lock can still count.                   *)
(*                                                                         *)
(* A step of process p preserves IInv in two halves: what it does to p and *)
(* to the committed rows, and that it leaves every other process's part    *)
(* alone (OthersLemma), which is where the row locks are used.             *)
(***************************************************************************)
EXTENDS LoginLockout, FiniteSetTheorems, TLAPS

\* What a step of another process may do around q: what q holds stays as it is,
\* a token keeps the user it was mailed to, and time goes forward.
Undisturbed(q) ==
  /\ pc'[q] = pc[q]
  /\ req'[q] = req[q]
  /\ draft'[q] = draft[q]
  /\ clock' >= clock
  /\ \A u \in User : credLock[u] = q => credLock'[u] = q /\ cred'[u] = cred[u]
  /\ \A r \in ResetToken :
       /\ resetLock[r] = q => resetLock'[r] = q /\ reset'[r].used = reset[r].used
       /\ reset[r].user # None => reset'[r].user = reset[r].user

\* What a process that is not disturbed knows and holds stays true.
LEMMA OthersLemma ==
  ASSUME IInv, clock' \in Nat, NEW q \in Proc, Undisturbed(q)
  PROVE  RequestInv(q)' /\ TransactionInv(q)'
<1> DEFINE r == req[q]
<1>1. RequestInv(q) /\ TransactionInv(q) /\ r \in Request /\ clock \in Nat
  BY DEF IInv, TypeOK
<1>2. RequestInv(q)'
  <2>1. ~Locked(q) /\ r.seen \in Seen => ~Locked(q)'
    BY <1>1 DEF Locked, Undisturbed, Seen
  <2>2. r.token \in ResetToken /\ reset[r.token].user # None =>
          reset'[r.token].user = reset[r.token].user
    BY DEF Undisturbed
  <2>3. r.token # None => r.token \in ResetToken
    BY <1>1 DEF Request
  <2>4. QED
    BY <1>1, <2>1, <2>2, <2>3 DEF RequestInv, Undisturbed, At
<1>3. TransactionInv(q)'
  <2>1. /\ pc[q] \in {"threshold", "commit"} => r.user \in User
        /\ At(q, "update") \/ (At(q, "commit") /\ r.token # None) =>
             r.token \in ResetToken
    BY <1>1 DEF RequestInv, At, Request
  <2>2. QED
    BY <1>1, <2>1 DEF TransactionInv, Undisturbed, At, LockedAsCounted
<1>4. QED
  BY <1>2, <1>3

\* A request that has ended has nothing left to know or hold.
LEMMA EndedLemma ==
  ASSUME NEW p \in Proc, pc'[p] = "idle"
  PROVE  RequestInv(p)' /\ TransactionInv(p)'
  BY DEF RequestInv, TransactionInv, At

\* Assignments to one process's part keep the types.
LEMMA TypingLemma ==
  ASSUME TypeOK, NEW p \in Proc
  PROVE  /\ \A l \in PC : Goto(p, l) => pc' \in [Proc -> PC] /\ pc'[p] = l
         /\ \A x \in Request : [req EXCEPT ![p] = x] \in [Proc -> Request]
         /\ End(p) => /\ pc' \in [Proc -> PC] /\ pc'[p] = "idle"
                      /\ req' \in [Proc -> Request]
         /\ Release(p) => /\ draft' \in [Proc -> Credential \cup {None}]
                          /\ credLock' \in [User -> Proc \cup {None}]
                          /\ resetLock' \in [ResetToken -> Proc \cup {None}]
<1>1. NoRequest \in Request
  BY DEF NoRequest, Request
<1>2. "idle" \in PC /\ pc \in [Proc -> PC] /\ req \in [Proc -> Request]
  BY DEF TypeOK, PC
<1>3. \A l \in PC : Goto(p, l) => pc' \in [Proc -> PC] /\ pc'[p] = l
  BY <1>2 DEF Goto
<1>4. \A x \in Request : [req EXCEPT ![p] = x] \in [Proc -> Request]
  BY <1>2
<1>5. ASSUME End(p)
      PROVE  /\ pc' \in [Proc -> PC] /\ pc'[p] = "idle"
             /\ req' \in [Proc -> Request]
  BY <1>1, <1>2, <1>3, <1>4, <1>5 DEF End
<1>6. ASSUME Release(p)
      PROVE  /\ draft' \in [Proc -> Credential \cup {None}]
             /\ credLock' \in [User -> Proc \cup {None}]
             /\ resetLock' \in [ResetToken -> Proc \cup {None}]
  BY <1>6 DEF Release, TypeOK
<1>7. QED
  BY <1>3, <1>4, <1>5, <1>6

\* A transaction that ends, and writes no row but those it holds, disturbs nobody.
LEMMA ReleaseLemma ==
  ASSUME TypeOK, NEW p \in Proc, NEW q \in Proc \ {p}, Release(p),
         pc'[q] = pc[q], req'[q] = req[q], clock' = clock,
         \A u \in User : credLock[u] # p => cred'[u] = cred[u],
         \A r \in ResetToken : resetLock[r] # p => reset'[r] = reset[r],
         \A r \in ResetToken : reset'[r].user = reset[r].user
  PROVE  Undisturbed(q)
  BY DEF TypeOK, Release, Undisturbed

\* A step that commits nothing leaves the committed rows as they were, and has
\* only p's part and the others' to keep.
LEMMA QuietLemma ==
  ASSUME IInv, NEW p \in Proc, UNCHANGED <<credentials, active, tokens, clock>>,
         TypeOK', RequestInv(p)' /\ TransactionInv(p)',
         \A q \in Proc \ {p} : Undisturbed(q)
  PROVE  IInv'
<1>1. LockFollowsCount' /\ EveryFailureCounts' /\ ResetTokenChangesPasswordOnce'
  BY DEF IInv, LockFollowsCount, EveryFailureCounts, ResetTokenChangesPasswordOnce,
         LockedAsCounted, credentials, tokens
<1>2. clock' \in Nat
  BY DEF IInv, TypeOK
<1>3. QED
  BY <1>1, <1>2, OthersLemma DEF IInv

THEOREM InitLemma == Init => IInv
<1> SUFFICES ASSUME Init PROVE IInv
  OBVIOUS
<1>1. NoRequest \in Request
  BY DEF NoRequest, Request
<1>2. TypeOK
  BY <1>1 DEF Init, TypeOK, Credential, PC
<1>3. LockFollowsCount /\ EveryFailureCounts /\ ResetTokenChangesPasswordOnce
  BY ThresholdAssumption DEF Init, LockFollowsCount, EveryFailureCounts,
     ResetTokenChangesPasswordOnce, LockedAsCounted
<1>4. \A p \in Proc : RequestInv(p) /\ TransactionInv(p)
  BY DEF Init, RequestInv, TransactionInv, At
<1>5. QED
  BY <1>2, <1>3, <1>4 DEF IInv

\* A request that ends without committing.
LEMMA AbandonLemma ==
  ASSUME IInv, NEW p \in Proc, End(p),
         UNCHANGED <<credentials, active, tokens, clock>>
  PROVE  IInv'
<1>1. TypeOK' /\ pc'[p] = "idle"
  BY TypingLemma DEF End, IInv, TypeOK, credentials, tokens
<1>2. ASSUME NEW q \in Proc \ {p}
      PROVE  Undisturbed(q)
  <2>1. pc'[q] = pc[q] /\ req'[q] = req[q]
    BY DEF End, Goto, IInv, TypeOK
  <2>2. QED
    BY <2>1, ReleaseLemma DEF End, IInv, credentials, tokens
<1>3. QED
  BY <1>1, <1>2, EndedLemma, QuietLemma

\* A callback run again starts from what its request knew before it opened.
LEMMA RetryLemma ==
  ASSUME IInv, NEW p \in Proc, Retry(p)
  PROVE  IInv'
<1> DEFINE l == FirstStatement(p)
<1>1. /\ UNCHANGED <<credentials, active, tokens, clock, req>>
      /\ l \in {"find", "clear", "count"} /\ l \in PC
  BY DEF Retry, FirstStatement, PC
<1>2. pc'[p] = l /\ TypeOK'
  BY <1>1, TypingLemma DEF Retry, IInv, TypeOK, credentials, tokens
<1>3. ASSUME NEW q \in Proc \ {p}
      PROVE  Undisturbed(q)
  <2>1. pc'[q] = pc[q]
    BY DEF Retry, Goto, IInv, TypeOK
  <2>2. QED
    BY <1>1, <2>1, ReleaseLemma DEF Retry, IInv, credentials, tokens
<1>4. RequestInv(p)'
  <2>1. RequestInv(p) /\ req[p] \in Request /\ ~At(p, "idle")
    BY DEF IInv, TypeOK, Retry, At
  <2>2. CASE req[p].token # None
    <3>1. /\ l = "find" /\ req[p].token \in ResetToken
          /\ reset[req[p].token].user # None
      BY <2>1, <2>2 DEF FirstStatement, RequestInv, Retry, At, PC, IInv, TypeOK, Request
    <3>2. QED
      BY <1>1, <1>2, <2>1, <3>1 DEF RequestInv, At, tokens
  <2>3. CASE req[p].token = None
    <3>1. pc[p] \in {"count", "threshold", "clear", "commit"}
      BY <2>1, <2>3, NoneAssumption DEF RequestInv, Retry, PC, IInv, TypeOK
    <3>2. req[p].user \in User /\ req[p].seen \in Seen /\ ~Locked(p)
      BY <2>1, <2>3, <3>1 DEF RequestInv, At
    <3>3. ~Locked(p)' /\ l \in {"clear", "count"}
      BY <1>1, <2>3, <3>2 DEF Locked, FirstStatement
    <3>4. QED
      BY <1>1, <1>2, <2>1, <2>3, <3>2, <3>3 DEF RequestInv, At
  <2>4. QED
    BY <2>2, <2>3
<1>5. TransactionInv(p)'
  BY <1>1, <1>2 DEF TransactionInv, At
<1>6. QED
  BY <1>1, <1>2, <1>3, <1>4, <1>5, QuietLemma DEF credentials

\* A step that writes nothing but p's place and what p knows.
LEMMA LocalLemma ==
  ASSUME IInv, NEW p \in Proc, NEW l \in PC, NEW x \in Request,
         Goto(p, l), req' = [req EXCEPT ![p] = x],
         UNCHANGED <<credentials, active, tokens, clock, draft, locks>>
  PROVE  /\ pc'[p] = l
         /\ req'[p] = x
         /\ TypeOK'
         /\ \A q \in Proc \ {p} : Undisturbed(q)
<1>1. pc'[p] = l /\ req'[p] = x
  BY DEF IInv, TypeOK, Goto
<1>2. TypeOK'
  BY TypingLemma DEF IInv, TypeOK, credentials, tokens, locks
<1>3. \A q \in Proc \ {p} : Undisturbed(q)
  BY DEF Undisturbed, IInv, TypeOK, Goto, credentials, tokens, locks
<1>4. QED
  BY <1>1, <1>2, <1>3

\* login and confirm: a request comes.
LEMMA ArriveLemma ==
  ASSUME IInv, NEW p \in Proc, StartLogin(p) \/ StartReset(p)
  PROVE  IInv'
<1>1. /\ UNCHANGED <<credentials, active, tokens, clock, draft, locks>>
      /\ \E x \in Request, l \in {"read", "find"} :
           /\ req' = [req EXCEPT ![p] = x] /\ Goto(p, l)
           /\ x.password \in Password
           /\ l = "read" => x.user \in User /\ x.token = None
           /\ l = "find" => x.token \in ResetToken /\ reset[x.token].user # None
  <2>1. CASE StartLogin(p)
    <3>1. PICK u \in User, w \in Password :
            Arrive(p, [NoRequest EXCEPT !.user = u, !.password = w], "read")
      BY <2>1 DEF StartLogin
    <3>2. [NoRequest EXCEPT !.user = u, !.password = w] \in Request
      BY DEF NoRequest, Request
    <3>3. QED
      BY <3>1, <3>2 DEF Arrive, NoRequest
  <2>2. CASE StartReset(p)
    <3>1. PICK r \in ResetToken, w \in Password :
            /\ reset[r].user # None
            /\ Arrive(p, [NoRequest EXCEPT !.token = r, !.password = w,
                                           !.fresh = r \notin lapsed], "find")
      BY <2>2 DEF StartReset
    <3>2. [NoRequest EXCEPT !.token = r, !.password = w,
                            !.fresh = r \notin lapsed] \in Request
      BY DEF NoRequest, Request
    <3>3. QED
      BY <3>1, <3>2 DEF Arrive, NoRequest
  <2>3. QED
    BY <2>1, <2>2
<1>2. PICK x \in Request, l \in {"read", "find"} :
        /\ req' = [req EXCEPT ![p] = x] /\ Goto(p, l)
        /\ x.password \in Password
        /\ l = "read" => x.user \in User /\ x.token = None
        /\ l = "find" => x.token \in ResetToken /\ reset[x.token].user # None
  BY <1>1
<1>3. pc'[p] = l /\ req'[p] = x /\ TypeOK' /\ \A q \in Proc \ {p} : Undisturbed(q)
  <2>1. l \in PC
    BY DEF PC
  <2>2. QED
    BY <2>1, <1>1, <1>2, LocalLemma
<1>4. RequestInv(p)' /\ TransactionInv(p)'
  BY <1>1, <1>2, <1>3 DEF RequestInv, TransactionInv, At, tokens
<1>5. QED
  BY <1>1, <1>3, <1>4, QuietLemma DEF locks

LEMMA ReadCredentialLemma ==
  ASSUME IInv, NEW p \in Proc, ReadCredential(p)
  PROVE  IInv'
<1> DEFINE u == req[p].user
           x == [req[p] EXCEPT !.seen =
                   [password |-> cred[u].password, lockedUntil |-> cred[u].lockedUntil,
                    active |-> u \in active]]
<1>1. /\ req[p] \in Request /\ u \in User
      /\ req[p].token = None /\ req[p].password \in Password
  BY DEF IInv, TypeOK, RequestInv, ReadCredential, At
<1>2. cred[u].password \in Password /\ cred[u].lockedUntil \in Nat \cup {None}
  BY <1>1 DEF IInv, TypeOK, Credential
<1>3. [password |-> cred[u].password, lockedUntil |-> cred[u].lockedUntil,
       active |-> u \in active] \in Seen
  BY <1>2 DEF Seen
<1>4. x \in Request /\ x.user = u /\ x.token = None /\ x.password = req[p].password
      /\ x.seen \in Seen
  BY <1>1, <1>3 DEF Request
<1>5. pc'[p] = "verify" /\ req'[p] = x /\ TypeOK' /\ \A q \in Proc \ {p} : Undisturbed(q)
  <2>1. "verify" \in PC
    BY DEF PC
  <2>2. QED
    BY <2>1, <1>4, LocalLemma DEF ReadCredential
<1>6. RequestInv(p)' /\ TransactionInv(p)'
  BY <1>1, <1>4, <1>5 DEF RequestInv, TransactionInv, At
<1>7. QED
  BY <1>5, <1>6, QuietLemma DEF ReadCredential
\* The stale test of the lock: a failure counts only if the lock that login read
\* was not in force, and the lock that it would set is the one it computes here.
LEMMA VerifyLemma ==
  ASSUME IInv, NEW p \in Proc, Verify(p)
  PROVE  IInv'
<1>1. CASE /\ ~Locked(p)
           /\ req' = [req EXCEPT ![p].until = clock + LockTime]
           /\ Goto(p, IF Verified(p) THEN "clear" ELSE "count")
           /\ UNCHANGED <<draft, locks>>
  <2> DEFINE x == [req[p] EXCEPT !.until = clock + LockTime]
             l == IF Verified(p) THEN "clear" ELSE "count"
  <2>1. /\ req[p] \in Request /\ req[p].user \in User /\ req[p].seen \in Seen
        /\ req[p].token = None /\ req[p].password \in Password
    BY DEF IInv, TypeOK, RequestInv, Verify, At
  <2>2. clock + LockTime \in Nat /\ l \in PC
    BY TimeAssumption DEF IInv, TypeOK, PC
  <2>3. /\ x \in Request /\ x.user = req[p].user /\ x.seen = req[p].seen
        /\ x.token = req[p].token /\ x.password = req[p].password
    BY <2>1, <2>2 DEF Request
  <2>4. req' = [req EXCEPT ![p] = x] /\ Goto(p, l)
    BY <1>1
  <2>5. UNCHANGED <<credentials, active, tokens, clock, draft, locks>>
    BY <1>1 DEF Verify
  <2> HIDE DEF x
  <2>6. pc'[p] = l /\ req'[p] = x /\ TypeOK' /\ \A q \in Proc \ {p} : Undisturbed(q)
    BY <2>2, <2>3, <2>4, <2>5, LocalLemma
  <2>7. ~Locked(p)'
    BY <1>1, <2>3, <2>5, <2>6 DEF Locked
  <2>8. RequestInv(p)' /\ TransactionInv(p)'
    BY <2>1, <2>3, <2>6, <2>7 DEF RequestInv, TransactionInv, At
  <2>9. QED
    BY <2>5, <2>6, <2>8, QuietLemma
<1>2. CASE End(p)
  BY <1>2, AbandonLemma DEF Verify
<1>3. QED
  BY <1>1, <1>2 DEF Verify

\* A write of u's credential row: its lock is p's, and the others keep theirs.
LEMMA WriteLemma ==
  ASSUME IInv, NEW p \in Proc, NEW u \in User, NEW c \in Credential, NEW l \in PC,
         Write(p, u, c), Goto(p, l)
  PROVE  /\ pc'[p] = l
         /\ draft'[p] = c
         /\ credLock'[u] = p
         /\ TypeOK'
         /\ \A q \in Proc \ {p} : Undisturbed(q)
<1>1. pc'[p] = l /\ draft'[p] = c /\ credLock'[u] = p
  BY DEF IInv, TypeOK, Goto, Write
<1>2. TypeOK'
  <2>1. pc' \in [Proc -> PC]
    BY TypingLemma DEF IInv
  <2>2. draft' \in [Proc -> Credential \cup {None}]
    BY DEF IInv, TypeOK, Write
  <2>3. credLock' \in [User -> Proc \cup {None}]
    BY DEF IInv, TypeOK, Write
  <2>4. QED
    BY <2>1, <2>2, <2>3 DEF IInv, TypeOK, Write, credentials, tokens
<1>3. \A q \in Proc \ {p} : Undisturbed(q)
  BY NoneAssumption DEF Undisturbed, IInv, TypeOK, Goto, Write, credentials, tokens
<1>4. QED
  BY <1>1, <1>2, <1>3

\* One atomic UPDATE adds one to the row p now holds.
LEMMA CountFailureLemma ==
  ASSUME IInv, NEW p \in Proc, CountFailure(p)
  PROVE  IInv'
<1> DEFINE u == req[p].user
           c == [cred[u] EXCEPT !.failedLoginCount = @ + 1]
<1>1. /\ u \in User /\ req[p].token = None /\ req[p].password \in Password
      /\ req[p].seen \in Seen /\ ~Locked(p)
  BY DEF IInv, RequestInv, CountFailure, At
<1>2. c \in Credential /\ "threshold" \in PC
  <2>1. cred[u] \in Credential
    BY <1>1 DEF IInv, TypeOK
  <2>2. QED
    BY <2>1 DEF Credential, PC
<1>3. /\ Write(p, u, c) /\ Goto(p, "threshold")
      /\ UNCHANGED <<credentials, active, tokens, clock, req>>
  BY DEF CountFailure, Write
<1> HIDE DEF c
<1>4. /\ pc'[p] = "threshold" /\ draft'[p] = c /\ credLock'[u] = p /\ TypeOK'
      /\ \A q \in Proc \ {p} : Undisturbed(q)
  BY <1>1, <1>2, <1>3, WriteLemma
<1>5. RequestInv(p)' /\ TransactionInv(p)'
  <2>1. ~Locked(p)'
    BY <1>1, <1>3 DEF Locked
  <2>2. RequestInv(p)'
    BY <1>1, <1>3, <1>4, <2>1 DEF RequestInv, At
  <2>3. draft'[p] = [cred'[u] EXCEPT !.failedLoginCount = @ + 1]
    BY <1>3, <1>4 DEF c, credentials
  <2>4. QED
    BY <1>3, <1>4, <2>2, <2>3 DEF TransactionInv, At
<1>6. QED
  BY <1>3, <1>4, <1>5, QuietLemma

\* What the lock of the threshold makes of one more failure.
LEMMA ThresholdLemma ==
  ASSUME IInv, NEW p \in Proc, NEW u \in User, NEW c,
         c = [cred[u] EXCEPT !.failedLoginCount = @ + 1]
  PROVE  LET d == LockIfThreshold(p, c)
         IN /\ d \in Credential
            /\ d.failedLoginCount = cred[u].failedLoginCount + 1
            /\ LockedAsCounted(d)
<1>1. /\ cred[u] \in Credential /\ req[p] \in Request
      /\ LockedAsCounted(cred[u])
  BY DEF IInv, TypeOK, LockFollowsCount
<1>2. c \in Credential /\ c.failedLoginCount = cred[u].failedLoginCount + 1
      /\ c.lockedUntil = cred[u].lockedUntil
  BY <1>1 DEF Credential
<1>3. req[p].until \in Nat /\ req[p].until # None
  BY <1>1, NoneAssumption DEF Request
<1>4. CASE c.failedLoginCount >= Threshold
  <2>1. LockIfThreshold(p, c) = [c EXCEPT !.lockedUntil = req[p].until]
    BY <1>4 DEF LockIfThreshold
  <2>2. QED
    BY <2>1, <1>2, <1>3, <1>4 DEF Credential, LockedAsCounted
<1>5. CASE ~(c.failedLoginCount >= Threshold)
  <2>1. LockIfThreshold(p, c) = c
    BY <1>5 DEF LockIfThreshold
  <2>2. ~(cred[u].failedLoginCount >= Threshold)
    BY <1>1, <1>2, <1>5, ThresholdAssumption DEF Credential
  <2>3. QED
    BY <2>1, <2>2, <1>1, <1>2, <1>5 DEF LockedAsCounted
<1>6. QED
  BY <1>4, <1>5

LEMMA LockAtThresholdLemma ==
  ASSUME IInv, NEW p \in Proc, LockAtThreshold(p)
  PROVE  IInv'
<1> DEFINE u == req[p].user
           d == LockIfThreshold(p, draft[p])
<1>1. /\ u \in User /\ req[p].token = None /\ req[p].password \in Password
      /\ req[p].seen \in Seen /\ ~Locked(p)
      /\ draft[p] = [cred[u] EXCEPT !.failedLoginCount = @ + 1]
  BY DEF IInv, RequestInv, TransactionInv, LockAtThreshold, At
<1>2. /\ d \in Credential
      /\ d.failedLoginCount = cred[u].failedLoginCount + 1
      /\ LockedAsCounted(d)
  BY <1>1, ThresholdLemma
<1>3. /\ Write(p, u, d) /\ Goto(p, "commit") /\ "commit" \in PC
      /\ UNCHANGED <<credentials, active, tokens, clock, req>>
  BY DEF LockAtThreshold, Write, PC
<1> HIDE DEF d
<1>4. /\ pc'[p] = "commit" /\ draft'[p] = d /\ credLock'[u] = p /\ TypeOK'
      /\ \A q \in Proc \ {p} : Undisturbed(q)
  BY <1>1, <1>2, <1>3, WriteLemma
<1>5. RequestInv(p)' /\ TransactionInv(p)'
  <2>1. ~Locked(p)'
    BY <1>1, <1>3 DEF Locked
  <2>2. RequestInv(p)'
    BY <1>1, <1>2, <1>3, <1>4, <2>1 DEF RequestInv, At
  <2>3. LockedAsCounted(draft[p])'
    BY <1>2, <1>4 DEF LockedAsCounted
  <2>4. QED
    BY <1>1, <1>2, <1>3, <1>4, <2>2, <2>3 DEF TransactionInv, At, credentials
<1>6. QED
  BY <1>3, <1>4, <1>5, QuietLemma

LEMMA ClearFailuresLemma ==
  ASSUME IInv, NEW p \in Proc, ClearFailures(p)
  PROVE  IInv'
<1> DEFINE u == req[p].user
           c == [cred[u] EXCEPT !.failedLoginCount = 0, !.lockedUntil = None]
<1>1. /\ u \in User /\ req[p].token = None /\ req[p].password \in Password
      /\ req[p].seen \in Seen /\ ~Locked(p)
  BY DEF IInv, RequestInv, ClearFailures, At
<1>2. c \in Credential /\ c.failedLoginCount = 0 /\ LockedAsCounted(c)
  <2>1. cred[u] \in Credential
    BY <1>1 DEF IInv, TypeOK
  <2>2. c \in Credential /\ c.failedLoginCount = 0 /\ c.lockedUntil = None
    BY <2>1 DEF Credential
  <2>3. QED
    BY <2>2, ThresholdAssumption DEF LockedAsCounted
<1>3. /\ Write(p, u, c) /\ Goto(p, "commit") /\ "commit" \in PC
      /\ UNCHANGED <<credentials, active, tokens, clock, req>>
  BY DEF ClearFailures, Write, PC
<1> HIDE DEF c
<1>4. /\ pc'[p] = "commit" /\ draft'[p] = c /\ credLock'[u] = p /\ TypeOK'
      /\ \A q \in Proc \ {p} : Undisturbed(q)
  BY <1>1, <1>2, <1>3, WriteLemma
<1>5. RequestInv(p)' /\ TransactionInv(p)'
  <2>1. ~Locked(p)'
    BY <1>1, <1>3 DEF Locked
  <2>2. RequestInv(p)'
    BY <1>1, <1>2, <1>3, <1>4, <2>1 DEF RequestInv, At
  <2>3. LockedAsCounted(draft[p])'
    BY <1>2, <1>4 DEF LockedAsCounted
  <2>4. QED
    BY <1>1, <1>2, <1>3, <1>4, <2>2, <2>3 DEF TransactionInv, At
<1>6. QED
  BY <1>3, <1>4, <1>5, QuietLemma
LEMMA FindResetLemma ==
  ASSUME IInv, NEW p \in Proc, FindReset(p)
  PROVE  IInv'
<1> DEFINE t == req[p].token
<1>1. CASE /\ Usable(p)
           /\ req' = [req EXCEPT ![p].user = reset[t].user]
           /\ Goto(p, "consume")
           /\ UNCHANGED <<draft, locks>>
  <2> DEFINE x == [req[p] EXCEPT !.user = reset[t].user]
  <2>1. /\ req[p] \in Request /\ t \in ResetToken /\ req[p].password \in Password
        /\ reset[t].user # None
    BY DEF IInv, TypeOK, RequestInv, FindReset, At
  <2>2. reset[t].user \in User
    BY <2>1 DEF IInv, TypeOK
  <2>3. /\ x \in Request /\ x.user = reset[t].user
        /\ x.token = t /\ x.password = req[p].password
    BY <2>1, <2>2 DEF Request
  <2>4. /\ req' = [req EXCEPT ![p] = x] /\ "consume" \in PC
        /\ UNCHANGED <<credentials, active, tokens, clock, draft, locks>>
    BY <1>1 DEF FindReset, PC
  <2> HIDE DEF x
  <2>5. /\ pc'[p] = "consume" /\ req'[p] = x /\ TypeOK'
        /\ \A q \in Proc \ {p} : Undisturbed(q)
    BY <1>1, <2>3, <2>4, LocalLemma
  <2>6. RequestInv(p)' /\ TransactionInv(p)'
    BY <2>1, <2>2, <2>3, <2>4, <2>5 DEF RequestInv, TransactionInv, At, tokens
  <2>7. QED
    BY <2>4, <2>5, <2>6, QuietLemma
<1>2. CASE End(p)
  BY <1>2, AbandonLemma DEF FindReset
<1>3. QED
  BY <1>1, <1>2 DEF FindReset

\* Of two confirmations of one token the second finds it used, or its lock held.
LEMMA ConsumeResetLemma ==
  ASSUME IInv, NEW p \in Proc, ConsumeReset(p)
  PROVE  IInv'
<1> DEFINE t == req[p].token
<1>1. CASE /\ Usable(p)
           /\ resetLock' = [resetLock EXCEPT ![t] = p]
           /\ Goto(p, "update")
           /\ UNCHANGED <<req, draft, credLock>>
  <2>1. /\ t \in ResetToken /\ req[p].password \in Password
        /\ req[p].user \in User /\ req[p].user = reset[t].user /\ req[p].user # None
        /\ resetLock[t] \in {None, p} /\ ~reset[t].used
    BY <1>1 DEF IInv, TypeOK, RequestInv, ConsumeReset, Usable, At
  <2>2. /\ UNCHANGED <<credentials, active, tokens, clock, req, draft, credLock>>
        /\ "update" \in PC
    BY <1>1 DEF ConsumeReset, PC
  <2>3. pc' \in [Proc -> PC] /\ pc'[p] = "update"
    BY <1>1, <2>2, TypingLemma DEF IInv
  <2>4. TypeOK' /\ resetLock'[t] = p
    BY <1>1, <2>1, <2>2, <2>3 DEF IInv, TypeOK, credentials, tokens
  <2>5. \A q \in Proc \ {p} : Undisturbed(q)
    BY <1>1, <2>1, <2>2, NoneAssumption
       DEF Undisturbed, IInv, TypeOK, Goto, credentials, tokens
  <2>6. RequestInv(p)' /\ TransactionInv(p)'
    BY <2>1, <2>2, <2>3, <2>4 DEF RequestInv, TransactionInv, At, tokens
  <2>7. QED
    BY <2>2, <2>4, <2>5, <2>6, QuietLemma
<1>2. CASE End(p)
  BY <1>2, AbandonLemma DEF ConsumeReset
<1>3. QED
  BY <1>1, <1>2 DEF ConsumeReset

LEMMA UpdateCredentialLemma ==
  ASSUME IInv, NEW p \in Proc, UpdateCredential(p)
  PROVE  IInv'
<1> DEFINE u == req[p].user
           t == req[p].token
           c == [password |-> req[p].password, failedLoginCount |-> 0,
                 lockedUntil |-> None]
<1>1. /\ u \in User /\ t \in ResetToken /\ req[p].password \in Password
      /\ u = reset[t].user /\ u # None
      /\ resetLock[t] = p /\ ~reset[t].used
  <2>1. pc[p] = "update" /\ RequestInv(p) /\ TransactionInv(p) /\ req[p] \in Request
    BY DEF IInv, TypeOK, UpdateCredential, At
  <2>2. QED
    BY <2>1 DEF RequestInv, TransactionInv, At, Request
<1>2. c \in Credential /\ c.failedLoginCount = 0 /\ LockedAsCounted(c)
  BY <1>1, ThresholdAssumption DEF Credential, LockedAsCounted
<1>3. /\ Write(p, u, c) /\ Goto(p, "commit") /\ "commit" \in PC
      /\ UNCHANGED <<credentials, active, tokens, clock, req, resetLock>>
  BY DEF UpdateCredential, Write, PC
<1> HIDE DEF c
<1>4. /\ pc'[p] = "commit" /\ draft'[p] = c /\ credLock'[u] = p /\ TypeOK'
      /\ \A q \in Proc \ {p} : Undisturbed(q)
  BY <1>1, <1>2, <1>3, WriteLemma
<1>5. RequestInv(p)' /\ TransactionInv(p)'
  <2>1. t # None
    BY <1>1, NoneAssumption
  <2>2. RequestInv(p)'
    BY <1>1, <1>2, <1>3, <1>4, <2>1 DEF RequestInv, At, tokens
  <2>3. LockedAsCounted(draft[p])'
    BY <1>2, <1>4 DEF LockedAsCounted
  <2>4. QED
    BY <1>1, <1>2, <1>3, <1>4, <2>2, <2>3 DEF TransactionInv, At, tokens
<1>6. QED
  BY <1>3, <1>4, <1>5, QuietLemma

\* The commit publishes the draft: it counts one failure more than the row it
\* replaces, or clears it, and uses the token it came by.
LEMMA CommitLemma ==
  ASSUME IInv, NEW p \in Proc, Commit(p)
  PROVE  IInv'
<1> DEFINE u == req[p].user
           t == req[p].token
           d == draft[p]
<1>1. /\ u \in User /\ d \in Credential /\ credLock[u] = p
      /\ d.failedLoginCount \in {0, cred[u].failedLoginCount + 1}
      /\ LockedAsCounted(d)
      /\ t # None => resetLock[t] = p /\ ~reset[t].used
  BY DEF IInv, RequestInv, TransactionInv, Commit, At
<1>2. /\ cred' = [cred EXCEPT ![u] = d]
      /\ failed' = [failed EXCEPT ![u] = IF Cleared(d) THEN 0 ELSE @ + 1]
      /\ reset' = [r \in ResetToken |->
                     IF r = t THEN [user |-> reset[r].user, used |-> TRUE]
                              ELSE reset[r]]
      /\ uses' = [r \in ResetToken |-> IF r = t THEN uses[r] + 1 ELSE uses[r]]
      /\ End(p) /\ UNCHANGED <<active, lapsed, clock>>
  BY DEF Commit
<1> HIDE DEF d
<1>3. TypeOK'
  <2>1. cred' \in [User -> Credential] /\ failed' \in [User -> Nat]
    BY <1>1, <1>2 DEF IInv, TypeOK
  <2>2. /\ reset' \in [ResetToken -> [user: User \cup {None}, used: BOOLEAN]]
        /\ uses' \in [ResetToken -> Nat]
    <3>1. /\ reset \in [ResetToken -> [user: User \cup {None}, used: BOOLEAN]]
          /\ uses \in [ResetToken -> Nat]
      BY DEF IInv, TypeOK
    <3>2. \A r \in ResetToken :
            /\ [user |-> reset[r].user, used |-> TRUE] \in
                 [user: User \cup {None}, used: BOOLEAN]
            /\ uses[r] + 1 \in Nat
      BY <3>1
    <3>3. QED
      BY <1>2, <3>1, <3>2
  <2>3. /\ pc' \in [Proc -> PC] /\ req' \in [Proc -> Request]
        /\ draft' \in [Proc -> Credential \cup {None}]
        /\ credLock' \in [User -> Proc \cup {None}]
        /\ resetLock' \in [ResetToken -> Proc \cup {None}]
    BY <1>2, TypingLemma DEF IInv, End
  <2>4. QED
    BY <1>2, <2>1, <2>2, <2>3 DEF IInv, TypeOK
<1>4. LockFollowsCount'
  <2>1. ASSUME NEW v \in User
        PROVE  cred'[v] = IF v = u THEN d ELSE cred[v]
    BY <1>1, <1>2 DEF IInv, TypeOK
  <2>2. QED
    BY <1>1, <2>1 DEF IInv, LockFollowsCount, LockedAsCounted
<1>5. EveryFailureCounts'
  <2>1. cred[u] \in Credential /\ cred[u].failedLoginCount = failed[u]
    BY <1>1 DEF IInv, TypeOK, EveryFailureCounts
  <2>2. d.failedLoginCount = IF Cleared(d) THEN 0 ELSE failed[u] + 1
    BY <1>1, <2>1 DEF Cleared, Credential
  <2>3. \A v \in User :
          /\ cred'[v] = IF v = u THEN d ELSE cred[v]
          /\ failed'[v] = IF v = u THEN (IF Cleared(d) THEN 0 ELSE failed[u] + 1)
                                   ELSE failed[v]
    BY <1>1, <1>2 DEF IInv, TypeOK
  <2>4. QED
    BY <2>2, <2>3 DEF IInv, EveryFailureCounts
<1>6. ResetTokenChangesPasswordOnce'
  <2>1. ASSUME NEW r \in ResetToken
        PROVE  uses'[r] = IF reset'[r].used THEN 1 ELSE 0
    <3>1. reset[r] \in [user: User \cup {None}, used: BOOLEAN]
          /\ uses[r] = IF reset[r].used THEN 1 ELSE 0
      BY DEF IInv, TypeOK, ResetTokenChangesPasswordOnce
    <3>2. CASE r = t
      <4>1. ~reset[r].used
        BY <1>1, <3>2, NoneAssumption
      <4>2. uses'[r] = 1 /\ reset'[r].used
        BY <1>2, <3>1, <3>2, <4>1
      <4>3. QED
        BY <4>2
    <3>3. CASE r # t
      BY <1>2, <3>1, <3>3
    <3>4. QED
      BY <3>2, <3>3
  <2>2. QED
    BY <2>1 DEF ResetTokenChangesPasswordOnce
<1>7. RequestInv(p)' /\ TransactionInv(p)'
  BY <1>2, TypingLemma, EndedLemma DEF IInv
<1>8. ASSUME NEW q \in Proc \ {p}
      PROVE  RequestInv(q)' /\ TransactionInv(q)'
  <2>1. \A v \in User : credLock[v] # p => cred'[v] = cred[v]
    BY <1>1, <1>2 DEF IInv, TypeOK
  <2>2. \A r \in ResetToken : resetLock[r] # p => reset'[r] = reset[r]
    BY <1>1, <1>2, NoneAssumption
  <2>3. \A r \in ResetToken : reset'[r].user = reset[r].user
    BY <1>2 DEF IInv, TypeOK
  <2>4. Undisturbed(q)
    <3>1. pc'[q] = pc[q] /\ req'[q] = req[q]
      BY <1>2 DEF End, Goto, IInv, TypeOK
    <3>2. QED
      BY <1>2, <2>1, <2>2, <2>3, <3>1, ReleaseLemma DEF IInv, End
  <2>5. QED
    BY <1>3, <2>4, OthersLemma DEF TypeOK
<1>9. QED
  BY <1>3, <1>4, <1>5, <1>6, <1>7, <1>8 DEF IInv

\* What is no request's: the mail of a token, administrators, and the clock.
LEMMA WorldLemma ==
  ASSUME IInv,
         \/ \E u \in User : RequestReset(u) \/ Administer(u)
         \/ \E r \in ResetToken : Lapse(r)
         \/ Tick
  PROVE  IInv'
<1>1. /\ UNCHANGED <<credentials, uses, pc, req, draft, locks>>
      /\ TypeOK'
      /\ clock' >= clock
      /\ \A r \in ResetToken :
           /\ reset'[r].used = reset[r].used
           /\ reset[r].user # None => reset'[r] = reset[r]
  <2>1. CASE \E u \in User : RequestReset(u)
    BY <2>1 DEF RequestReset, IInv, TypeOK, credentials, tokens, locks
  <2>2. CASE \E u \in User : Administer(u)
    BY <2>2 DEF Administer, IInv, TypeOK, credentials, tokens, locks
  <2>3. CASE \E r \in ResetToken : Lapse(r)
    BY <2>3 DEF Lapse, IInv, TypeOK, credentials, tokens, locks
  <2>4. CASE Tick
    BY <2>4 DEF Tick, IInv, TypeOK, credentials, tokens, locks
  <2>5. QED
    BY <2>1, <2>2, <2>3, <2>4
<1>2. LockFollowsCount' /\ EveryFailureCounts' /\ ResetTokenChangesPasswordOnce'
  BY <1>1 DEF IInv, LockFollowsCount, EveryFailureCounts,
     ResetTokenChangesPasswordOnce, LockedAsCounted, credentials
<1>3. ASSUME NEW q \in Proc
      PROVE  RequestInv(q)' /\ TransactionInv(q)'
  <2>1. Undisturbed(q)
    BY <1>1 DEF Undisturbed, credentials, locks
  <2>2. QED
    BY <1>1, <2>1, OthersLemma DEF TypeOK
<1>4. QED
  BY <1>1, <1>2, <1>3 DEF IInv
LEMMA StepLemma == IInv /\ [Next]_vars => IInv'
<1> SUFFICES ASSUME IInv, [Next]_vars PROVE IInv'
  OBVIOUS
<1>1. ASSUME NEW p \in Proc, Step(p)
      PROVE  IInv'
  BY <1>1, ReadCredentialLemma, VerifyLemma, CountFailureLemma, LockAtThresholdLemma,
     ClearFailuresLemma, FindResetLemma, ConsumeResetLemma, UpdateCredentialLemma,
     CommitLemma DEF Step
<1>2. ASSUME NEW p \in Proc, Fail(p)
      PROVE  IInv'
  BY <1>2, AbandonLemma DEF Fail
<1>3. CASE UNCHANGED vars
  <2>1. ASSUME NEW q \in Proc
        PROVE  RequestInv(q)' /\ TransactionInv(q)'
    <3>1. Undisturbed(q)
      BY <1>3 DEF Undisturbed, vars, credentials, tokens, locks, IInv, TypeOK
    <3>2. QED
      BY <1>3, <3>1, OthersLemma DEF vars, IInv, TypeOK
  <2>2. TypeOK' /\ LockFollowsCount' /\ EveryFailureCounts'
        /\ ResetTokenChangesPasswordOnce'
    BY <1>3 DEF vars, credentials, tokens, locks, IInv, TypeOK, LockFollowsCount,
       LockedAsCounted, EveryFailureCounts, ResetTokenChangesPasswordOnce
  <2>3. QED
    BY <2>1, <2>2 DEF IInv
<1>4. QED
  BY <1>1, <1>2, <1>3, ArriveLemma, RetryLemma, WorldLemma DEF Next

\* The inductive invariant: what every request knows and holds between its
\* statements, and the three facts about the rows it commits.
THEOREM LockoutInvariant == Spec => []IInv
<1>1. Init => IInv
  BY InitLemma
<1>2. IInv /\ [Next]_vars => IInv'
  BY StepLemma
<1>3. QED
  BY <1>1, <1>2, PTL DEF Spec

\* record_failure and mark_login_success keep the lock and the counter together.
THEOREM LockFollowsCountTheorem == Spec => []LockFollowsCount
<1>1. IInv => LockFollowsCount
  BY DEF IInv
<1>2. QED
  BY <1>1, LockoutInvariant, PTL

\* No failure is lost between two record_failure transactions on one row.
THEOREM EveryFailureCountsTheorem == Spec => []EveryFailureCounts
<1>1. IInv => EveryFailureCounts
  BY DEF IInv
<1>2. QED
  BY <1>1, LockoutInvariant, PTL

\* confirm uses a reset token once, whoever else presents it.
THEOREM ResetTokenTheorem == Spec => []ResetTokenChangesPasswordOnce
<1>1. IInv => ResetTokenChangesPasswordOnce
  BY DEF IInv
<1>2. QED
  BY <1>1, LockoutInvariant, PTL

\* Only a commit writes a credential, and a sign-in that commits against a lock
\* in force read the credential before that lock: it found none in force.
THEOREM LockHoldsTheorem == Spec => LockHolds
<1> DEFINE Began(u) ==
      /\ cred[u].lockedUntil # None /\ cred[u].lockedUntil > clock
      /\ cred'[u] # cred[u]
      => \E p \in Proc :
           /\ At(p, "commit")
           /\ req[p].user = u
           /\ \/ req[p].token # None
              \/ req[p].seen.lockedUntil # cred[u].lockedUntil
<1>1. ASSUME IInv, [Next]_vars, NEW u \in User
      PROVE  Began(u)
  <2> SUFFICES ASSUME cred[u].lockedUntil # None, cred[u].lockedUntil > clock,
                      cred'[u] # cred[u]
               PROVE  \E p \in Proc :
                        /\ At(p, "commit")
                        /\ req[p].user = u
                        /\ \/ req[p].token # None
                           \/ req[p].seen.lockedUntil # cred[u].lockedUntil
    OBVIOUS
  <2>1. PICK p \in Proc : Commit(p)
    <3>1. ASSUME NEW p \in Proc,
                 StartLogin(p) \/ StartReset(p) \/ Fail(p) \/ Retry(p)
          PROVE  cred' = cred
      BY <3>1 DEF StartLogin, StartReset, Arrive, Fail, Retry, credentials
    <3>2. ASSUME NEW p \in Proc, Step(p), ~Commit(p)
          PROVE  cred' = cred
      BY <3>2 DEF Step, ReadCredential, Verify, CountFailure, LockAtThreshold,
         ClearFailures, FindReset, ConsumeReset, UpdateCredential, Write, credentials
    <3>3. ASSUME \/ \E v \in User : RequestReset(v) \/ Administer(v)
                 \/ \E r \in ResetToken : Lapse(r)
                 \/ Tick \/ UNCHANGED vars
          PROVE  cred' = cred
      BY <3>3 DEF RequestReset, Administer, Lapse, Tick, vars, credentials
    <3>4. QED
      BY <1>1, <3>1, <3>2, <3>3 DEF Next
  <2>2. At(p, "commit") /\ req[p].user = u
    BY <1>1, <2>1 DEF Commit, IInv, TypeOK
  <2>3. req[p].token = None => ~Locked(p)
    BY <1>1, <2>2 DEF IInv, RequestInv, At
  <2>4. req[p].token # None \/ req[p].seen.lockedUntil # cred[u].lockedUntil
    BY <2>3 DEF Locked
  <2>5. QED
    BY <2>2, <2>4
<1>2. IInv /\ [Next]_vars => [\A u \in User : Began(u)]_vars
  BY <1>1
<1>3. QED
  BY <1>2, LockoutInvariant, PTL DEF Spec, LockHolds
-----------------------------------------------------------------------------
(* The race of the requests that read the account before its lock.         *)

\* A step of a request moves no other request.
LEMMA OthersStayLemma ==
  ASSUME IInv, NEW p \in Proc, NEW q \in Proc \ {p},
         StartLogin(p) \/ StartReset(p) \/ Step(p) \/ Fail(p) \/ Retry(p)
  PROVE  pc'[q] = pc[q] /\ req'[q] = req[q] /\ draft'[q] = draft[q]
<1>1. /\ pc \in [Proc -> PC] /\ req \in [Proc -> Request]
      /\ draft \in [Proc -> Credential \cup {None}]
  BY DEF IInv, TypeOK
<1>2. CASE StartLogin(p) \/ StartReset(p)
  BY <1>1, <1>2 DEF StartLogin, StartReset, Arrive, Goto
<1>3. CASE Fail(p) \/ Retry(p)
  BY <1>1, <1>3 DEF Fail, Retry, End, Release, Goto
<1>4. CASE ReadCredential(p) \/ Verify(p)
  BY <1>1, <1>4 DEF ReadCredential, Verify, End, Release, Goto
<1>5. CASE CountFailure(p) \/ LockAtThreshold(p) \/ ClearFailures(p) \/ UpdateCredential(p)
  BY <1>1, <1>5 DEF CountFailure, LockAtThreshold, ClearFailures, UpdateCredential, Write, Goto
<1>6. CASE FindReset(p) \/ ConsumeReset(p)
  BY <1>1, <1>6 DEF FindReset, ConsumeReset, End, Release, Goto
<1>7. CASE Commit(p)
  BY <1>1, <1>7 DEF Commit, End, Release, Goto
<1>8. QED
  BY <1>2, <1>3, <1>4, <1>5, <1>6, <1>7 DEF Step

\* What no request does writes no credential and moves no request.
LEMMA WorldStaysLemma ==
  ASSUME \/ \E u \in User : RequestReset(u) \/ Administer(u)
         \/ \E r \in ResetToken : Lapse(r)
         \/ Tick
         \/ UNCHANGED vars
  PROVE  UNCHANGED <<cred, failed, pc, req, draft>> /\ (clock' = clock \/ clock' = clock + 1)
  BY DEF RequestReset, Administer, Lapse, Tick, vars, credentials

\* Only a commit writes a credential.
LEMMA OnlyCommitWritesLemma ==
  ASSUME NEW p \in Proc, ~Commit(p),
         StartLogin(p) \/ StartReset(p) \/ Step(p) \/ Fail(p) \/ Retry(p)
  PROVE  UNCHANGED <<cred, failed, clock>>
<1>1. CASE StartLogin(p) \/ StartReset(p) \/ Fail(p) \/ Retry(p)
  BY <1>1 DEF StartLogin, StartReset, Arrive, Fail, Retry, credentials
<1>2. CASE Step(p)
  BY <1>2 DEF Step, ReadCredential, Verify, CountFailure, LockAtThreshold,
     ClearFailures, FindReset, ConsumeReset, UpdateCredential, Write, credentials
<1>3. QED
  BY <1>1, <1>2

\* The conjunct of PendingInv about one request.
PendingPart(p) ==
  LET passed == \/ pc[p] \in {"count", "threshold", "clear"}
                \/ At(p, "commit") /\ req[p].token = None
  IN /\ At(p, "verify") \/ passed => Late(req[p].seen.lockedUntil)
     /\ passed => req[p].until >= LockTime
     /\ pc[p] \in {"threshold", "commit"} => Late(draft[p].lockedUntil)
     /\ At(p, "commit") /\ req[p].token # None => Cleared(draft[p])

LEMMA PendingPartsLemma ==
  PendingInv <=> /\ \A u \in User : Late(cred[u].lockedUntil)
                /\ \A p \in Proc : PendingPart(p)
  BY DEF PendingInv, PendingPart

\* What p itself does: the lock it read is late, and so is the one it sets.
LEMMA PendingStepLemma ==
  ASSUME IInv, PendingInv, NEW p \in Proc,
         StartLogin(p) \/ StartReset(p) \/ Step(p) \/ Fail(p) \/ Retry(p)
  PROVE  PendingPart(p)'
<1> DEFINE u == req[p].user
<1>1. /\ pc \in [Proc -> PC] /\ req \in [Proc -> Request]
      /\ draft \in [Proc -> Credential \cup {None}]
      /\ cred \in [User -> Credential]
      /\ clock \in Nat /\ LockTime \in Nat
  BY TimeAssumption DEF IInv, TypeOK
<1>2. /\ PendingPart(p) /\ RequestInv(p)
      /\ \A v \in User : Late(cred[v].lockedUntil)
  BY PendingPartsLemma DEF IInv
<1>3. CASE StartLogin(p) \/ StartReset(p)
  <2>1. pc'[p] \in {"read", "find"}
    BY <1>1, <1>3 DEF StartLogin, StartReset, Arrive, Goto
  <2>2. QED
    BY <2>1 DEF PendingPart, At
<1>4. ASSUME End(p)
      PROVE  PendingPart(p)'
  <2>1. pc'[p] = "idle"
    BY <1>1, <1>4 DEF End, Goto
  <2>2. QED
    BY <2>1 DEF PendingPart, At
<1>5. CASE Retry(p)
  <2>1. req'[p] = req[p] /\ pc'[p] = FirstStatement(p)
    BY <1>1, <1>5 DEF Retry, Goto
  <2>2. CASE req[p].token # None
    BY <2>1, <2>2 DEF PendingPart, At, FirstStatement
  <2>3. CASE req[p].token = None
    <3>1. pc[p] \in {"count", "threshold", "clear", "commit"}
      BY <1>1, <1>2, <1>5, <2>3, NoneAssumption DEF RequestInv, Retry, PC, At
    <3>2. pc'[p] \in {"count", "clear"}
      BY <2>1, <2>3 DEF FirstStatement
    <3>3. QED
      BY <1>2, <2>1, <2>3, <3>1, <3>2 DEF PendingPart, At
  <2>4. QED
    BY <2>2, <2>3
<1>6. CASE ReadCredential(p)
  <2>1. u \in User
    BY <1>2, <1>6 DEF RequestInv, ReadCredential, At
  <2>2. pc'[p] = "verify" /\ req'[p].seen.lockedUntil = cred[u].lockedUntil
    BY <1>1, <1>6 DEF ReadCredential, Goto, Request
  <2>3. QED
    BY <1>2, <2>1, <2>2 DEF PendingPart, At, Late
<1>7. CASE Verify(p)
  <2>1. CASE /\ req' = [req EXCEPT ![p].until = clock + LockTime]
             /\ Goto(p, IF Verified(p) THEN "clear" ELSE "count")
    <3>1. /\ pc[p] = "verify" /\ pc'[p] \in {"clear", "count"}
          /\ req'[p].seen = req[p].seen /\ req'[p].until = clock + LockTime
      BY <1>1, <1>7, <2>1 DEF Verify, At, Goto, Request
    <3>2. clock + LockTime >= LockTime
      BY <1>1
    <3>3. QED
      BY <1>2, <3>1, <3>2 DEF PendingPart, At, Late
  <2>2. QED
    BY <1>4, <1>7, <2>1 DEF Verify
<1>8. CASE CountFailure(p)
  <2>1. /\ pc[p] = "count" /\ pc'[p] = "threshold" /\ req'[p] = req[p]
        /\ u \in User
        /\ draft'[p] = [cred[u] EXCEPT !.failedLoginCount = @ + 1]
    BY <1>1, <1>2, <1>8 DEF CountFailure, Write, Goto, At, RequestInv
  <2>2. draft'[p].lockedUntil = cred[u].lockedUntil
    BY <1>1, <2>1 DEF Credential
  <2>3. QED
    BY <1>2, <2>1, <2>2 DEF PendingPart, At, Late
<1>9. CASE LockAtThreshold(p)
  <2>1. /\ pc[p] = "threshold" /\ pc'[p] = "commit" /\ req'[p] = req[p]
        /\ u \in User /\ req[p].token = None
        /\ draft'[p] = LockIfThreshold(p, draft[p])
    BY <1>1, <1>2, <1>9 DEF LockAtThreshold, Write, Goto, At, RequestInv
  <2>2. draft[p] \in Credential
    <3>1. TransactionInv(p)
      BY DEF IInv
    <3>2. draft[p] = [cred[u] EXCEPT !.failedLoginCount = @ + 1]
      BY <2>1, <3>1 DEF TransactionInv, At
    <3>3. QED
      BY <1>1, <2>1, <3>2 DEF Credential
  <2>3. draft'[p].lockedUntil \in {draft[p].lockedUntil, req[p].until}
    BY <2>1, <2>2 DEF LockIfThreshold, Credential
  <2>4. QED
    BY <1>2, <2>1, <2>3 DEF PendingPart, At, Late
<1>10. CASE ClearFailures(p)
  <2>1. /\ pc[p] = "clear" /\ pc'[p] = "commit" /\ req'[p] = req[p]
        /\ u \in User /\ req[p].token = None
        /\ draft'[p] = [cred[u] EXCEPT !.failedLoginCount = 0, !.lockedUntil = None]
    BY <1>1, <1>2, <1>10 DEF ClearFailures, Write, Goto, At, RequestInv
  <2>2. draft'[p].lockedUntil = None
    BY <1>1, <2>1 DEF Credential
  <2>3. QED
    BY <1>2, <2>1, <2>2 DEF PendingPart, At, Late
<1>11. CASE UpdateCredential(p)
  <2>1. /\ pc[p] = "update" /\ pc'[p] = "commit" /\ req'[p] = req[p]
        /\ draft'[p].lockedUntil = None /\ draft'[p].failedLoginCount = 0
    BY <1>1, <1>11 DEF UpdateCredential, Write, Goto, At
  <2>2. req[p].token # None
    BY <1>2, <2>1, NoneAssumption DEF RequestInv
  <2>3. QED
    BY <2>1, <2>2 DEF PendingPart, At, Late, Cleared
<1>12. CASE FindReset(p) \/ ConsumeReset(p)
  <2>1. CASE pc'[p] \in {"consume", "update"}
    BY <2>1 DEF PendingPart, At
  <2>2. QED
    BY <1>1, <1>4, <1>12, <2>1 DEF FindReset, ConsumeReset, Goto
<1>13. QED
  BY <1>3, <1>4, <1>5, <1>6, <1>7, <1>8, <1>9, <1>10, <1>11, <1>12 DEF Step, Fail, Commit

\* record_failure sets a lock that outlasts the first LockTime of the clock.
LEMMA PendingLemma ==
  ASSUME IInv, PendingInv, [Next]_vars
  PROVE  PendingInv'
<1>1. CASE \E p \in Proc : StartLogin(p) \/ StartReset(p) \/ Step(p) \/ Fail(p) \/ Retry(p)
  <2>1. PICK p \in Proc : StartLogin(p) \/ StartReset(p) \/ Step(p) \/ Fail(p) \/ Retry(p)
    BY <1>1
  <2>2. ASSUME NEW q \in Proc \ {p}
        PROVE  PendingPart(q)'
    <3>1. pc'[q] = pc[q] /\ req'[q] = req[q] /\ draft'[q] = draft[q]
      BY <2>1, OthersStayLemma
    <3>2. PendingPart(q)
      BY PendingPartsLemma
    <3>3. QED
      BY <3>1, <3>2 DEF PendingPart, At, Late
  <2>3. PendingPart(p)'
    BY <2>1, PendingStepLemma
  <2>4. ASSUME NEW u \in User
        PROVE  Late(cred[u].lockedUntil)'
    <3>1. Late(cred[u].lockedUntil) /\ PendingPart(p)
      BY PendingPartsLemma
    <3>2. cred'[u] \in {cred[u], draft[p]} /\ (cred'[u] # cred[u] => pc[p] = "commit")
      <4>1. CASE Commit(p)
        BY <4>1 DEF Commit, IInv, TypeOK, At
      <4>2. CASE ~Commit(p)
        BY <2>1, <4>2, OnlyCommitWritesLemma
      <4>3. QED
        BY <4>1, <4>2
    <3>3. QED
      BY <3>1, <3>2 DEF PendingPart, Late
  <2>5. (\A u \in User : Late(cred[u].lockedUntil)') /\ (\A q \in Proc : PendingPart(q)')
    BY <2>2, <2>3, <2>4
  <2>6. QED
    BY <2>5 DEF PendingInv, PendingPart
<1>2. CASE \/ \E u \in User : RequestReset(u) \/ Administer(u)
           \/ \E r \in ResetToken : Lapse(r)
           \/ Tick
           \/ UNCHANGED vars
  BY <1>2, WorldStaysLemma DEF PendingInv, Late, At
<1>3. QED
  BY <1>1, <1>2 DEF Next

\* Before the first lock can lapse, a sign-in about to commit saw no lock.
LEMMA RacerLemma ==
  ASSUME IInv, PendingInv, clock < LockTime, NEW p \in Proc,
         At(p, "commit"), req[p].token = None
  PROVE  p \in Racing(req[p].user)
<1>1. req[p].seen \in Seen /\ ~Locked(p)
  BY DEF IInv, RequestInv, At
<1>2. Late(req[p].seen.lockedUntil)
  BY DEF PendingInv, At
<1>3. req[p].seen.lockedUntil = None
  BY <1>1, <1>2, TimeAssumption DEF Locked, Late, Seen, IInv, TypeOK
<1>4. QED
  BY <1>3 DEF Racing, At

\* Nobody joins the race against an account that is locked.
LEMMA NobodyJoinsLemma ==
  ASSUME IInv, NEW p \in Proc, NEW u \in User, failed[u] >= Threshold,
         StartLogin(p) \/ StartReset(p) \/ Step(p) \/ Fail(p) \/ Retry(p)
  PROVE  Racing(u)' \subseteq Racing(u)
<1>1. /\ pc \in [Proc -> PC] /\ req \in [Proc -> Request] /\ RequestInv(p)
  BY DEF IInv, TypeOK
<1>2. ASSUME NEW q \in Racing(u)', q # p
      PROVE  q \in Racing(u)
  BY <1>2, OthersStayLemma DEF Racing
<1>3. ASSUME p \in Racing(u)'
      PROVE  p \in Racing(u)
  <2>1. /\ pc'[p] \in {"verify", "count", "threshold", "clear", "commit"}
        /\ req'[p].user = u /\ req'[p].token = None /\ req'[p].seen.lockedUntil = None
    BY <1>3 DEF Racing
  <2>2. ~StartLogin(p) /\ ~StartReset(p) /\ ~FindReset(p) /\ ~ConsumeReset(p) /\ ~End(p)
    BY <1>1, <2>1 DEF StartLogin, StartReset, Arrive, FindReset, ConsumeReset, End, Goto
  <2>3. ~ReadCredential(p)
    <3>1. SUFFICES ASSUME ReadCredential(p) PROVE FALSE
      OBVIOUS
    <3>2. req'[p].user = req[p].user /\ req'[p].seen.lockedUntil = cred[req[p].user].lockedUntil
      BY <1>1, <3>1 DEF ReadCredential, Request
    <3>3. cred[u].lockedUntil # None
      BY DEF IInv, LockFollowsCount, LockedAsCounted, EveryFailureCounts
    <3>4. QED
      BY <2>1, <3>2, <3>3
  <2>4. CASE Verify(p)
    <3>1. req' = [req EXCEPT ![p].until = clock + LockTime] /\ pc[p] = "verify"
      BY <2>2, <2>4 DEF Verify, At
    <3>2. /\ req'[p].user = req[p].user /\ req'[p].token = req[p].token
          /\ req'[p].seen = req[p].seen
      BY <1>1, <3>1 DEF Request
    <3>3. QED
      BY <2>1, <3>1, <3>2 DEF Racing
  <2>5. CASE CountFailure(p) \/ LockAtThreshold(p) \/ ClearFailures(p) \/ UpdateCredential(p)
    <3>1. req' = req /\ pc[p] \in {"count", "threshold", "clear", "update"}
      BY <2>5 DEF CountFailure, LockAtThreshold, ClearFailures, UpdateCredential, Write, At
    <3>2. pc[p] # "update"
      BY <1>1, <2>1, <3>1, NoneAssumption DEF RequestInv
    <3>3. QED
      BY <2>1, <3>1, <3>2 DEF Racing
  <2>6. CASE Retry(p)
    <3>1. req' = req /\ pc[p] \notin {"idle", "read", "verify"}
      BY <2>6 DEF Retry
    <3>2. pc[p] \in {"count", "threshold", "clear", "commit"}
      BY <1>1, <2>1, <3>1, NoneAssumption DEF RequestInv, PC
    <3>3. QED
      BY <2>1, <3>1, <3>2 DEF Racing
  <2>7. QED
    BY <2>2, <2>3, <2>4, <2>5, <2>6 DEF Step, Fail, Commit
<1>4. Racing(u)' \subseteq Proc
  BY DEF Racing
<1>5. QED
  BY <1>2, <1>3, <1>4

\* Sets of requests are finite.
LEMMA RacingSizeLemma ==
  ASSUME NEW u
  PROVE  /\ Racing(u) \in SUBSET Proc /\ IsFiniteSet(Racing(u))
         /\ Cardinality(Racing(u)) \in Nat /\ Cardinality(Proc) \in Nat
         /\ Racing(u)' \in SUBSET Proc /\ IsFiniteSet(Racing(u)')
         /\ Cardinality(Racing(u)') \in Nat
<1>1. Racing(u) \in SUBSET Proc /\ Racing(u)' \in SUBSET Proc
  BY DEF Racing
<1>2. IsFiniteSet(Racing(u)) /\ IsFiniteSet(Racing(u)')
  BY <1>1, ProcAssumption, FS_Subset
<1>3. QED
  BY <1>1, <1>2, ProcAssumption, FS_CardinalityType

\* A commit of a failure: the request that counts it leaves the race, which is
\* then one request short of the server's whole load at most.
LEMMA CountedLemma ==
  ASSUME IInv, PendingInv, RaceInv, clock < LockTime, NEW p \in Proc, Commit(p),
         NEW u \in User, failed'[u] >= Threshold
  PROVE  failed'[u] + Cardinality(Racing(u)') <= Threshold - 1 + Cardinality(Proc)
<1> DEFINE n == Cardinality(Proc)
           k == Cardinality(Racing(u))
           j == Cardinality(Racing(u)')
<1>1. /\ failed \in [User -> Nat] /\ Threshold \in Nat \ {0}
      /\ n \in Nat /\ k \in Nat /\ j \in Nat
  BY RacingSizeLemma, ThresholdAssumption DEF IInv, TypeOK
<1>2. /\ failed' = [failed EXCEPT ![req[p].user] = IF Cleared(draft[p]) THEN 0 ELSE @ + 1]
      /\ At(p, "commit") /\ pc'[p] = "idle"
  BY DEF Commit, End, Goto, IInv, TypeOK
<1>3. p \notin Racing(u)'
  BY <1>2 DEF Racing
<1>4. failed[u] >= Threshold => failed[u] + k <= Threshold - 1 + n
  BY DEF RaceInv
<1>5. failed[u] >= Threshold => Racing(u)' \subseteq Racing(u)
  BY NobodyJoinsLemma DEF Step
<1>6. CASE u # req[p].user
  <2>1. failed'[u] = failed[u]
    BY <1>1, <1>2, <1>6
  <2>2. Racing(u)' \in SUBSET Racing(u)
    BY <1>5, <2>1
  <2>3. j <= k
    BY <2>2, RacingSizeLemma, FS_Subset
  <2>4. QED
    BY <1>1, <1>4, <2>1, <2>3
<1>7. CASE u = req[p].user
  <2>1. ~Cleared(draft[p]) /\ failed'[u] = failed[u] + 1
    BY <1>1, <1>2, <1>7
  <2>2. req[p].token = None
    BY <1>2, <2>1 DEF PendingInv
  <2>3. p \in Racing(u)
    BY <1>2, <1>7, <2>2, RacerLemma
  <2>4. CASE failed[u] >= Threshold
    <3>1. Racing(u)' \in SUBSET (Racing(u) \ {p})
      BY <1>3, <1>5, <2>4
    <3>2. IsFiniteSet(Racing(u) \ {p}) /\ Cardinality(Racing(u) \ {p}) = k - 1
      BY <2>3, RacingSizeLemma, FS_RemoveElement
    <3>3. j <= k - 1
      BY <3>1, <3>2, FS_Subset
    <3>4. QED
      BY <1>1, <1>4, <2>1, <2>4, <3>3
  <2>5. CASE failed[u] < Threshold
    <3>1. Racing(u)' \in SUBSET (Proc \ {p})
      BY <1>3 DEF Racing
    <3>2. IsFiniteSet(Proc \ {p}) /\ Cardinality(Proc \ {p}) = n - 1
      BY ProcAssumption, FS_RemoveElement
    <3>3. j <= n - 1
      BY <3>1, <3>2, FS_Subset
    <3>4. QED
      BY <1>1, <2>1, <2>5, <3>3
  <2>6. QED
    BY <1>1, <2>4, <2>5
<1>8. QED
  BY <1>6, <1>7

LEMMA RaceLemma ==
  ASSUME IInv, PendingInv, RaceInv, [Next]_vars
  PROVE  RaceInv'
<1> SUFFICES ASSUME clock' < LockTime, NEW u \in User, failed'[u] >= Threshold
             PROVE  failed'[u] + Cardinality(Racing(u)') <= Threshold - 1 + Cardinality(Proc)
  BY DEF RaceInv
<1>1. clock \in Nat /\ LockTime \in Nat /\ failed \in [User -> Nat] /\ Threshold \in Nat
  BY TimeAssumption, ThresholdAssumption DEF IInv, TypeOK
<1>2. CASE \E p \in Proc : StartLogin(p) \/ StartReset(p) \/ Step(p) \/ Fail(p) \/ Retry(p)
  <2>1. PICK p \in Proc : StartLogin(p) \/ StartReset(p) \/ Step(p) \/ Fail(p) \/ Retry(p)
    BY <1>2
  <2>2. CASE Commit(p)
    <3>1. clock < LockTime
      BY <2>2 DEF Commit
    <3>2. QED
      BY <2>2, <3>1, CountedLemma
  <2>3. CASE ~Commit(p)
    <3>1. UNCHANGED <<cred, failed, clock>>
      BY <2>1, <2>3, OnlyCommitWritesLemma
    <3>2. failed[u] + Cardinality(Racing(u)) <= Threshold - 1 + Cardinality(Proc)
      BY <3>1 DEF RaceInv
    <3>3. Racing(u)' \in SUBSET Racing(u)
      BY <2>1, <3>1, NobodyJoinsLemma
    <3>4. Cardinality(Racing(u)') <= Cardinality(Racing(u))
      BY <3>3, RacingSizeLemma, FS_Subset
    <3>5. QED
      BY <1>1, <3>1, <3>2, <3>4, RacingSizeLemma
  <2>4. QED
    BY <2>2, <2>3
<1>3. CASE \/ \E v \in User : RequestReset(v) \/ Administer(v)
           \/ \E r \in ResetToken : Lapse(r)
           \/ Tick
           \/ UNCHANGED vars
  <2>1. UNCHANGED <<failed, pc, req>> /\ (clock' = clock \/ clock' = clock + 1)
    BY <1>3, WorldStaysLemma
  <2>2. Racing(u)' = Racing(u) /\ clock < LockTime
    BY <1>1, <2>1 DEF Racing
  <2>3. QED
    BY <2>1, <2>2 DEF RaceInv
<1>4. QED
  BY <1>2, <1>3 DEF Next

\* Requests that read an account before its lock may each count one failure
\* past the threshold, and no other request counts any until the lock lapses.
THEOREM GuessesBoundedTheorem == Spec => []GuessesBounded
<1>1. Init => PendingInv /\ RaceInv
  <2> SUFFICES ASSUME Init PROVE PendingInv /\ RaceInv
    OBVIOUS
  <2>1. PendingInv
    BY DEF Init, PendingInv, Late, At
  <2>2. RaceInv
    BY ThresholdAssumption DEF Init, RaceInv
  <2>3. QED
    BY <2>1, <2>2
<1>2. IInv /\ PendingInv /\ RaceInv /\ [Next]_vars => (PendingInv /\ RaceInv)'
  BY PendingLemma, RaceLemma
<1>3. IInv /\ RaceInv => GuessesBounded
  <2> SUFFICES ASSUME IInv, RaceInv, clock < LockTime, NEW u \in User
               PROVE  failed[u] <= Threshold - 1 + Cardinality(Proc)
    BY DEF GuessesBounded
  <2>1. /\ failed[u] \in Nat /\ Threshold \in Nat
        /\ Cardinality(Proc) \in Nat /\ Cardinality(Racing(u)) \in Nat
    BY ThresholdAssumption, RacingSizeLemma DEF IInv, TypeOK
  <2>2. failed[u] >= Threshold =>
          failed[u] + Cardinality(Racing(u)) <= Threshold - 1 + Cardinality(Proc)
    BY DEF RaceInv
  <2>3. QED
    BY <2>1, <2>2
<1>4. QED
  BY <1>1, <1>2, <1>3, LockoutInvariant, PTL DEF Spec
=============================================================================
