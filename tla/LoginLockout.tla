---------------------------- MODULE LoginLockout ----------------------------
(***************************************************************************)
(* Signing in with a password: the failed-login counter, the lock it sets, *)
(* and the password reset that rewrites all of it.                         *)
(*                                                                         *)
(* login reads the credential on one connection, verifies the password     *)
(* with no transaction open, and counts the failure, or clears the         *)
(* counter, in a transaction of its own: between the two, other requests   *)
(* may have counted, locked, cleared or reset.  One SQL statement is one   *)
(* action; a transaction's uncommitted credential is draft[p].             *)
(*                                                                         *)
(* What a successful sign-in ends in is Sessions's _issue_pair or          *)
(* AuthHandoff's code.  A password is a value two strings share when they  *)
(* verify against the same hash.                                           *)
(***************************************************************************)
EXTENDS Naturals, FiniteSets

CONSTANTS User,       \* users with a PasswordCredential row
          Password,
          ResetToken, \* rows the PasswordResetToken table may ever hold
          Proc,       \* requests in flight at the same time
          None,
          Threshold,  \* record_failure: threshold
          LockTime,   \* timedelta(minutes=15), in ticks of the clock
          MaxTime     \* bound: the clock stops there

ASSUME NoneAssumption == None \notin User \cup ResetToken \cup Proc \cup Nat
ASSUME ProcAssumption == IsFiniteSet(Proc)
ASSUME ThresholdAssumption == Threshold \in Nat \ {0}
ASSUME TimeAssumption == LockTime \in Nat \ {0} /\ MaxTime \in Nat

VARIABLES cred,      \* committed PasswordCredential rows
          active,    \* users whose status is ACTIVE
          reset,     \* committed PasswordResetToken rows
          lapsed,    \* reset tokens whose expiresAt has passed
          clock,     \* utc_now_ms
          pc, req,
          draft,     \* the credential a transaction has written, uncommitted
          credLock,  \* who holds the credential row
          resetLock, \* who holds the reset token row
          failed,    \* history: failures committed since the last clearing
          uses       \* history: password changes each reset token has made

credentials == <<cred, failed>>
tokens == <<reset, lapsed, uses>>
locks == <<credLock, resetLock>>
vars == <<credentials, active, tokens, clock, pc, req, draft, locks>>

Credential == [password: Password, failedLoginCount: Nat, lockedUntil: Nat \cup {None}]

PC == {"idle", "read", "verify", "count", "threshold", "clear",
       "find", "consume", "update", "commit"}

\* What login reads of a credential and its user.
Seen == [password: Password, lockedUntil: Nat \cup {None}, active: BOOLEAN]

\* seen: what login read of the credential.  until: the lock a failure would
\* set.  fresh: the reset token had not expired when the request came.
Request == [user: User \cup {None}, password: Password \cup {None},
            seen: Seen \cup {None},
            until: Nat, token: ResetToken \cup {None}, fresh: BOOLEAN]

NoRequest == [user |-> None, password |-> None, seen |-> None, until |-> 0,
              token |-> None, fresh |-> FALSE]

TypeOK ==
  /\ cred \in [User -> Credential]
  /\ active \in SUBSET User
  /\ reset \in [ResetToken -> [user: User \cup {None}, used: BOOLEAN]]
  /\ lapsed \in SUBSET ResetToken
  /\ clock \in Nat
  /\ pc \in [Proc -> PC]
  /\ req \in [Proc -> Request]
  /\ draft \in [Proc -> Credential \cup {None}]
  /\ credLock \in [User -> Proc \cup {None}]
  /\ resetLock \in [ResetToken -> Proc \cup {None}]
  /\ failed \in [User -> Nat]
  /\ uses \in [ResetToken -> Nat]

\* A new credential, after the registration or the confirmation that made it.
Init ==
  /\ cred \in [User -> [password: Password, failedLoginCount: {0}, lockedUntil: {None}]]
  /\ active = User
  /\ reset = [r \in ResetToken |-> [user |-> None, used |-> FALSE]]
  /\ lapsed = {}
  /\ clock = 0
  /\ pc = [p \in Proc |-> "idle"]
  /\ req = [p \in Proc |-> NoRequest]
  /\ draft = [p \in Proc |-> None]
  /\ credLock = [u \in User |-> None]
  /\ resetLock = [r \in ResetToken |-> None]
  /\ failed = [u \in User |-> 0]
  /\ uses = [r \in ResetToken |-> 0]
-----------------------------------------------------------------------------
At(p, label) == pc[p] = label
Goto(p, label) == pc' = [pc EXCEPT ![p] = label]

\* The transaction that p has open, if any, is over.
Release(p) ==
  /\ draft' = [draft EXCEPT ![p] = None]
  /\ credLock' = [u \in User |-> IF credLock[u] = p THEN None ELSE credLock[u]]
  /\ resetLock' = [r \in ResetToken |-> IF resetLock[r] = p THEN None ELSE resetLock[r]]

End(p) ==
  /\ Goto(p, "idle")
  /\ req' = [req EXCEPT ![p] = NoRequest]
  /\ Release(p)

Arrive(p, r, label) ==
  /\ At(p, "idle")
  /\ req' = [req EXCEPT ![p] = r]
  /\ Goto(p, label)
  /\ UNCHANGED <<credentials, active, tokens, clock, draft, locks>>

\* The UPDATE of u's credential row, once its lock is free: c is the new row.
Write(p, u, c) ==
  /\ credLock[u] \in {None, p}
  /\ credLock' = [credLock EXCEPT ![u] = p]
  /\ draft' = [draft EXCEPT ![p] = c]
  /\ UNCHANGED <<credentials, active, tokens, clock, req, resetLock>>
-----------------------------------------------------------------------------
(* login.                                                                  *)

StartLogin(p) ==
  \E u \in User, w \in Password :
    Arrive(p, [NoRequest EXCEPT !.user = u, !.password = w], "read")

\* find_credential_by_email, on a connection of its own.
ReadCredential(p) ==
  /\ At(p, "read")
  /\ LET u == req[p].user
     IN req' = [req EXCEPT ![p].seen =
                  [password |-> cred[u].password, lockedUntil |-> cred[u].lockedUntil,
                   active |-> u \in active]]
  /\ Goto(p, "verify")
  /\ UNCHANGED <<credentials, active, tokens, clock, draft, locks>>

\* Mutant: the lock is not looked at.
NeverLocked(p) == FALSE

Locked(p) == req[p].seen.lockedUntil # None /\ req[p].seen.lockedUntil > clock

Verified(p) == req[p].seen.password = req[p].password

\* Mutant: the right password opens a locked account.
VerifyPasswordFirst(p) ==
  /\ At(p, "verify")
  /\ \/ /\ req[p].seen.active /\ (Verified(p) \/ ~Locked(p))
        /\ req' = [req EXCEPT ![p].until = clock + LockTime]
        /\ Goto(p, IF Verified(p) THEN "clear" ELSE "count")
        /\ UNCHANGED <<draft, locks>>
     \/ /\ ~req[p].seen.active \/ (Locked(p) /\ ~Verified(p))
        /\ End(p)
  /\ UNCHANGED <<credentials, active, tokens, clock>>

\* `now' is read after the password has been verified.
Verify(p) ==
  /\ At(p, "verify")
  /\ \/ /\ req[p].seen.active /\ ~Locked(p)
        /\ req' = [req EXCEPT ![p].until = clock + LockTime]
        /\ Goto(p, IF Verified(p) THEN "clear" ELSE "count")
        /\ UNCHANGED <<draft, locks>>
     \/ /\ ~req[p].seen.active \/ Locked(p)
        /\ End(p)
  /\ UNCHANGED <<credentials, active, tokens, clock>>

\* Mutant: the counter is read and written back without the row's lock.
CountUnlocked(p) ==
  /\ At(p, "count")
  /\ draft' = [draft EXCEPT ![p] = [cred[req[p].user] EXCEPT !.failedLoginCount = @ + 1]]
  /\ Goto(p, "threshold")
  /\ UNCHANGED <<credentials, active, tokens, clock, req, locks>>

\* record_failure: SET failedLoginCount = failedLoginCount + 1.
CountFailure(p) ==
  /\ At(p, "count")
  /\ LET u == req[p].user
     IN Write(p, u, [cred[u] EXCEPT !.failedLoginCount = @ + 1])
  /\ Goto(p, "threshold")

\* Mutant: the lock comes one failure late.
LockPastThreshold(p, c) ==
  IF c.failedLoginCount > Threshold THEN [c EXCEPT !.lockedUntil = req[p].until] ELSE c

\* record_failure: SET lockedUntil WHERE failedLoginCount >= threshold.
LockIfThreshold(p, c) ==
  IF c.failedLoginCount >= Threshold THEN [c EXCEPT !.lockedUntil = req[p].until] ELSE c

LockAtThreshold(p) ==
  /\ At(p, "threshold")
  /\ Write(p, req[p].user, LockIfThreshold(p, draft[p]))
  /\ Goto(p, "commit")

\* Mutant: the lock is left standing.
ClearCountOnly(p) ==
  /\ At(p, "clear")
  /\ LET u == req[p].user
     IN Write(p, u, [cred[u] EXCEPT !.failedLoginCount = 0])
  /\ Goto(p, "commit")

\* mark_login_success.
ClearFailures(p) ==
  /\ At(p, "clear")
  /\ LET u == req[p].user
     IN Write(p, u, [cred[u] EXCEPT !.failedLoginCount = 0, !.lockedUntil = None])
  /\ Goto(p, "commit")
-----------------------------------------------------------------------------
(* Password reset.                                                         *)

\* request_password_reset: a token is mailed; earlier ones stay valid.
RequestReset(u) ==
  /\ u \in active
  /\ \E r \in ResetToken :
       /\ reset[r].user = None
       /\ reset' = [reset EXCEPT ![r].user = u]
  /\ UNCHANGED <<credentials, active, lapsed, uses, clock, pc, req, draft, locks>>

\* `now' is read before the transaction: both tests of expiresAt agree.
StartReset(p) ==
  \E r \in ResetToken, w \in Password :
    /\ reset[r].user # None
    /\ Arrive(p, [NoRequest EXCEPT !.token = r, !.password = w,
                                   !.fresh = r \notin lapsed], "find")

Usable(p) == ~reset[req[p].token].used /\ req[p].fresh

\* confirm: the unlocked read of the token.
FindReset(p) ==
  /\ At(p, "find")
  /\ \/ /\ Usable(p)
        /\ req' = [req EXCEPT ![p].user = reset[req[p].token].user]
        /\ Goto(p, "consume")
        /\ UNCHANGED <<draft, locks>>
     \/ /\ ~Usable(p)
        /\ End(p)
  /\ UNCHANGED <<credentials, active, tokens, clock>>

\* Mutant: the UPDATE lacks its usedAt IS NULL.
ConsumeAnyReset(p) ==
  /\ At(p, "consume")
  /\ resetLock[req[p].token] \in {None, p}
  /\ resetLock' = [resetLock EXCEPT ![req[p].token] = p]
  /\ Goto(p, "update")
  /\ UNCHANGED <<credentials, active, tokens, clock, req, draft, credLock>>

\* confirm: SET usedAt WHERE usedAt IS NULL AND expiresAt > now, and its
\* rowcount.
ConsumeReset(p) ==
  /\ At(p, "consume")
  /\ resetLock[req[p].token] \in {None, p}
  /\ \/ /\ Usable(p)
        /\ resetLock' = [resetLock EXCEPT ![req[p].token] = p]
        /\ Goto(p, "update")
        /\ UNCHANGED <<req, draft, credLock>>
     \/ /\ ~Usable(p)
        /\ End(p)
  /\ UNCHANGED <<credentials, active, tokens, clock>>

\* confirm, under the user's lock: the new password, the counter and the lock.
\* Users keep their ids here, so the lock finds one; OneTimeLinks has the branch
\* in which it does not.  The sessions the transaction revokes are Sessions's.
UpdateCredential(p) ==
  /\ At(p, "update")
  /\ Write(p, req[p].user,
           [password |-> req[p].password, failedLoginCount |-> 0, lockedUntil |-> None])
  /\ Goto(p, "commit")
-----------------------------------------------------------------------------
Cleared(c) == c.failedLoginCount = 0

Commit(p) ==
  /\ At(p, "commit")
  /\ LET u == req[p].user
         r == req[p].token
     IN /\ cred' = [cred EXCEPT ![u] = draft[p]]
        /\ failed' = [failed EXCEPT ![u] = IF Cleared(draft[p]) THEN 0 ELSE @ + 1]
        /\ reset' = [t \in ResetToken |->
                       IF t = r THEN [user |-> reset[t].user, used |-> TRUE]
                                ELSE reset[t]]
        /\ uses' = [t \in ResetToken |-> IF t = r THEN uses[t] + 1 ELSE uses[t]]
  /\ End(p)
  /\ UNCHANGED <<active, lapsed, clock>>

\* A database error or the loss of the server process.
Fail(p) ==
  /\ ~At(p, "idle")
  /\ End(p)
  /\ UNCHANGED <<credentials, active, tokens, clock>>

\* Database.transaction: a deadlock or a serialization failure reported to any
\* statement rolls back, and the callback is run again with the same inputs.
FirstStatement(p) ==
  IF req[p].token # None THEN "find" ELSE IF Verified(p) THEN "clear" ELSE "count"

Retry(p) ==
  /\ pc[p] \notin {"idle", "read", "verify"}
  /\ Goto(p, FirstStatement(p))
  /\ Release(p)
  /\ UNCHANGED <<credentials, active, tokens, clock, req>>

Tick ==
  /\ clock < MaxTime
  /\ clock' = clock + 1
  /\ UNCHANGED <<credentials, active, tokens, pc, req, draft, locks>>

Lapse(r) ==
  /\ reset[r].user # None
  /\ lapsed' = lapsed \cup {r}
  /\ UNCHANGED <<credentials, active, reset, uses, clock, pc, req, draft, locks>>

\* Administrators suspend users and make them ACTIVE again.
Administer(u) ==
  /\ active' \in {active \cup {u}, active \ {u}}
  /\ UNCHANGED <<credentials, tokens, clock, pc, req, draft, locks>>

Step(p) ==
  \/ ReadCredential(p)
  \/ Verify(p)
  \/ CountFailure(p)
  \/ LockAtThreshold(p)
  \/ ClearFailures(p)
  \/ FindReset(p)
  \/ ConsumeReset(p)
  \/ UpdateCredential(p)
  \/ Commit(p)

Next ==
  \/ \E p \in Proc : StartLogin(p) \/ StartReset(p) \/ Step(p) \/ Fail(p) \/ Retry(p)
  \/ \E u \in User : RequestReset(u) \/ Administer(u)
  \/ \E r \in ResetToken : Lapse(r)
  \/ Tick

Spec == Init /\ [][Next]_vars
-----------------------------------------------------------------------------
\* What a request knows and holds at each of its statements.
RequestInv(p) ==
  LET r == req[p]
  IN /\ ~At(p, "idle") => r.password \in Password
     /\ pc[p] \in {"read", "verify", "count", "threshold", "clear"} =>
          r.user \in User /\ r.token = None
     /\ pc[p] \in {"verify", "count", "threshold", "clear"} => r.seen \in Seen
     /\ pc[p] \in {"find", "consume", "update"} =>
          r.token \in ResetToken
     /\ At(p, "find") => reset[r.token].user # None
     /\ \/ pc[p] \in {"consume", "update"}
        \/ At(p, "commit") /\ r.token # None
        => r.user = reset[r.token].user /\ r.user # None
     /\ At(p, "commit") => r.user \in User /\ draft[p] \in Credential
     /\ \/ pc[p] \in {"count", "threshold", "clear"}
        \/ At(p, "commit") /\ r.token = None
        => r.seen \in Seen /\ ~Locked(p)

LockedAsCounted(c) == c.lockedUntil # None <=> c.failedLoginCount >= Threshold

TransactionInv(p) ==
  LET u == req[p].user
      r == req[p].token
  IN /\ At(p, "threshold") =>
          /\ credLock[u] = p
          /\ draft[p] = [cred[u] EXCEPT !.failedLoginCount = @ + 1]
     /\ At(p, "commit") =>
          /\ credLock[u] = p
          /\ draft[p].failedLoginCount \in {0, cred[u].failedLoginCount + 1}
          /\ LockedAsCounted(draft[p])
     /\ At(p, "update") \/ (At(p, "commit") /\ r # None) =>
          resetLock[r] = p /\ ~reset[r].used

\* A lock is in force exactly while at least Threshold failures stand against
\* the account: a clearing clears both, and no failure is left unlocked.
LockFollowsCount == \A u \in User : LockedAsCounted(cred[u])

\* The counter counts every failure that committed since it was last cleared,
\* concurrent ones included: none is lost and none is counted twice.
EveryFailureCounts == \A u \in User : cred[u].failedLoginCount = failed[u]

\* A reset token changes the password at most once, and then it is used.
ResetTokenChangesPasswordOnce ==
  \A r \in ResetToken : uses[r] = IF reset[r].used THEN 1 ELSE 0

IInv ==
  /\ TypeOK
  /\ LockFollowsCount
  /\ EveryFailureCounts
  /\ ResetTokenChangesPasswordOnce
  /\ \A p \in Proc : RequestInv(p) /\ TransactionInv(p)

\* Concurrency buys few guesses: until the first lock can lapse, what stands
\* against an account exceeds the threshold by less than the requests in flight.
GuessesBounded ==
  clock < LockTime =>
    \A u \in User : failed[u] <= Threshold - 1 + Cardinality(Proc)

\* Sign-ins past their read that saw no lock on u: only these may still count.
Racing(u) ==
  {p \in Proc : /\ pc[p] \in {"verify", "count", "threshold", "clear", "commit"}
                /\ req[p].user = u
                /\ req[p].token = None
                /\ req[p].seen.lockedUntil = None}

\* What is stored, seen or about to be stored: no lock that lapses before
\* LockTime, and after a reset none at all.
Late(t) == t # None => t >= LockTime

PendingInv ==
  /\ \A u \in User : Late(cred[u].lockedUntil)
  /\ \A p \in Proc :
       LET passed == \/ pc[p] \in {"count", "threshold", "clear"}
                     \/ At(p, "commit") /\ req[p].token = None
       IN /\ At(p, "verify") \/ passed => Late(req[p].seen.lockedUntil)
          /\ passed => req[p].until >= LockTime
          /\ pc[p] \in {"threshold", "commit"} => Late(draft[p].lockedUntil)
          /\ At(p, "commit") /\ req[p].token # None => Cleared(draft[p])

\* Once the threshold is reached nobody joins the race, and each failure that
\* still counts leaves it.
RaceInv ==
  clock < LockTime =>
    \A u \in User :
      failed[u] >= Threshold =>
        failed[u] + Cardinality(Racing(u)) <= Threshold - 1 + Cardinality(Proc)

\* While a lock is in force no sign-in that began after it was set counts a
\* failure or clears the counter: what changes the credential then is a password
\* reset, or a sign-in that had read it before the lock was set.
LockHolds ==
  [][\A u \in User :
       /\ cred[u].lockedUntil # None /\ cred[u].lockedUntil > clock
       /\ cred'[u] # cred[u]
       => \E p \in Proc :
            /\ At(p, "commit")
            /\ req[p].user = u
            /\ \/ req[p].token # None
               \/ req[p].seen.lockedUntil # cred[u].lockedUntil]_vars
=============================================================================
