---------------------------- MODULE IdentityMerge ----------------------------
(***************************************************************************)
(* The jobs that merge split identities: a person who has a password       *)
(* account and, by another way in, a Google account of the same address.   *)
(* A job discovers the candidates, then merges them one by one: e-mail and *)
(* password move to the Google account, the password account is deleted    *)
(* and everything that hangs on it with it.  The FastAPI job checks and    *)
(* locks a candidate again in the transaction that merges it; the retained *)
(* Express job does not, and stops at its first error.                     *)
(*                                                                         *)
(* Around them sign-ins and administrators go on.  Every user here has a   *)
(* verified address (the unverified are Accounts').  A request's            *)
(* transaction is one action, but what it read before, on another          *)
(* connection or in an earlier statement, is kept and may be stale.        *)
(***************************************************************************)
EXTENDS Naturals, FiniteSets

CONSTANTS User, Email, Social, None,
          AddressOf,     \* AddressOf[s]: the address of the Google account s
          FastJob, ExpressJob,
          Proc,          \* sign-ins in flight
          Suspensions    \* bound: changes of status

Job == FastJob \cup ExpressJob

ASSUME MergeAssumption ==
  /\ AddressOf \in [Social -> Email]
  /\ None \notin User \cup Job /\ FastJob \cap ExpressJob = {}
  /\ Suspensions \in Nat
ASSUME SocialAssumption == IsFiniteSet(Social)

VARIABLES db,       \* the committed rows
          lock,     \* lock[u]: the job whose transaction holds u's rows
          job, audit, proc,
          changes

vars == <<db, lock, job, audit, proc, changes>>

\* absent: no row yet; gone: no row any more.
Status == {"ACTIVE", "SUSPENDED", "absent", "gone"}

Rows == [status: [User -> Status], email: [User -> Email \cup {None}],
         cred: [Email -> User \cup {None}], link: [Social -> User \cup {None}],
         live: SUBSET User]

Candidate == [email: Email, canonical: User, password: User, social: Social]

NoCandidate == [email |-> None, canonical |-> None, password |-> None, social |-> None]

JobState == [at: {"idle", "next", "lock", "lockCanonical", "merge", "done", "failed"},
             found: SUBSET Candidate, todo: SUBSET Candidate,
             current: Candidate \cup {NoCandidate}, merged: Nat, stale: Nat]

\* What a sign-in has read: the user of a password, or whom a new Google
\* account will be linked to.
ProcState == {q \in [at: {"idle", "issue", "attach", "create"}, user: User \cup {None},
                     email: Email \cup {None}, social: Social \cup {None}] :
                q.at \in {"issue", "attach"} => q.user \in User}

IdleProc == [at |-> "idle", user |-> None, email |-> None, social |-> None]

TypeOK ==
  /\ db \in Rows
  /\ lock \in [User -> Job \cup {None}]
  /\ job \in [Job -> JobState]
  /\ audit \subseteq [job: Job, candidate: Candidate]
  /\ proc \in [Proc -> ProcState]
  /\ changes \in 0 .. Suspensions

Exists(u) == db.status[u] \in {"ACTIVE", "SUSPENDED"}

\* Every address has a password account to begin with; no Google account has
\* signed in.
Init ==
  /\ \E owner \in [Email -> User] :
       /\ \A e, f \in Email : owner[e] = owner[f] => e = f
       /\ db = [status |-> [u \in User |-> IF \E e \in Email : owner[e] = u
                                           THEN "ACTIVE" ELSE "absent"],
                email  |-> [u \in User |-> IF \E e \in Email : owner[e] = u
                                           THEN CHOOSE e \in Email : owner[e] = u
                                           ELSE None],
                cred   |-> owner,
                link   |-> [s \in Social |-> None],
                live   |-> {}]
  /\ lock = [u \in User |-> None]
  /\ job = [j \in Job |-> [at |-> "idle", found |-> {}, todo |-> {},
                           current |-> NoCandidate, merged |-> 0, stale |-> 0]]
  /\ audit = {}
  /\ proc = [p \in Proc |-> IdleProc]
  /\ changes = 0
-----------------------------------------------------------------------------
(* The rows of a merge.                                                    *)

HasPassword(rows, u) == \E e \in Email : rows.cred[e] = u

\* _candidate_select and the query of the Express job.  The status of the
\* password account is not asked for.
IsCandidate(rows, c) ==
  /\ rows.cred[c.email] = c.password
  /\ AddressOf[c.social] = c.email /\ rows.link[c.social] = c.canonical
  /\ c.canonical # c.password
  /\ rows.status[c.canonical] = "ACTIVE"
  /\ ~HasPassword(rows, c.canonical)

Candidates == {c \in Candidate : IsCandidate(db, c)}

\* Mutant: the canonical user is not given the address.
MoveNoEmail(rows, c) ==
  [rows EXCEPT !.email = [rows.email EXCEPT ![c.password] = None]]

\* UPDATE "User" SET email = NULL, then the canonical user's.
MoveEmail(rows, c) ==
  [rows EXCEPT !.email = [rows.email EXCEPT ![c.password] = None, ![c.canonical] = c.email]]

MoveCredential(rows, c) ==
  [rows EXCEPT !.cred = [e \in Email |-> IF rows.cred[e] = c.password
                                         THEN c.canonical ELSE rows.cred[e]]]

\* DELETE FROM "User" with the schema's ON DELETE CASCADE.
DeleteUser(rows, u) ==
  [status |-> [rows.status EXCEPT ![u] = "gone"],
   email  |-> [rows.email EXCEPT ![u] = None],
   cred   |-> [e \in Email |-> IF rows.cred[e] = u THEN None ELSE rows.cred[e]],
   link   |-> [s \in Social |-> IF rows.link[s] = u THEN None ELSE rows.link[s]],
   live   |-> rows.live \ {u}]

\* Mutant: the account is deleted before its password has moved.
DeleteFirst(rows, c) == MoveCredential(DeleteUser(MoveEmail(rows, c), c.password), c)

Merge(rows, c) == DeleteUser(MoveCredential(MoveEmail(rows, c), c), c.password)

Release(j) == lock' = [u \in User |-> IF lock[u] = j THEN None ELSE lock[u]]
-----------------------------------------------------------------------------
(* The jobs.                                                               *)

Discover(j) ==
  /\ job[j].at \in {"idle", "done", "failed"}
  /\ job' = [job EXCEPT ![j].at = "next", ![j].found = Candidates, ![j].todo = Candidates,
                        ![j].merged = 0, ![j].stale = 0]
  /\ audit' = {a \in audit : a.job # j}   \* kept: those of the job's last run
  /\ UNCHANGED <<db, lock, proc, changes>>

\* Candidates come by address; those of one address in any order.
Take(j) ==
  /\ job[j].at = "next"
  /\ \E c \in job[j].todo :
       job' = [job EXCEPT ![j].at = "lock", ![j].todo = @ \ {c}, ![j].current = c]
  /\ UNCHANGED <<db, lock, audit, proc, changes>>

Report(j) ==
  /\ job[j].at = "next"
  /\ job[j].todo = {}
  /\ job' = [job EXCEPT ![j].at = "done"]
  /\ UNCHANGED <<db, lock, audit, proc, changes>>

Free(u) == lock[u] = None

\* Mutant: the canonical user's row is left out of FOR UPDATE OF.
LockPasswordOnly(j) ==
  /\ j \in FastJob /\ job[j].at = "lock"
  /\ LET c == job[j].current
     IN /\ Free(c.password)
        /\ IsCandidate(db, c)
        /\ lock' = [lock EXCEPT ![c.password] = j]
  /\ job' = [job EXCEPT ![j].at = "merge"]
  /\ UNCHANGED <<db, audit, proc, changes>>

\* The candidate again, FOR UPDATE of all its rows.  SERIALIZABLE: a row that
\* changed while the statement waited is an error and a new attempt, so what
\* it finds is what is committed when it has the locks.
LockCandidate(j) ==
  /\ j \in FastJob /\ job[j].at = "lock"
  /\ LET c == job[j].current
     IN /\ Free(c.canonical) /\ Free(c.password)
        /\ IsCandidate(db, c)
        /\ lock' = [lock EXCEPT ![c.canonical] = j, ![c.password] = j]
  /\ job' = [job EXCEPT ![j].at = "merge"]
  /\ UNCHANGED <<db, audit, proc, changes>>

\* Mutant: candidates are reported merged whatever became of them.
StaleCountsAsMerged(j) ==
  /\ j \in FastJob /\ job[j].at = "lock"
  /\ ~IsCandidate(db, job[j].current)
  /\ job' = [job EXCEPT ![j].at = "next", ![j].merged = @ + 1]
  /\ UNCHANGED <<db, lock, audit, proc, changes>>

StaleCandidate(j) ==
  /\ j \in FastJob /\ job[j].at = "lock"
  /\ ~IsCandidate(db, job[j].current)
  /\ job' = [job EXCEPT ![j].at = "next", ![j].stale = @ + 1]
  /\ UNCHANGED <<db, lock, audit, proc, changes>>

\* A transaction that ran into a conflict begins again.
RetryMerge(j) ==
  /\ j \in FastJob /\ job[j].at = "merge"
  /\ job' = [job EXCEPT ![j].at = "lock"]
  /\ Release(j)
  /\ UNCHANGED <<db, audit, proc, changes>>

\* Express updates the password user, then the canonical one.
UpdatePasswordUser(j) ==
  /\ j \in ExpressJob /\ job[j].at = "lock"
  /\ LET u == job[j].current.password
     IN Free(u) /\ Exists(u) /\ lock' = [lock EXCEPT ![u] = j]
  /\ job' = [job EXCEPT ![j].at = "lockCanonical"]
  /\ UNCHANGED <<db, audit, proc, changes>>

UpdateCanonicalUser(j) ==
  /\ j \in ExpressJob /\ job[j].at = "lockCanonical"
  /\ LET u == job[j].current.canonical
     IN Free(u) /\ Exists(u) /\ lock' = [lock EXCEPT ![u] = j]
  /\ job' = [job EXCEPT ![j].at = "merge"]
  /\ UNCHANGED <<db, audit, proc, changes>>

\* The remaining statements and the commit.  The password user's credential
\* must be there and the canonical user have none.
CommitRows(j) ==
  /\ job[j].at = "merge"
  /\ LET c == job[j].current
     IN /\ HasPassword(db, c.password) /\ ~HasPassword(db, c.canonical)
        /\ db' = Merge(db, c)
        /\ audit' = audit \cup {[job |-> j, candidate |-> c]}
  /\ Release(j)
  /\ UNCHANGED <<proc, changes>>

CommitMerge(j) ==
  /\ CommitRows(j)
  /\ job' = [job EXCEPT ![j].at = "next", ![j].merged = @ + 1]

\* The commit happened and the job never hears of it.
CommitLost(j) ==
  /\ CommitRows(j)
  /\ job' = [job EXCEPT ![j].at = "failed"]

Fails(j) ==
  /\ job' = [job EXCEPT ![j].at = "failed"]
  /\ Release(j)
  /\ UNCHANGED <<db, audit, proc, changes>>

\* Express: a user is gone, or the credential is not where it was.  The error
\* ends the job; what it has merged stays merged.
MissingRow(j) ==
  /\ j \in ExpressJob
  /\ LET c == job[j].current
     IN \/ job[j].at = "lock" /\ ~Exists(c.password)
        \/ job[j].at = "lockCanonical" /\ ~Exists(c.canonical)
        \/ job[j].at = "merge" /\ ~(HasPassword(db, c.password) /\ ~HasPassword(db, c.canonical))
  /\ Fails(j)

\* A lost connection.
FailJob(j) ==
  /\ job[j].at \in {"lock", "lockCanonical", "merge"}
  /\ Fails(j)
-----------------------------------------------------------------------------
(* What goes on meanwhile.                                                 *)

SetStatus(u) ==
  /\ changes < Suspensions
  /\ Exists(u) /\ Free(u)
  /\ db' = [db EXCEPT !.status = [db.status EXCEPT
              ![u] = IF db.status[u] = "ACTIVE" THEN "SUSPENDED" ELSE "ACTIVE"],
                      !.live = IF db.status[u] = "ACTIVE" THEN @ \ {u} ELSE @]
  /\ changes' = changes + 1
  /\ UNCHANGED <<lock, job, audit, proc>>

\* The credential is read and its password verified.
VerifyPassword(p, e) ==
  /\ proc[p].at = "idle"
  /\ db.cred[e] # None
  /\ proc' = [proc EXCEPT ![p] = [IdleProc EXCEPT !.at = "issue", !.user = db.cred[e]]]
  /\ UNCHANGED <<db, lock, job, audit, changes>>

\* find_by_provider_id.
FindSocial(p, s) ==
  /\ proc[p].at = "idle"
  /\ db.link[s] # None
  /\ proc' = [proc EXCEPT ![p] = [IdleProc EXCEPT !.at = "issue", !.user = db.link[s]]]
  /\ UNCHANGED <<db, lock, job, audit, changes>>

Owner(e) == {u \in User : db.email[u] = e}

\* resolve_or_create: an active owner of the address is linked, else an
\* account is created, without the address if somebody has it.
ReadOwner(p, s) ==
  /\ proc[p].at = "idle"
  /\ db.link[s] = None
  /\ LET e == AddressOf[s]
         active == {u \in Owner(e) : db.status[u] = "ACTIVE"}
     IN proc' = [proc EXCEPT ![p] =
          IF active # {}
          THEN [at |-> "attach", user |-> CHOOSE u \in active : TRUE, email |-> e,
                social |-> s]
          ELSE [at |-> "create", user |-> None,
                email |-> IF Owner(e) = {} THEN e ELSE None, social |-> s]]
  /\ UNCHANGED <<db, lock, job, audit, changes>>

Done(p) == proc' = [proc EXCEPT ![p] = IdleProc]

\* The foreign key waits for a job that holds the user.
Attach(p) ==
  /\ proc[p].at = "attach"
  /\ Free(proc[p].user) /\ Exists(proc[p].user) /\ db.link[proc[p].social] = None
  /\ db' = [db EXCEPT !.link = [db.link EXCEPT ![proc[p].social] = proc[p].user]]
  /\ proc' = [proc EXCEPT ![p] = [IdleProc EXCEPT !.at = "issue", !.user = proc[p].user]]
  /\ UNCHANGED <<lock, job, audit, changes>>

Create(p) ==
  /\ proc[p].at = "create"
  /\ db.link[proc[p].social] = None
  /\ proc[p].email = None \/ Owner(proc[p].email) = {}
  /\ \E u \in User :
       /\ db.status[u] = "absent"
       /\ db' = [db EXCEPT !.status = [db.status EXCEPT ![u] = "ACTIVE"],
                           !.email = [db.email EXCEPT ![u] = proc[p].email],
                           !.link = [db.link EXCEPT ![proc[p].social] = u]]
       /\ proc' = [proc EXCEPT ![p] = [IdleProc EXCEPT !.at = "issue", !.user = u]]
  /\ UNCHANGED <<lock, job, audit, changes>>

\* _lock_active_user and the refresh token.
Issue(p) ==
  /\ proc[p].at = "issue"
  /\ Free(proc[p].user) /\ db.status[proc[p].user] = "ACTIVE"
  /\ db' = [db EXCEPT !.live = @ \cup {proc[p].user}]
  /\ Done(p)
  /\ UNCHANGED <<lock, job, audit, changes>>

\* No such user any more, a unique or foreign key violation, a lost connection.
Refuse(p) ==
  /\ proc[p].at # "idle"
  /\ Done(p)
  /\ UNCHANGED <<db, lock, job, audit, changes>>
-----------------------------------------------------------------------------
JobStep(j) ==
  \/ Take(j) \/ Report(j)
  \/ LockCandidate(j) \/ StaleCandidate(j)
  \/ UpdatePasswordUser(j) \/ UpdateCanonicalUser(j)
  \/ CommitMerge(j) \/ MissingRow(j)

SignIn(p) ==
  \/ \E e \in Email : VerifyPassword(p, e)
  \/ \E s \in Social : FindSocial(p, s) \/ ReadOwner(p, s)
  \/ Attach(p) \/ Create(p) \/ Issue(p) \/ Refuse(p)

Next ==
  \/ \E j \in Job : Discover(j) \/ JobStep(j) \/ RetryMerge(j) \/ CommitLost(j) \/ FailJob(j)
  \/ \E u \in User : SetStatus(u)
  \/ \E p \in Proc : SignIn(p)

Spec == Init /\ [][Next]_vars
-----------------------------------------------------------------------------
\* A transaction about to commit holds both users, and a lock is let go with
\* the transaction.
LocksInv ==
  /\ \A j \in Job : job[j].at = "merge" =>
       lock[job[j].current.canonical] = j /\ lock[job[j].current.password] = j
  /\ \A u \in User : lock[u] # None =>
       job[lock[u]].at \in {"lockCanonical", "merge"}

\* Foreign keys: whatever hangs on a user goes with the user.
RowsInv ==
  /\ \A s \in Social : db.link[s] # None => Exists(db.link[s])
  /\ \A u \in db.live : Exists(u)

IInv == TypeOK /\ LocksInv /\ RowsInv

\* "A stale discovery result cannot be mutated": the FastAPI job merges only
\* what is a candidate at its commit, whatever administrators, sign-ins and
\* other jobs did since the discovery.
StaleNeverMerged ==
  [][\A j \in FastJob : CommitRows(j) => IsCandidate(db, job[j].current)]_vars

\* No merge loses a password: the credential moves before its owner is deleted.
PasswordsSurvive == [][\A e \in Email : db.cred[e] # None => db'.cred[e] # None]_vars

\* The password of an address is its owner's, after any merges of merged
\* accounts and any race of two jobs.
PasswordWithItsAddress ==
  \A e \in Email : db.cred[e] # None => Exists(db.cred[e]) /\ db.email[db.cred[e]] = e

\* What a job that ends prints is what it committed and audited, and every
\* candidate it found is accounted for.
ReportsCommits ==
  \A j \in Job : job[j].at = "done" =>
    /\ job[j].merged = Cardinality({a \in audit : a.job = j})
    /\ job[j].merged + job[j].stale = Cardinality(job[j].found)
=============================================================================
