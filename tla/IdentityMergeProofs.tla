------------------------ MODULE IdentityMergeProofs ------------------------
(***************************************************************************)
(* Proofs about IdentityMerge: however many jobs, of either server, merge  *)
(* at once among sign-ins and suspensions, no password is lost or parted   *)
(* from its address, the FastAPI job merges only what is a candidate at    *)
(* its commit, and each job reports what it committed.                     *)
(*                                                                         *)
(* A candidate a job has discovered and not yet merged may be stale, but   *)
(* not anyhow: its password is still where it was found, or the account    *)
(* is gone for good (Known).  The locks of a merge about to commit keep    *)
(* everything true that was tested when they were taken.                   *)
(***************************************************************************)
EXTENDS IdentityMerge, FiniteSetTheorems, TLAPS

Working == {"lock", "lockCanonical", "merge"}

Known(c) == db.cred[c.email] = c.password \/ db.status[c.password] = "gone"

JobInv(j) ==
  /\ job[j].at \in Working => job[j].current \in Candidate /\ Known(job[j].current)
  /\ job[j].at = "lockCanonical" => lock[job[j].current.password] = j
  /\ job[j].at = "merge" =>
       /\ lock[job[j].current.canonical] = j
       /\ lock[job[j].current.password] = j
       /\ Exists(job[j].current.canonical)
       /\ j \in FastJob => IsCandidate(db, job[j].current)
  /\ \A c \in job[j].todo : Known(c)

\* A lock is held by a job in the middle of a merge.
HeldInv ==
  \A u \in User : lock[u] # None => job[lock[u]].at \in {"lockCanonical", "merge"}

MergeInv ==
  /\ TypeOK
  /\ RowsInv
  /\ PasswordWithItsAddress
  /\ HeldInv
  /\ \A j \in Job : JobInv(j)

LEMMA ImpliesIInv == MergeInv => IInv
<1> SUFFICES ASSUME MergeInv PROVE IInv
  OBVIOUS
<1>1. LocksInv
  BY DEF MergeInv, JobInv, HeldInv, LocksInv
<1>2. QED
  BY <1>1 DEF MergeInv, IInv
-----------------------------------------------------------------------------
(* Steps that leave the rows alone.                                        *)

\* A step of job j takes or lets go locks of its own only.
LockStep(j) ==
  \A u \in User : \/ lock'[u] = lock[u]
                  \/ lock[u] = None /\ lock'[u] = j
                  \/ lock[u] = j /\ lock'[u] = None

LEMMA JobLemma ==
  ASSUME MergeInv, TypeOK', db' = db, NEW j \in Job, LockStep(j),
         \A k \in Job \ {j} : job'[k] = job[k], JobInv(j)',
         \A u \in User : lock'[u] = j => job'[j].at \in {"lockCanonical", "merge"}
  PROVE  MergeInv'
<1>1. RowsInv' /\ PasswordWithItsAddress'
  BY DEF MergeInv, RowsInv, PasswordWithItsAddress, Exists
<1>2. ASSUME NEW u \in User, lock'[u] # None
      PROVE  job'[lock'[u]].at \in {"lockCanonical", "merge"}
  <2>1. lock[u] \in Job \cup {None} /\ lock'[u] \in Job \cup {None}
    BY DEF MergeInv, TypeOK
  <2>2. CASE lock'[u] = j
    BY <2>2
  <2>3. CASE lock'[u] # j
    <3>1. lock'[u] = lock[u] /\ lock[u] \in Job \ {j}
      BY <1>2, <2>1, <2>3 DEF LockStep
    <3>2. QED
      BY <1>2, <3>1 DEF MergeInv, HeldInv
  <2>4. QED
    BY <2>2, <2>3
<1>3. ASSUME NEW k \in Job, k # j PROVE JobInv(k)'
  <2>1. JobInv(k) /\ job'[k] = job[k] /\ k # None
    BY <1>3, MergeAssumption DEF MergeInv
  <2>2. \A u \in User : lock[u] = k => lock'[u] = k
    BY <1>3, <2>1 DEF LockStep
  <2>3. job[k].at \in Working =>
          job[k].current.password \in User /\ job[k].current.canonical \in User
    BY <2>1 DEF JobInv, Candidate
  <2>4. QED
    BY <2>1, <2>2, <2>3 DEF JobInv, Known, Working, Exists, IsCandidate, HasPassword
<1>4. QED
  BY <1>1, <1>2, <1>3 DEF MergeInv, HeldInv

\* The state a job goes to, and that it changes nobody else's.
LEMMA JobStateLemma ==
  ASSUME TypeOK, NEW j \in Job
  PROVE  /\ job[j] \in JobState
         /\ \A a \in {"idle", "next", "lock", "lockCanonical", "merge", "done", "failed"} :
              LET r == [job[j] EXCEPT !.at = a]
              IN r \in JobState /\ r.at = a /\ r.todo = job[j].todo
                 /\ r.current = job[j].current
  BY DEF TypeOK, JobState

LEMMA ReleaseLemma ==
  ASSUME TypeOK, NEW j \in Job, Release(j)
  PROVE  /\ lock' \in [User -> Job \cup {None}]
         /\ LockStep(j)
         /\ \A u \in User : lock'[u] # j
         /\ \A u \in User, k \in Job \ {j} : lock[u] = k => lock'[u] = k
  BY MergeAssumption DEF TypeOK, Release, LockStep

LEMMA DiscoverLemma ==
  ASSUME MergeInv, NEW j \in Job, Discover(j)
  PROVE  MergeInv'
<1> DEFINE r == [job[j] EXCEPT !.at = "next", !.found = Candidates, !.todo = Candidates,
                               !.merged = 0, !.stale = 0]
<1>1. TypeOK /\ job[j] \in JobState
  BY JobStateLemma DEF MergeInv
<1>2. Candidates \subseteq Candidate
  BY DEF Candidates
<1>3. r \in JobState /\ r.at = "next" /\ r.todo = Candidates
  BY <1>1, <1>2 DEF JobState
<1>4. job' = [job EXCEPT ![j] = r]
  BY <1>1 DEF Discover, TypeOK
<1> HIDE DEF r
<1>5. /\ job' \in [Job -> JobState] /\ job'[j] = r
      /\ \A k \in Job \ {j} : job'[k] = job[k]
  BY <1>1, <1>3, <1>4 DEF TypeOK
<1>6. UNCHANGED <<db, lock, proc, changes>> /\ audit' \subseteq audit
  BY DEF Discover
<1>7. TypeOK'
  BY <1>1, <1>5, <1>6 DEF TypeOK
<1>8. \A u \in User : lock[u] # j
  BY MergeAssumption DEF MergeInv, HeldInv, Discover
<1>9. JobInv(j)'
  <2>1. \A c \in Candidates : Known(c)
    BY DEF Candidates, IsCandidate, Known
  <2>2. QED
    BY <1>3, <1>5, <1>6, <2>1 DEF JobInv, Known, Working
<1>10. QED
  BY <1>5, <1>6, <1>7, <1>8, <1>9, JobLemma DEF LockStep

LEMMA TakeLemma ==
  ASSUME MergeInv, NEW j \in Job, Take(j)
  PROVE  MergeInv'
<1>1. PICK c \in job[j].todo :
        job' = [job EXCEPT ![j].at = "lock", ![j].todo = @ \ {c}, ![j].current = c]
  BY DEF Take
<1> DEFINE r == [job[j] EXCEPT !.at = "lock", !.todo = @ \ {c}, !.current = c]
<1>2. TypeOK /\ job[j] \in JobState
  BY JobStateLemma DEF MergeInv
<1>3. /\ r \in JobState /\ r.at = "lock" /\ r.todo = job[j].todo \ {c}
      /\ r.current = c /\ c \in Candidate
  BY <1>2 DEF JobState
<1>4. job' = [job EXCEPT ![j] = r]
  BY <1>1, <1>2 DEF TypeOK
<1> HIDE DEF r
<1>5. /\ job' \in [Job -> JobState] /\ job'[j] = r
      /\ \A k \in Job \ {j} : job'[k] = job[k]
  BY <1>2, <1>3, <1>4 DEF TypeOK
<1>6. UNCHANGED <<db, lock, audit, proc, changes>> /\ job[j].at = "next"
  BY DEF Take
<1>7. TypeOK'
  BY <1>2, <1>5, <1>6 DEF TypeOK
<1>8. \A u \in User : lock[u] # j
  BY <1>6, MergeAssumption DEF MergeInv, HeldInv
<1>9. JobInv(j)'
  <2>1. \A d \in job[j].todo : Known(d)
    BY DEF MergeInv, JobInv
  <2>2. QED
    BY <1>3, <1>5, <1>6, <2>1 DEF JobInv, Known, Working
<1>10. QED
  BY <1>5, <1>6, <1>7, <1>8, <1>9, JobLemma DEF LockStep

\* A job that ends, or goes on to its next candidate, holds nothing.
LEMMA LetGoLemma ==
  ASSUME MergeInv, NEW j \in Job, TypeOK', db' = db,
         job'[j].at \notin Working \/ (job[j].at = "merge" /\ job'[j].at = "lock"),
         job'[j].todo = job[j].todo, job'[j].current = job[j].current,
         \A k \in Job \ {j} : job'[k] = job[k],
         Release(j) \/ (lock' = lock /\ \A u \in User : lock[u] # j)
  PROVE  MergeInv'
<1>1. LockStep(j) /\ \A u \in User : lock'[u] # j
  BY ReleaseLemma DEF LockStep, MergeInv
<1>2. JobInv(j)'
  BY DEF MergeInv, JobInv, Known, Working
<1>3. QED
  BY <1>1, <1>2, JobLemma

LEMMA EndLemma ==
  ASSUME MergeInv, NEW j \in Job,
         Report(j) \/ StaleCandidate(j) \/ RetryMerge(j) \/ (Fails(j) /\ job[j].at \in Working)
  PROVE  MergeInv'
<1>1. TypeOK /\ job[j] \in JobState
  BY JobStateLemma DEF MergeInv
<1>2. CASE Report(j) \/ RetryMerge(j) \/ Fails(j)
  <2>1. PICK a \in {"done", "lock", "failed"} :
          /\ job' = [job EXCEPT ![j].at = a]
          /\ a = "lock" => job[j].at = "merge"
    BY <1>2 DEF Report, RetryMerge, Fails
  <2> DEFINE r == [job[j] EXCEPT !.at = a]
  <2>2. /\ r \in JobState /\ r.at = a /\ r.todo = job[j].todo
        /\ r.current = job[j].current
    <3>1. a \in {"done", "lock", "failed"}
      BY <2>1
    <3>2. QED
      BY <1>1, <3>1 DEF JobState
  <2>3. job' = [job EXCEPT ![j] = r]
    BY <1>1, <2>1 DEF TypeOK
  <2> HIDE DEF r
  <2>4. /\ job' \in [Job -> JobState] /\ job'[j] = r
        /\ \A k \in Job \ {j} : job'[k] = job[k]
    BY <1>1, <2>2, <2>3 DEF TypeOK
  <2>5. UNCHANGED <<db, audit, proc, changes>>
    BY <1>2 DEF Report, RetryMerge, Fails
  <2>6. Release(j) \/ (lock' = lock /\ \A u \in User : lock[u] # j)
    BY <1>2, MergeAssumption DEF Report, RetryMerge, Fails, MergeInv, HeldInv
  <2>7. TypeOK'
    BY <1>1, <2>4, <2>5, <2>6, ReleaseLemma DEF TypeOK
  <2>8. QED
    BY <2>1, <2>2, <2>4, <2>5, <2>6, <2>7, LetGoLemma DEF Working
<1>3. CASE StaleCandidate(j)
  <2> DEFINE r == [job[j] EXCEPT !.at = "next", !.stale = @ + 1]
  <2>1. /\ r \in JobState /\ r.at = "next" /\ r.todo = job[j].todo
        /\ r.current = job[j].current
    <3>1. job[j].stale + 1 \in Nat
      BY <1>1 DEF JobState
    <3>2. QED
      BY <1>1, <3>1 DEF JobState
  <2>2. job' = [job EXCEPT ![j] = r]
    BY <1>1, <1>3 DEF TypeOK, StaleCandidate
  <2> HIDE DEF r
  <2>3. /\ job' \in [Job -> JobState] /\ job'[j] = r
        /\ \A k \in Job \ {j} : job'[k] = job[k]
    BY <1>1, <2>1, <2>2 DEF TypeOK
  <2>4. UNCHANGED <<db, lock, audit, proc, changes>>
    BY <1>3 DEF StaleCandidate
  <2>5. TypeOK'
    BY <1>1, <2>3, <2>4 DEF TypeOK
  <2>6. \A u \in User : lock[u] # j
    BY <1>3, MergeAssumption DEF StaleCandidate, MergeInv, HeldInv
  <2>7. QED
    BY <2>1, <2>3, <2>4, <2>5, <2>6, LetGoLemma DEF Working
<1>4. QED
  BY <1>2, <1>3

\* What a job tests when it takes a lock, it may rely on while it holds it.
LEMMA LockLemma ==
  ASSUME MergeInv, NEW j \in Job,
         LockCandidate(j) \/ UpdatePasswordUser(j) \/ UpdateCanonicalUser(j)
  PROVE  MergeInv'
<1> DEFINE c == job[j].current
           a == IF UpdatePasswordUser(j) THEN "lockCanonical" ELSE "merge"
           r == [job[j] EXCEPT !.at = a]
<1>1. TypeOK /\ job[j] \in JobState /\ JobInv(j)
  BY JobStateLemma DEF MergeInv
<1>2. /\ c \in Candidate /\ Known(c)
      /\ c.canonical \in User /\ c.password \in User
  BY <1>1 DEF JobInv, Working, LockCandidate, UpdatePasswordUser, UpdateCanonicalUser,
              Candidate
<1>3. job' = [job EXCEPT ![j] = r]
  BY <1>1 DEF TypeOK, LockCandidate, UpdatePasswordUser, UpdateCanonicalUser
<1>4. /\ r \in JobState /\ r.at = a /\ r.todo = job[j].todo /\ r.current = c
      /\ a \in {"lockCanonical", "merge"}
  <2>1. a \in {"lockCanonical", "merge"}
    OBVIOUS
  <2> HIDE DEF a
  <2>2. QED
    BY <1>1, <2>1 DEF JobState
<1>5. /\ job' \in [Job -> JobState] /\ job'[j] = r
      /\ \A k \in Job \ {j} : job'[k] = job[k]
  <2> HIDE DEF r
  <2>1. QED
    BY <1>1, <1>3, <1>4 DEF TypeOK
<1>6. UNCHANGED <<db, audit, proc, changes>>
  BY DEF LockCandidate, UpdatePasswordUser, UpdateCanonicalUser
<1>7. /\ lock' \in [User -> Job \cup {None}]
      /\ LockStep(j)
  BY <1>1, <1>2 DEF LockCandidate, UpdatePasswordUser, UpdateCanonicalUser, TypeOK,
                    LockStep, Free
<1>8. TypeOK'
  BY <1>1, <1>5, <1>6, <1>7 DEF TypeOK
<1>9. JobInv(j)'
  <2>1. /\ Known(c)' /\ \A d \in job'[j].todo : Known(d)'
        /\ job'[j].current = c /\ c \in Candidate
    BY <1>1, <1>2, <1>4, <1>5, <1>6 DEF JobInv, Known
  <2>2. CASE UpdatePasswordUser(j)
    <3>1. job'[j].at = "lockCanonical" /\ lock'[c.password] = j
      BY <1>1, <1>2, <1>4, <1>5, <2>2 DEF UpdatePasswordUser, TypeOK
    <3>2. QED
      BY <2>1, <3>1 DEF JobInv, Working
  <2>3. CASE ~UpdatePasswordUser(j) /\ LockCandidate(j)
    <3>1. job'[j].at = "merge"
      BY <1>4, <1>5, <2>3
    <3>2. lock'[c.password] = j /\ lock'[c.canonical] = j
      BY <1>1, <1>2, <2>3 DEF LockCandidate, TypeOK
    <3>3. IsCandidate(db, c)' /\ Exists(c.canonical)'
      BY <1>6, <2>3 DEF LockCandidate, IsCandidate, HasPassword, Exists
    <3>4. QED
      BY <2>1, <3>1, <3>2, <3>3 DEF JobInv, Working
  <2>4. CASE ~UpdatePasswordUser(j) /\ UpdateCanonicalUser(j)
    <3>1. job'[j].at = "merge"
      BY <1>4, <1>5, <2>4
    <3>2. lock'[c.password] = j /\ lock'[c.canonical] = j
      BY <1>1, <1>2, <2>4 DEF UpdateCanonicalUser, TypeOK, JobInv
    <3>3. j \notin FastJob /\ Exists(c.canonical)'
      BY <1>6, <2>4, MergeAssumption DEF UpdateCanonicalUser, Exists
    <3>4. QED
      BY <2>1, <3>1, <3>2, <3>3 DEF JobInv, Working
  <2>5. QED
    BY <2>2, <2>3, <2>4
<1>10. job'[j].at \in {"lockCanonical", "merge"}
  BY <1>4, <1>5
<1>11. QED
  BY <1>5, <1>6, <1>7, <1>8, <1>9, <1>10, JobLemma
-----------------------------------------------------------------------------
(* The commit of a merge.                                                  *)

\* Row by row, what a merge of two different users does.
LEMMA MergeRowsLemma ==
  ASSUME NEW rows \in Rows, NEW c \in Candidate, c.canonical # c.password
  PROVE  /\ Merge(rows, c) \in Rows
         /\ \A u \in User :
              /\ Merge(rows, c).status[u] =
                   IF u = c.password THEN "gone" ELSE rows.status[u]
              /\ Merge(rows, c).email[u] =
                   IF u = c.password THEN None
                   ELSE IF u = c.canonical THEN c.email ELSE rows.email[u]
         /\ \A e \in Email : Merge(rows, c).cred[e] =
              IF rows.cred[e] = c.password THEN c.canonical ELSE rows.cred[e]
         /\ \A s \in Social : Merge(rows, c).link[s] =
              IF rows.link[s] = c.password THEN None ELSE rows.link[s]
         /\ Merge(rows, c).live = rows.live \ {c.password}
<1> DEFINE moved == MoveEmail(rows, c)
           given == MoveCredential(moved, c)
<1>1. c.email \in Email /\ c.canonical \in User /\ c.password \in User
  BY DEF Candidate
<1>2. /\ moved \in Rows
      /\ moved.status = rows.status /\ moved.cred = rows.cred
      /\ moved.link = rows.link /\ moved.live = rows.live
      /\ moved.email = [rows.email EXCEPT ![c.password] = None, ![c.canonical] = c.email]
  BY <1>1 DEF MoveEmail, Rows
<1> HIDE DEF moved
<1>3. /\ given \in Rows
      /\ given.status = rows.status /\ given.email = moved.email
      /\ given.link = rows.link /\ given.live = rows.live
      /\ given.cred = [e \in Email |-> IF rows.cred[e] = c.password
                                       THEN c.canonical ELSE rows.cred[e]]
  BY <1>1, <1>2 DEF MoveCredential, Rows
<1> HIDE DEF given
<1>4. Merge(rows, c) = DeleteUser(given, c.password)
  BY DEF Merge, given, moved
<1>5. /\ Merge(rows, c) \in Rows
      /\ Merge(rows, c).status = [given.status EXCEPT ![c.password] = "gone"]
      /\ Merge(rows, c).email = [given.email EXCEPT ![c.password] = None]
      /\ Merge(rows, c).cred = [e \in Email |-> IF given.cred[e] = c.password
                                                THEN None ELSE given.cred[e]]
      /\ Merge(rows, c).link = [s \in Social |-> IF given.link[s] = c.password
                                                THEN None ELSE given.link[s]]
      /\ Merge(rows, c).live = given.live \ {c.password}
  BY <1>1, <1>3, <1>4 DEF DeleteUser, Rows, Status
<1>6. rows.status \in [User -> Status] /\ rows.email \in [User -> Email \cup {None}]
  BY DEF Rows
<1>7. QED
  BY <1>1, <1>2, <1>3, <1>5, <1>6

\* What the merge that j commits finds.
LEMMA AtCommitLemma ==
  ASSUME MergeInv, NEW j \in Job, CommitRows(j)
  PROVE  LET c == job[j].current
         IN /\ c \in Candidate /\ c.canonical # c.password
            /\ Exists(c.canonical)
            /\ \A e \in Email : db.cred[e] # c.canonical
            /\ \A e \in Email : db.cred[e] = c.password => e = c.email
            /\ lock[c.canonical] = j /\ lock[c.password] = j
            /\ db' = Merge(db, c)
<1> DEFINE c == job[j].current
<1>1. JobInv(j) /\ job[j].at = "merge" /\ PasswordWithItsAddress
  BY DEF MergeInv, CommitRows
<1>2. /\ c \in Candidate /\ Known(c) /\ Exists(c.canonical)
      /\ lock[c.canonical] = j /\ lock[c.password] = j
      /\ c.password \in User /\ c.canonical \in User
  BY <1>1 DEF JobInv, Working, Candidate
<1>3. HasPassword(db, c.password) /\ ~HasPassword(db, c.canonical) /\ db' = Merge(db, c)
  BY DEF CommitRows
<1>4. PICK d \in Email : db.cred[d] = c.password
  BY <1>3 DEF HasPassword
<1>5. Exists(c.password)
  BY <1>1, <1>2, <1>4, MergeAssumption DEF PasswordWithItsAddress
<1>6. c.email \in Email /\ db.cred[c.email] = c.password
  BY <1>2, <1>5 DEF Known, Exists, Candidate
<1>7. \A e \in Email : db.cred[e] = c.password => e = c.email
  <2>1. \A e \in Email : db.cred[e] = c.password => db.email[c.password] = e
    BY <1>1, <1>2, MergeAssumption DEF PasswordWithItsAddress
  <2>2. QED
    BY <1>6, <2>1
<1>8. QED
  BY <1>2, <1>3, <1>7 DEF HasPassword

LEMMA CommitLemma ==
  ASSUME MergeInv, NEW j \in Job, CommitRows(j),
         job' \in [Job -> JobState], \A k \in Job \ {j} : job'[k] = job[k],
         job'[j].at \notin Working, job'[j].todo = job[j].todo
  PROVE  MergeInv'
<1> SUFFICES ASSUME NEW c, c = job[j].current PROVE MergeInv'
  OBVIOUS
<1>1. TypeOK /\ db \in Rows
  BY DEF MergeInv, TypeOK
<1>2. /\ c \in Candidate /\ c.canonical # c.password /\ Exists(c.canonical)
      /\ \A e \in Email : db.cred[e] # c.canonical
      /\ \A e \in Email : db.cred[e] = c.password => e = c.email
      /\ lock[c.canonical] = j /\ lock[c.password] = j
      /\ c.canonical \in User /\ c.password \in User
  BY AtCommitLemma DEF Candidate
<1>3. /\ db' \in Rows
      /\ \A u \in User :
           /\ db'.status[u] = IF u = c.password THEN "gone" ELSE db.status[u]
           /\ db'.email[u] = IF u = c.password THEN None
                             ELSE IF u = c.canonical THEN c.email ELSE db.email[u]
      /\ \A e \in Email : db'.cred[e] = IF db.cred[e] = c.password THEN c.canonical
                                         ELSE db.cred[e]
      /\ \A s \in Social : db'.link[s] = IF db.link[s] = c.password THEN None
                                          ELSE db.link[s]
      /\ db'.live = db.live \ {c.password}
  <2>1. db' = Merge(db, c)
    BY AtCommitLemma
  <2>2. QED
    BY <1>1, <1>2, <2>1, MergeRowsLemma
<1>4. /\ lock' \in [User -> Job \cup {None}] /\ LockStep(j)
      /\ \A u \in User : lock'[u] # j
      /\ \A u \in User, k \in Job \ {j} : lock[u] = k => lock'[u] = k
  BY <1>1, ReleaseLemma DEF CommitRows
<1>5. TypeOK'
  <2>1. /\ audit' = audit \cup {[job |-> j, candidate |-> c]}
        /\ UNCHANGED <<proc, changes>>
    BY DEF CommitRows
  <2>2. QED
    BY <1>1, <1>2, <1>3, <1>4, <2>1 DEF TypeOK
<1>6. RowsInv'
  <2>1. /\ \A s \in Social : db.link[s] # None => Exists(db.link[s])
        /\ \A u \in db.live : Exists(u)
    BY DEF MergeInv, RowsInv
  <2>2. \A u \in User : Exists(u) /\ u # c.password => Exists(u)'
    BY <1>3 DEF Exists
  <2>3. db.live \subseteq User /\ \A s \in Social : db.link[s] \in User \cup {None}
    BY <1>1 DEF Rows
  <2>4. QED
    BY <1>3, <2>1, <2>2, <2>3 DEF RowsInv
<1>7. PasswordWithItsAddress'
  <2>1. SUFFICES ASSUME NEW e \in Email, db'.cred[e] # None
                 PROVE  /\ db'.status[db'.cred[e]] \in {"ACTIVE", "SUSPENDED"}
                        /\ db'.email[db'.cred[e]] = e
    BY DEF PasswordWithItsAddress, Exists
  <2>2. CASE db.cred[e] = c.password
    <3>1. db'.cred[e] = c.canonical /\ e = c.email
      BY <1>2, <1>3, <2>2
    <3>2. db'.status[c.canonical] \in {"ACTIVE", "SUSPENDED"}
      BY <1>2, <1>3 DEF Exists
    <3>3. db'.email[c.canonical] = c.email
      BY <1>2, <1>3
    <3>4. QED
      BY <3>1, <3>2, <3>3
  <2>3. CASE db.cred[e] # c.password
    <3>1. /\ db'.cred[e] = db.cred[e] /\ db.cred[e] \in User
          /\ db.cred[e] \notin {c.password, c.canonical}
      BY <1>1, <1>2, <1>3, <2>1, <2>3 DEF Rows
    <3>2. Exists(db.cred[e]) /\ db.email[db.cred[e]] = e
      BY <3>1, <2>1 DEF MergeInv, PasswordWithItsAddress
    <3>3. QED
      BY <1>3, <3>1, <3>2 DEF Exists
  <2>4. QED
    BY <2>2, <2>3
<1>8. HeldInv'
  <2>1. SUFFICES ASSUME NEW u \in User, lock'[u] # None
                 PROVE  job'[lock'[u]].at \in {"lockCanonical", "merge"}
    BY DEF HeldInv
  <2>2. lock'[u] = lock[u] /\ lock[u] \in Job \ {j}
    BY <1>1, <1>4, <2>1 DEF LockStep, TypeOK
  <2>3. QED
    BY <2>1, <2>2 DEF MergeInv, HeldInv
<1>9. \A d \in Candidate : Known(d) => Known(d)'
  <2>1. SUFFICES ASSUME NEW d \in Candidate, Known(d) PROVE Known(d)'
    OBVIOUS
  <2>2. d.email \in Email /\ d.password \in User
    BY DEF Candidate
  <2>3. QED
    BY <1>3, <2>1, <2>2 DEF Known
<1>10. ASSUME NEW k \in Job \ {j} PROVE JobInv(k)'
  <2>1. JobInv(k) /\ job'[k] = job[k] /\ job[k] \in JobState
    BY <1>1 DEF MergeInv, TypeOK
  <2>2. job[k].todo \subseteq Candidate
    BY <2>1 DEF JobState
  <2>3. job[k].at \in Working =>
          /\ job[k].current.password \in User /\ job[k].current.canonical \in User
          /\ job[k].current.email \in Email /\ job[k].current.social \in Social
    BY <2>1 DEF JobInv, Candidate
  <2>4. CASE job[k].at = "merge"
    <3> SUFFICES ASSUME NEW d, d = job[k].current PROVE JobInv(k)'
      OBVIOUS
    <3>1. /\ d.password \in User /\ d.canonical \in User
          /\ d.email \in Email /\ d.social \in Social
          /\ d \in Candidate /\ Known(d)'
      BY <1>9, <2>1, <2>3, <2>4 DEF Working, JobInv
    <3>2. lock[d.canonical] = k /\ lock[d.password] = k /\ Exists(d.canonical)
      BY <2>1, <2>4 DEF JobInv
    <3>3. {d.canonical, d.password} \cap {c.canonical, c.password} = {}
      BY <1>2, <3>2
    <3>4. lock'[d.canonical] = k /\ lock'[d.password] = k /\ Exists(d.canonical)'
      BY <1>3, <1>4, <3>1, <3>2, <3>3 DEF Exists
    <3>5. k \in FastJob => IsCandidate(db, d)
      BY <2>1, <2>4 DEF JobInv
    <3>6. IsCandidate(db, d) => IsCandidate(db', d)
      <4>1. HasPassword(db', d.canonical) => HasPassword(db, d.canonical)
        BY <1>3, <3>3 DEF HasPassword
      <4>2. db.cred[d.email] = d.password => db'.cred[d.email] = d.password
        BY <1>3, <3>1, <3>3
      <4>3. db.link[d.social] = d.canonical => db'.link[d.social] = d.canonical
        BY <1>3, <3>1, <3>3
      <4>4. db'.status[d.canonical] = db.status[d.canonical]
        BY <1>3, <3>1, <3>3
      <4>5. QED
        BY <4>1, <4>2, <4>3, <4>4 DEF IsCandidate
    <3>7. k \in FastJob => IsCandidate(db, d)'
      BY <3>5, <3>6 DEF IsCandidate, HasPassword
    <3>8. QED
      BY <1>9, <2>1, <2>2, <2>4, <3>1, <3>4, <3>7 DEF JobInv, Working
  <2>5. CASE job[k].at # "merge"
    BY <1>4, <1>9, <2>1, <2>2, <2>3, <2>5 DEF JobInv, Working
  <2>6. QED
    BY <2>4, <2>5
<1>11. JobInv(j)'
  <2>1. job[j].todo \subseteq Candidate /\ \A d \in job[j].todo : Known(d)
    BY <1>1 DEF MergeInv, JobInv, TypeOK, JobState
  <2>2. QED
    BY <1>9, <2>1 DEF JobInv, Working
<1>12. QED
  BY <1>5, <1>6, <1>7, <1>8, <1>10, <1>11 DEF MergeInv

LEMMA MergeLemma ==
  ASSUME MergeInv, NEW j \in Job, CommitMerge(j) \/ CommitLost(j)
  PROVE  MergeInv'
<1>1. TypeOK /\ job[j] \in JobState
  BY JobStateLemma DEF MergeInv
<1>2. PICK a \in {"next", "failed"}, m \in Nat :
        job' = [job EXCEPT ![j] = [job[j] EXCEPT !.at = a, !.merged = m]]
  <2>1. job[j].merged \in Nat /\ job[j].merged + 1 \in Nat
    BY <1>1 DEF JobState
  <2>2. CASE CommitMerge(j)
    <3>1. job' = [job EXCEPT ![j] = [job[j] EXCEPT !.at = "next",
                                                   !.merged = job[j].merged + 1]]
      BY <1>1, <2>2 DEF CommitMerge, TypeOK
    <3>2. QED
      BY <2>1, <3>1
  <2>3. CASE CommitLost(j)
    <3>1. [job[j] EXCEPT !.at = "failed"]
            = [job[j] EXCEPT !.at = "failed", !.merged = job[j].merged]
      BY <1>1 DEF JobState
    <3>2. job' = [job EXCEPT ![j] = [job[j] EXCEPT !.at = "failed"]]
      BY <1>1, <2>3 DEF CommitLost, TypeOK
    <3>3. QED
      BY <2>1, <3>1, <3>2
  <2>4. QED
    BY <2>2, <2>3
<1> DEFINE r == [job[j] EXCEPT !.at = a, !.merged = m]
<1>3. r \in JobState /\ r.at = a /\ r.todo = job[j].todo
  BY <1>1 DEF JobState
<1>4. job' = [job EXCEPT ![j] = r]
  BY <1>2
<1> HIDE DEF r
<1>5. /\ job' \in [Job -> JobState] /\ job'[j] = r
      /\ \A k \in Job \ {j} : job'[k] = job[k]
  BY <1>1, <1>3, <1>4 DEF TypeOK
<1>6. CommitRows(j)
  BY DEF CommitMerge, CommitLost
<1>7. QED
  BY <1>3, <1>5, <1>6, CommitLemma DEF Working
-----------------------------------------------------------------------------
(* Sign-ins and administrators.                                            *)

\* They touch no locked user's status, no credential, and no identity or
\* address somebody has.
LEMMA AroundLemma ==
  ASSUME MergeInv, TypeOK', RowsInv', UNCHANGED <<lock, job>>, db'.cred = db.cred,
         \A u \in User :
           /\ Exists(u) => /\ db'.status[u] \in {"ACTIVE", "SUSPENDED"}
                          /\ db'.email[u] = db.email[u]
           /\ db.status[u] = "gone" => db'.status[u] = "gone"
           /\ lock[u] # None /\ Exists(u) => db'.status[u] = db.status[u],
         \A s \in Social : db.link[s] # None => db'.link[s] = db.link[s]
  PROVE  MergeInv'
<1>1. PasswordWithItsAddress'
  <2>1. \A e \in Email : db.cred[e] \in User \cup {None}
    BY DEF MergeInv, TypeOK, Rows
  <2>2. QED
    BY <2>1 DEF MergeInv, PasswordWithItsAddress, Exists
<1>2. HeldInv'
  BY DEF MergeInv, HeldInv
<1>3. \A c \in Candidate : Known(c) => Known(c)'
  BY DEF Known, Candidate
<1>4. ASSUME NEW j \in Job PROVE JobInv(j)'
  <2>1. JobInv(j) /\ job[j] \in JobState /\ job' = job /\ lock' = lock
    BY DEF MergeInv, TypeOK
  <2>2. job[j].todo \subseteq Candidate
    BY <2>1 DEF JobState
  <2>3. ASSUME job[j].at = "merge"
        PROVE  /\ db'.status[job[j].current.canonical] \in {"ACTIVE", "SUSPENDED"}
               /\ j \in FastJob => IsCandidate(db', job[j].current)
    <3>1. PICK d : d = job[j].current
      OBVIOUS
    <3>2. /\ d \in Candidate /\ d.canonical \in User /\ d.email \in Email
          /\ d.social \in Social
          /\ lock[d.canonical] = j /\ j # None /\ Exists(d.canonical)
          /\ j \in FastJob => IsCandidate(db, d)
      BY <2>1, <2>3, <3>1, MergeAssumption DEF JobInv, Working, Candidate
    <3>3. /\ db'.status[d.canonical] = db.status[d.canonical]
          /\ db'.status[d.canonical] \in {"ACTIVE", "SUSPENDED"}
      BY <3>2
    <3>4. IsCandidate(db, d) => IsCandidate(db', d)
      <4>1. d.canonical # None
        BY <3>2, MergeAssumption
      <4>2. QED
        BY <3>2, <3>3, <4>1 DEF IsCandidate, HasPassword
    <3>5. QED
      BY <3>1, <3>2, <3>3, <3>4
  <2>4. QED
    BY <1>3, <2>1, <2>2, <2>3 DEF JobInv, Working, Exists, IsCandidate, HasPassword
<1>5. QED
  BY <1>1, <1>2, <1>4 DEF MergeInv

LEMMA SetStatusLemma ==
  ASSUME MergeInv, NEW u \in User, SetStatus(u)
  PROVE  MergeInv'
<1>1. TypeOK /\ db \in Rows /\ Exists(u) /\ lock[u] = None
  BY DEF MergeInv, TypeOK, SetStatus, Free
<1>2. PICK a \in {"ACTIVE", "SUSPENDED"} :
        /\ db'.status = [db.status EXCEPT ![u] = a]
        /\ db' \in Rows /\ db'.live \subseteq db.live
        /\ db'.cred = db.cred /\ db'.email = db.email /\ db'.link = db.link
  <2> DEFINE a == IF db.status[u] = "ACTIVE" THEN "SUSPENDED" ELSE "ACTIVE"
             w == [db.status EXCEPT ![u] = a]
             l == IF db.status[u] = "ACTIVE" THEN db.live \ {u} ELSE db.live
  <2>1. db' = [db EXCEPT !.status = w, !.live = l]
    BY <1>1 DEF SetStatus, Rows
  <2>2. w \in [User -> Status] /\ l \subseteq db.live /\ l \in SUBSET User
    BY <1>1 DEF Rows, Status
  <2> HIDE DEF w, l
  <2>3. /\ db'.status = w /\ db' \in Rows /\ db'.live = l
        /\ db'.cred = db.cred /\ db'.email = db.email /\ db'.link = db.link
    BY <1>1, <2>1, <2>2 DEF Rows
  <2>4. QED
    BY <2>2, <2>3 DEF w
<1>3. UNCHANGED <<lock, job, audit, proc>> /\ changes' \in 0 .. Suspensions
  <2>1. changes \in 0 .. Suspensions /\ changes < Suspensions /\ changes' = changes + 1
    BY <1>1 DEF TypeOK, SetStatus
  <2>2. QED
    BY <2>1, MergeAssumption DEF SetStatus
<1>4. TypeOK'
  BY <1>1, <1>2, <1>3 DEF TypeOK
<1>5. \A v \in User : /\ v # u => db'.status[v] = db.status[v]
                      /\ Exists(v) => db'.status[v] \in {"ACTIVE", "SUSPENDED"}
                      /\ db.status[v] = "gone" => db'.status[v] = "gone"
  BY <1>1, <1>2 DEF Rows, Exists
<1>6. RowsInv'
  BY <1>1, <1>2, <1>5 DEF MergeInv, RowsInv, Exists, Rows
<1>7. QED
  BY <1>1, <1>2, <1>3, <1>4, <1>5, <1>6, AroundLemma

LEMMA SignInLemma ==
  ASSUME MergeInv, NEW p \in Proc, SignIn(p)
  PROVE  MergeInv'
<1>1. /\ TypeOK /\ db \in Rows /\ proc[p] \in ProcState
      /\ db.status \in [User -> Status] /\ db.email \in [User -> Email \cup {None}]
      /\ db.link \in [Social -> User \cup {None}] /\ db.live \subseteq User
  BY DEF MergeInv, TypeOK, Rows
<1>2. IdleProc \in ProcState
  BY DEF IdleProc, ProcState
<1>3. UNCHANGED <<lock, job, audit, changes>>
  BY DEF SignIn, VerifyPassword, FindSocial, ReadOwner, Attach, Create, Issue, Refuse
<1>4. proc' \in [Proc -> ProcState]
  <2>1. \A u \in User : [IdleProc EXCEPT !.at = "issue", !.user = u] \in ProcState
    BY DEF IdleProc, ProcState
  <2>2. CASE \E e \in Email : VerifyPassword(p, e)
    <3>1. PICK e \in Email : VerifyPassword(p, e)
      BY <2>2
    <3>2. db.cred[e] \in User
      BY <1>1, <3>1 DEF VerifyPassword, Rows
    <3>3. QED
      BY <1>1, <2>1, <3>1, <3>2 DEF VerifyPassword, TypeOK
  <2>3. CASE \E s \in Social : FindSocial(p, s)
    <3>1. PICK s \in Social : FindSocial(p, s)
      BY <2>3
    <3>2. db.link[s] \in User
      BY <1>1, <3>1 DEF FindSocial
    <3>3. QED
      BY <1>1, <2>1, <3>1, <3>2 DEF FindSocial, TypeOK
  <2>4. CASE \E s \in Social : ReadOwner(p, s)
    <3>1. PICK s \in Social : ReadOwner(p, s)
      BY <2>4
    <3> DEFINE e == AddressOf[s]
               active == {u \in Owner(e) : db.status[u] = "ACTIVE"}
               found == [at |-> "attach", user |-> CHOOSE u \in active : TRUE,
                         email |-> e, social |-> s]
               none == [at |-> "create", user |-> None,
                        email |-> IF Owner(e) = {} THEN e ELSE None, social |-> s]
    <3>2. e \in Email
      BY MergeAssumption
    <3>3. active # {} => (CHOOSE u \in active : TRUE) \in User
      BY DEF Owner
    <3>4. (active # {} => found \in ProcState) /\ none \in ProcState
      BY <3>2, <3>3 DEF ProcState
    <3>5. proc' = [proc EXCEPT ![p] = IF active # {} THEN found ELSE none]
      BY <3>1 DEF ReadOwner
    <3> HIDE DEF found, none, active
    <3>6. QED
      BY <1>1, <3>4, <3>5 DEF TypeOK
  <2>5. CASE Attach(p)
    <3>1. proc[p].user \in User
      BY <1>1, <2>5 DEF Attach, ProcState
    <3>2. QED
      BY <1>1, <2>1, <2>5, <3>1 DEF Attach, TypeOK
  <2>6. CASE Create(p)
    BY <1>1, <2>1, <2>6 DEF Create, TypeOK
  <2>7. CASE Issue(p) \/ Refuse(p)
    BY <1>1, <1>2, <2>7 DEF Issue, Refuse, Done, TypeOK
  <2>8. QED
    BY <2>2, <2>3, <2>4, <2>5, <2>6, <2>7 DEF SignIn
<1>5. /\ \A s \in Social : db.link[s] # None => Exists(db.link[s])
      /\ \A u \in db.live : Exists(u)
  BY DEF MergeInv, RowsInv
<1>6. CASE db' = db
  <2>1. TypeOK'
    BY <1>1, <1>3, <1>4, <1>6 DEF TypeOK
  <2>2. RowsInv'
    BY <1>6 DEF MergeInv, RowsInv, Exists
  <2>3. QED
    BY <1>3, <1>6, <2>1, <2>2, AroundLemma DEF Exists
<1>7. CASE Attach(p)
  <2>1. PICK t \in Social \cup {None}, u \in User :
          /\ db' = [db EXCEPT !.link = [db.link EXCEPT ![t] = u]]
          /\ Exists(u) /\ db.link[t] = None
    BY <1>1, <1>7 DEF Attach, ProcState
  <2> DEFINE w == [db.link EXCEPT ![t] = u]
  <2>2. /\ w \in [Social -> User \cup {None}]
        /\ \A s \in Social : w[s] = IF s = t THEN u ELSE db.link[s]
    BY <1>1
  <2> HIDE DEF w
  <2>3. /\ db' \in Rows /\ db'.link = w /\ db'.live = db.live
        /\ db'.cred = db.cred /\ db'.email = db.email /\ db'.status = db.status
    BY <1>1, <2>1, <2>2 DEF Rows, w
  <2>4. TypeOK'
    BY <1>1, <1>3, <1>4, <2>3 DEF TypeOK
  <2>5. RowsInv'
    BY <1>5, <2>1, <2>2, <2>3 DEF RowsInv, Exists
  <2>6. QED
    BY <1>3, <2>1, <2>2, <2>3, <2>4, <2>5, AroundLemma DEF Exists
<1>8. CASE Create(p)
  <2>1. PICK t \in Social \cup {None}, e \in Email \cup {None}, u \in User :
          /\ db.link[t] = None /\ db.status[u] = "absent"
          /\ db' = [db EXCEPT !.status = [db.status EXCEPT ![u] = "ACTIVE"],
                              !.email = [db.email EXCEPT ![u] = e],
                              !.link = [db.link EXCEPT ![t] = u]]
    <3>1. proc[p].social \in Social \cup {None} /\ proc[p].email \in Email \cup {None}
      BY <1>1 DEF ProcState
    <3>2. PICK u \in User :
            /\ db.status[u] = "absent"
            /\ db' = [db EXCEPT !.status = [db.status EXCEPT ![u] = "ACTIVE"],
                                !.email = [db.email EXCEPT ![u] = proc[p].email],
                                !.link = [db.link EXCEPT ![proc[p].social] = u]]
      BY <1>8 DEF Create
    <3>3. db.link[proc[p].social] = None
      BY <1>8 DEF Create
    <3>4. QED
      BY <3>1, <3>2, <3>3
  <2> DEFINE w == [db.link EXCEPT ![t] = u]
             x == [db.status EXCEPT ![u] = "ACTIVE"]
             y == [db.email EXCEPT ![u] = e]
  <2>2. /\ w \in [Social -> User \cup {None}]
        /\ \A s \in Social : w[s] = IF s = t THEN u ELSE db.link[s]
    BY <1>1
  <2>3. /\ x \in [User -> Status]
        /\ \A v \in User : x[v] = IF v = u THEN "ACTIVE" ELSE db.status[v]
    BY <1>1 DEF Status
  <2>4. /\ y \in [User -> Email \cup {None}]
        /\ \A v \in User : y[v] = IF v = u THEN e ELSE db.email[v]
    BY <1>1
  <2>5. db' = [db EXCEPT !.status = x, !.email = y, !.link = w]
    BY <2>1
  <2> HIDE DEF w, x, y
  <2>6. /\ db' \in Rows /\ db'.link = w /\ db'.live = db.live
        /\ db'.cred = db.cred /\ db'.email = y /\ db'.status = x
    BY <1>1, <2>2, <2>3, <2>4, <2>5 DEF Rows
  <2>7. TypeOK'
    BY <1>1, <1>3, <1>4, <2>6 DEF TypeOK
  <2>8. \A v \in User : Exists(v) => v # u /\ Exists(v)'
    BY <2>1, <2>3, <2>6 DEF Exists
  <2>9. Exists(u)'
    BY <2>3, <2>6 DEF Exists
  <2>10. RowsInv'
    BY <1>1, <1>5, <2>2, <2>6, <2>8, <2>9 DEF RowsInv
  <2>11. QED
    BY <1>3, <2>1, <2>2, <2>3, <2>4, <2>6, <2>7, <2>8, <2>10, AroundLemma DEF Exists
<1>9. CASE Issue(p)
  <2>1. PICK u \in User : db' = [db EXCEPT !.live = @ \cup {u}] /\ db.status[u] = "ACTIVE"
    BY <1>1, <1>9 DEF Issue, ProcState
  <2>2. /\ db' \in Rows /\ db'.link = db.link /\ db'.live = db.live \cup {u}
        /\ db'.cred = db.cred /\ db'.email = db.email /\ db'.status = db.status
    BY <1>1, <2>1 DEF Rows
  <2>3. TypeOK'
    BY <1>1, <1>3, <1>4, <2>2 DEF TypeOK
  <2>4. RowsInv'
    BY <1>5, <2>1, <2>2 DEF RowsInv, Exists
  <2>5. QED
    BY <1>3, <2>2, <2>3, <2>4, AroundLemma DEF Exists
<1>10. QED
  BY <1>6, <1>7, <1>8, <1>9 DEF SignIn, VerifyPassword, FindSocial, ReadOwner, Refuse
-----------------------------------------------------------------------------
(* The invariant and what follows from it.                                 *)

LEMMA InitLemma == Init => MergeInv
<1> SUFFICES ASSUME Init PROVE MergeInv
  OBVIOUS
<1>1. PICK owner \in [Email -> User] :
        /\ \A e, f \in Email : owner[e] = owner[f] => e = f
        /\ db = [status |-> [u \in User |-> IF \E e \in Email : owner[e] = u
                                            THEN "ACTIVE" ELSE "absent"],
                 email  |-> [u \in User |-> IF \E e \in Email : owner[e] = u
                                            THEN CHOOSE e \in Email : owner[e] = u
                                            ELSE None],
                 cred   |-> owner,
                 link   |-> [s \in Social |-> None],
                 live   |-> {}]
  BY DEF Init
<1>2. /\ db.status = [u \in User |-> IF \E e \in Email : owner[e] = u
                                     THEN "ACTIVE" ELSE "absent"]
      /\ db.email = [u \in User |-> IF \E e \in Email : owner[e] = u
                                    THEN CHOOSE e \in Email : owner[e] = u
                                    ELSE None]
      /\ db.cred = owner /\ db.link = [s \in Social |-> None] /\ db.live = {}
  BY <1>1
<1>3. db \in Rows
  <2>1. db.status \in [User -> Status]
    BY <1>2 DEF Status
  <2>2. \A u \in User : (\E e \in Email : owner[e] = u) =>
          (CHOOSE e \in Email : owner[e] = u) \in Email
    OBVIOUS
  <2>3. db.email \in [User -> Email \cup {None}]
    BY <1>2, <2>2
  <2>4. /\ db.cred \in [Email -> User \cup {None}]
        /\ db.link \in [Social -> User \cup {None}] /\ db.live \in SUBSET User
    BY <1>2
  <2>5. db = [status |-> db.status, email |-> db.email, cred |-> db.cred,
              link |-> db.link, live |-> db.live]
    BY <1>1
  <2>6. QED
    BY <2>1, <2>3, <2>4, <2>5 DEF Rows
<1>4. TypeOK
  <2>1. [at |-> "idle", found |-> {}, todo |-> {}, current |-> NoCandidate,
         merged |-> 0, stale |-> 0] \in JobState
    BY DEF JobState
  <2>2. IdleProc \in ProcState
    BY DEF IdleProc, ProcState
  <2>3. QED
    BY <1>3, <2>1, <2>2, MergeAssumption DEF TypeOK, Init
<1>5. RowsInv
  BY <1>2 DEF RowsInv
<1>6. PasswordWithItsAddress
  <2>1. SUFFICES ASSUME NEW e \in Email
                 PROVE  Exists(owner[e]) /\ db.email[owner[e]] = e
    BY <1>2 DEF PasswordWithItsAddress
  <2>2. owner[e] \in User /\ \E f \in Email : owner[f] = owner[e]
    OBVIOUS
  <2>3. (CHOOSE f \in Email : owner[f] = owner[e]) = e
    BY <1>1
  <2>4. QED
    BY <1>2, <2>2, <2>3 DEF Exists
<1>7. HeldInv
  BY DEF Init, HeldInv
<1>8. \A j \in Job : JobInv(j)
  BY DEF Init, JobInv, Working
<1>9. QED
  BY <1>4, <1>5, <1>6, <1>7, <1>8 DEF MergeInv

LEMMA NextLemma == MergeInv /\ [Next]_vars => MergeInv'
<1> SUFFICES ASSUME MergeInv, [Next]_vars PROVE MergeInv'
  OBVIOUS
<1>1. ASSUME NEW j \in Job, Discover(j) PROVE MergeInv'
  BY <1>1, DiscoverLemma
<1>2. ASSUME NEW j \in Job, Take(j) PROVE MergeInv'
  BY <1>2, TakeLemma
<1>3. ASSUME NEW j \in Job,
             Report(j) \/ StaleCandidate(j) \/ RetryMerge(j) \/ MissingRow(j) \/ FailJob(j)
      PROVE  MergeInv'
  BY <1>3, EndLemma DEF MissingRow, FailJob, Working
<1>4. ASSUME NEW j \in Job,
             LockCandidate(j) \/ UpdatePasswordUser(j) \/ UpdateCanonicalUser(j)
      PROVE  MergeInv'
  BY <1>4, LockLemma
<1>5. ASSUME NEW j \in Job, CommitMerge(j) \/ CommitLost(j) PROVE MergeInv'
  BY <1>5, MergeLemma
<1>6. ASSUME NEW u \in User, SetStatus(u) PROVE MergeInv'
  BY <1>6, SetStatusLemma
<1>7. ASSUME NEW p \in Proc, SignIn(p) PROVE MergeInv'
  BY <1>7, SignInLemma
<1>8. CASE UNCHANGED vars
  BY <1>8 DEF vars, MergeInv, TypeOK, RowsInv, PasswordWithItsAddress, HeldInv, JobInv,
              Known, Exists, IsCandidate, HasPassword
<1>9. QED
  BY <1>1, <1>2, <1>3, <1>4, <1>5, <1>6, <1>7, <1>8 DEF Next, JobStep

\* The invariant behind the other theorems: locks, rows, and what a job still
\* knows of a candidate it discovered earlier.
THEOREM MergeInvariant == Spec => []MergeInv
  BY InitLemma, NextLemma, PTL DEF Spec

\* A transaction about to commit a merge holds both users; identities and
\* sessions hang on users that exist.
THEOREM IInvTheorem == Spec => []IInv
  BY MergeInvariant, ImpliesIInv, PTL

\* The password of an address stays its owner's, whatever was merged.
THEOREM PasswordStays == Spec => []PasswordWithItsAddress
<1>1. MergeInv => PasswordWithItsAddress
  BY DEF MergeInv
<1>2. QED
  BY <1>1, MergeInvariant, PTL

\* The FastAPI job merges only what is a candidate when it commits.
THEOREM StaleTheorem == Spec => StaleNeverMerged
<1>1. MergeInv /\ [Next]_vars =>
        [\A j \in FastJob : CommitRows(j) => IsCandidate(db, job[j].current)]_vars
  <2>1. SUFFICES ASSUME MergeInv, NEW j \in FastJob, CommitRows(j)
                 PROVE  IsCandidate(db, job[j].current)
    OBVIOUS
  <2>2. j \in Job /\ job[j].at = "merge"
    BY <2>1 DEF CommitRows, Job
  <2>3. JobInv(j)
    BY <2>1, <2>2 DEF MergeInv
  <2>4. QED
    BY <2>2, <2>3 DEF JobInv
<1>2. QED
  BY <1>1, MergeInvariant, PTL DEF Spec, StaleNeverMerged

\* No merge loses a password, the Express job's included, though it does not
\* test its candidates again.
THEOREM SurvivalTheorem == Spec => PasswordsSurvive
<1>1. ASSUME MergeInv, [Next]_vars, NEW e \in Email, db.cred[e] # None
      PROVE  db'.cred[e] # None
  <2>1. CASE db' = db
    BY <1>1, <2>1
  <2>2. ASSUME NEW j \in Job, CommitRows(j) PROVE db'.cred[e] # None
    <3>1. PICK c : c = job[j].current
      OBVIOUS
    <3>2. c \in Candidate /\ c.canonical # c.password /\ db' = Merge(db, c)
      BY <1>1, <2>2, <3>1, AtCommitLemma
    <3>3. db \in Rows /\ c.canonical # None
      BY <1>1, <3>2, MergeAssumption DEF MergeInv, TypeOK, Candidate
    <3>4. db'.cred[e] = IF db.cred[e] = c.password THEN c.canonical ELSE db.cred[e]
      BY <3>2, <3>3, MergeRowsLemma
    <3>5. QED
      BY <1>1, <3>3, <3>4
  <2>3. ASSUME NEW u \in User, SetStatus(u) PROVE db'.cred = db.cred
    <3>1. db \in Rows
      BY <1>1 DEF MergeInv, TypeOK
    <3>2. QED
      BY <2>3, <3>1 DEF SetStatus, Rows
  <2>4. ASSUME NEW p \in Proc, SignIn(p) PROVE db'.cred = db.cred
    <3>1. db \in Rows
      BY <1>1 DEF MergeInv, TypeOK
    <3>2. QED
      BY <2>4, <3>1 DEF SignIn, VerifyPassword, FindSocial, ReadOwner, Attach, Create,
                        Issue, Refuse, Rows
  <2>5. QED
    BY <1>1, <2>1, <2>2, <2>3, <2>4
    DEF Next, JobStep, vars, Discover, Take, Report, LockCandidate, StaleCandidate,
        RetryMerge, UpdatePasswordUser, UpdateCanonicalUser, CommitMerge, CommitLost,
        MissingRow, FailJob, Fails
<1>2. MergeInv /\ [Next]_vars =>
        [\A e \in Email : db.cred[e] # None => db'.cred[e] # None]_vars
  BY <1>1
<1>3. QED
  BY <1>2, MergeInvariant, PTL DEF Spec, PasswordsSurvive
-----------------------------------------------------------------------------
(* The report of a job.                                                    *)

Mine(j) == {a \in audit : a.job = j}

\* While a job runs, each candidate it found is merged, stale, in its hands or
\* still to come, and never two of these.
CountInv(j) ==
  LET r == job[j]
      working == r.at \in Working
  IN working \/ r.at \in {"next", "done"} =>
       /\ IsFiniteSet(r.found) /\ IsFiniteSet(r.todo) /\ IsFiniteSet(Mine(j))
       /\ \A a \in Mine(j) : a.candidate \notin r.todo
       /\ working => /\ r.current \notin r.todo
                     /\ \A a \in Mine(j) : a.candidate # r.current
       /\ r.at = "done" => r.todo = {}
       /\ r.merged = Cardinality(Mine(j))
       /\ r.merged + r.stale + Cardinality(r.todo) + (IF working THEN 1 ELSE 0)
            = Cardinality(r.found)

\* One Google account is linked to one user: there are no more candidates than
\* Google accounts.
LEMMA CandidatesFiniteLemma == IsFiniteSet(Candidates)
<1> DEFINE f == [c \in Candidates |-> c.social]
<1>1. f \in [Candidates -> Social]
  BY DEF Candidates, Candidate
<1>2. ASSUME NEW c \in Candidates, NEW d \in Candidates, f[c] = f[d]
      PROVE  c = d
  <2>1. /\ c \in Candidate /\ d \in Candidate /\ c.social = d.social
        /\ c.email = d.email /\ c.canonical = d.canonical /\ c.password = d.password
    BY <1>2 DEF Candidates, IsCandidate
  <2>2. QED
    BY <2>1 DEF Candidate
<1>3. f \in Injection(Candidates, Social)
  BY <1>1, <1>2 DEF Injection, IsInjective
<1>4. QED
  BY <1>3, SocialAssumption, FS_Injection

\* The steps of a job touch neither another job nor what it has audited.
LEMMA MineStaysLemma ==
  ASSUME MergeInv, NEW j \in Job, NEW k \in Job \ {j}, CountInv(k),
         \/ Discover(j) \/ JobStep(j) \/ RetryMerge(j) \/ CommitLost(j) \/ FailJob(j)
  PROVE  CountInv(k)'
<1>1. job \in [Job -> JobState]
  BY DEF MergeInv, TypeOK
<1>2. CASE Discover(j)
  <2>1. job'[k] = job[k] /\ Mine(k)' = Mine(k)
    BY <1>1, <1>2 DEF Discover, Mine
  <2>2. QED
    BY <2>1 DEF CountInv
<1>3. CASE CommitRows(j)
  <2>1. audit' = audit \cup {[job |-> j, candidate |-> job[j].current]}
    BY <1>3 DEF CommitRows
  <2>2. Mine(k)' = Mine(k)
    BY <2>1 DEF Mine
  <2>3. job'[k] = job[k]
    BY <1>1, <1>3 DEF Discover, JobStep, Take, Report, LockCandidate, StaleCandidate,
       RetryMerge, UpdatePasswordUser, UpdateCanonicalUser, CommitMerge, CommitLost,
       MissingRow, FailJob, Fails
  <2>4. QED
    BY <2>2, <2>3 DEF CountInv
<1>4. CASE \/ Take(j) \/ Report(j) \/ LockCandidate(j) \/ StaleCandidate(j) \/ RetryMerge(j)
           \/ UpdatePasswordUser(j) \/ UpdateCanonicalUser(j) \/ MissingRow(j) \/ FailJob(j)
  <2>1. job'[k] = job[k] /\ audit' = audit
    BY <1>1, <1>4 DEF Take, Report, LockCandidate, StaleCandidate,
       RetryMerge, UpdatePasswordUser, UpdateCanonicalUser, MissingRow, FailJob, Fails
  <2>2. QED
    BY <2>1 DEF CountInv, Mine
<1>5. QED
  BY <1>2, <1>3, <1>4 DEF JobStep, CommitMerge, CommitLost

\* Discovery forgets the last run.
LEMMA CountDiscoverLemma ==
  ASSUME MergeInv, NEW j \in Job, Discover(j)
  PROVE  CountInv(j)'
<1>1. job \in [Job -> JobState]
  BY DEF MergeInv, TypeOK
<1>2. /\ job'[j].at = "next" /\ job'[j].found = Candidates /\ job'[j].todo = Candidates
      /\ job'[j].merged = 0 /\ job'[j].stale = 0
  BY <1>1 DEF Discover, JobState
<1>3. Mine(j)' = {}
  BY DEF Discover, Mine
<1>4. /\ IsFiniteSet(Candidates) /\ Cardinality(Candidates) \in Nat
      /\ IsFiniteSet(Mine(j)') /\ Cardinality(Mine(j)') = 0
  BY <1>3, CandidatesFiniteLemma, FS_CardinalityType, FS_EmptySet
<1>5. QED
  BY <1>2, <1>3, <1>4 DEF CountInv, Working

\* A candidate taken in hand is one fewer to come.
LEMMA CountTakeLemma ==
  ASSUME MergeInv, NEW j \in Job, CountInv(j), Take(j)
  PROVE  CountInv(j)'
<1>1. job[j] \in JobState /\ job \in [Job -> JobState]
  BY DEF MergeInv, TypeOK
<1>2. PICK c \in job[j].todo :
        job' = [job EXCEPT ![j].at = "lock", ![j].todo = @ \ {c}, ![j].current = c]
  BY DEF Take
<1>3. /\ job'[j].at = "lock" /\ job'[j].todo = job[j].todo \ {c} /\ job'[j].current = c
      /\ job'[j].found = job[j].found /\ job'[j].merged = job[j].merged
      /\ job'[j].stale = job[j].stale
      /\ job[j].merged \in Nat /\ job[j].stale \in Nat
  BY <1>1, <1>2 DEF JobState
<1>4. Mine(j)' = Mine(j) /\ job[j].at = "next"
  BY DEF Take, Mine
<1>5. /\ IsFiniteSet(job[j].todo \ {c}) /\ Cardinality(job[j].todo) \in Nat
      /\ Cardinality(job[j].todo \ {c}) = Cardinality(job[j].todo) - 1
  BY <1>4, FS_RemoveElement, FS_CardinalityType DEF CountInv
<1>6. QED
  BY <1>3, <1>4, <1>5 DEF CountInv, Working

\* A merge that commits is counted once, as it is audited.
LEMMA CountCommitLemma ==
  ASSUME MergeInv, NEW j \in Job, CountInv(j), CommitMerge(j)
  PROVE  CountInv(j)'
<1> DEFINE c == job[j].current
           a == [job |-> j, candidate |-> c]
<1>1. job[j] \in JobState /\ job \in [Job -> JobState]
  BY DEF MergeInv, TypeOK
<1>2. /\ job[j].at = "merge" /\ audit' = audit \cup {a}
      /\ job' = [job EXCEPT ![j].at = "next", ![j].merged = @ + 1]
  BY DEF CommitMerge, CommitRows
<1>3. /\ job'[j].at = "next" /\ job'[j].todo = job[j].todo
      /\ job'[j].found = job[j].found /\ job'[j].merged = job[j].merged + 1
      /\ job'[j].stale = job[j].stale
      /\ job[j].merged \in Nat /\ job[j].stale \in Nat
  BY <1>1, <1>2 DEF JobState
<1>4. Mine(j)' = Mine(j) \cup {a}
  BY <1>2 DEF Mine
<1>5. a \notin Mine(j) /\ a.candidate \notin job[j].todo
  BY <1>2 DEF CountInv, Working
<1>6. /\ IsFiniteSet(Mine(j) \cup {a})
      /\ Cardinality(Mine(j) \cup {a}) = Cardinality(Mine(j)) + 1
  BY <1>2, <1>5, FS_AddElement DEF CountInv, Working
<1>7. Cardinality(job[j].todo) \in Nat
  BY <1>2, FS_CardinalityType DEF CountInv, Working
<1> HIDE DEF a
<1>8. /\ IsFiniteSet(job[j].found) /\ IsFiniteSet(job[j].todo)
      /\ job[j].merged = Cardinality(Mine(j))
      /\ job[j].merged + job[j].stale + Cardinality(job[j].todo) + 1
           = Cardinality(job[j].found)
  BY <1>2 DEF CountInv, Working
<1>9. \A b \in Mine(j) \cup {a} : b.candidate \notin job[j].todo
  BY <1>2, <1>5 DEF CountInv, Working
<1>10. job[j].merged + 1 + job[j].stale + Cardinality(job[j].todo) = Cardinality(job[j].found)
  BY <1>3, <1>7, <1>8
<1>11. QED
  BY <1>3, <1>4, <1>6, <1>8, <1>9, <1>10, <1>7 DEF CountInv, Working

\* A candidate found stale is counted, and no other step of a running job counts.
LEMMA CountOtherLemma ==
  ASSUME MergeInv, NEW j \in Job, CountInv(j),
         \/ Report(j) \/ LockCandidate(j) \/ StaleCandidate(j) \/ RetryMerge(j)
         \/ UpdatePasswordUser(j) \/ UpdateCanonicalUser(j)
         \/ MissingRow(j) \/ CommitLost(j) \/ FailJob(j)
  PROVE  CountInv(j)'
<1>1. /\ job[j] \in JobState /\ job \in [Job -> JobState]
      /\ job[j].merged \in Nat /\ job[j].stale \in Nat
  BY DEF MergeInv, TypeOK, JobState
<1>2. CASE MissingRow(j) \/ CommitLost(j) \/ FailJob(j)
  <2>1. job'[j].at = "failed"
    BY <1>1, <1>2 DEF MissingRow, CommitLost, FailJob, Fails, JobState
  <2>2. QED
    BY <2>1 DEF CountInv, Working
<1>3. CASE Report(j)
  <2>1. /\ job[j].at = "next" /\ job[j].todo = {} /\ job'[j].at = "done"
        /\ job'[j] = [job[j] EXCEPT !.at = "done"] /\ audit' = audit
    BY <1>1, <1>3 DEF Report, JobState
  <2>2. /\ job'[j].todo = job[j].todo /\ job'[j].found = job[j].found
        /\ job'[j].merged = job[j].merged /\ job'[j].stale = job[j].stale
    BY <1>1, <2>1 DEF JobState
  <2>3. QED
    BY <2>1, <2>2 DEF CountInv, Working, Mine
<1>4. CASE StaleCandidate(j)
  <2>1. /\ job[j].at = "lock" /\ audit' = audit
        /\ job'[j] = [job[j] EXCEPT !.at = "next", !.stale = @ + 1]
    BY <1>1, <1>4 DEF StaleCandidate
  <2>2. /\ job'[j].todo = job[j].todo /\ job'[j].found = job[j].found
        /\ job'[j].merged = job[j].merged /\ job'[j].stale = job[j].stale + 1
        /\ job'[j].at = "next"
    BY <1>1, <2>1 DEF JobState
  <2>3. Mine(j)' = Mine(j)
    BY <2>1 DEF Mine
  <2>4. Cardinality(job[j].todo) \in Nat
    BY <2>1, FS_CardinalityType DEF CountInv, Working
  <2>5. QED
    BY <1>1, <2>1, <2>2, <2>3, <2>4 DEF CountInv, Working
<1>5. CASE LockCandidate(j) \/ RetryMerge(j) \/ UpdatePasswordUser(j) \/ UpdateCanonicalUser(j)
  <2>1. PICK x \in Working : job' = [job EXCEPT ![j].at = x]
    BY <1>5 DEF LockCandidate, RetryMerge, UpdatePasswordUser, UpdateCanonicalUser, Working
  <2>2. job[j].at \in Working /\ audit' = audit
    BY <1>5 DEF LockCandidate, RetryMerge, UpdatePasswordUser, UpdateCanonicalUser, Working
  <2>3. /\ job'[j].todo = job[j].todo /\ job'[j].found = job[j].found
        /\ job'[j].merged = job[j].merged /\ job'[j].stale = job[j].stale
        /\ job'[j].current = job[j].current /\ job'[j].at = x
    BY <1>1, <2>1 DEF JobState
  <2>4. x # "done" /\ x # "next" /\ Mine(j)' = Mine(j)
    BY <2>2 DEF Working, Mine
  <2>5. QED
    BY <2>1, <2>2, <2>3, <2>4 DEF CountInv
<1>6. QED
  BY <1>2, <1>3, <1>4, <1>5

LEMMA CountLemma ==
  ASSUME MergeInv, \A j \in Job : CountInv(j), [Next]_vars
  PROVE  \A j \in Job : CountInv(j)'
<1>1. ASSUME NEW j \in Job,
             \/ Discover(j) \/ JobStep(j) \/ RetryMerge(j) \/ CommitLost(j) \/ FailJob(j)
      PROVE  \A k \in Job : CountInv(k)'
  <2>1. \A k \in Job \ {j} : CountInv(k)'
    BY <1>1, MineStaysLemma
  <2>2. CountInv(j)'
    BY <1>1, CountDiscoverLemma, CountTakeLemma, CountCommitLemma, CountOtherLemma DEF JobStep
  <2>3. QED
    BY <2>1, <2>2
<1>2. CASE (\E u \in User : SetStatus(u)) \/ (\E p \in Proc : SignIn(p)) \/ UNCHANGED vars
  <2>1. UNCHANGED <<job, audit>>
    BY <1>2 DEF SetStatus, SignIn, VerifyPassword, FindSocial, ReadOwner, Attach, Create,
       Issue, Refuse, vars
  <2>2. QED
    BY <2>1 DEF CountInv, Mine
<1>3. QED
  BY <1>1, <1>2 DEF Next

\* What a job prints is what it committed: its count of merges is its audit
\* rows', and with the stale ones it accounts for every candidate discovered.
THEOREM ReportsTheorem == Spec => []ReportsCommits
<1>1. Init => \A j \in Job : CountInv(j)
  BY DEF Init, CountInv, Working
<1>2. MergeInv /\ (\A j \in Job : CountInv(j)) /\ [Next]_vars => (\A j \in Job : CountInv(j))'
  BY CountLemma
<1>3. MergeInv /\ (\A j \in Job : CountInv(j)) => ReportsCommits
  <2> SUFFICES ASSUME MergeInv, NEW j \in Job, CountInv(j), job[j].at = "done"
               PROVE  /\ job[j].merged = Cardinality({a \in audit : a.job = j})
                      /\ job[j].merged + job[j].stale = Cardinality(job[j].found)
    BY DEF ReportsCommits
  <2>1. job[j].merged \in Nat /\ job[j].stale \in Nat /\ Cardinality({}) = 0
    BY FS_EmptySet DEF MergeInv, TypeOK, JobState
  <2>2. /\ job[j].merged = Cardinality(Mine(j)) /\ job[j].todo = {}
        /\ job[j].merged + job[j].stale + Cardinality(job[j].todo) + 0
             = Cardinality(job[j].found)
    BY DEF CountInv, Working
  <2>3. job[j].merged + job[j].stale + 0 + 0 = Cardinality(job[j].found)
    BY <2>1, <2>2
  <2>4. QED
    BY <2>1, <2>2, <2>3 DEF Mine
<1>4. QED
  BY <1>1, <1>2, <1>3, MergeInvariant, PTL DEF Spec
=============================================================================
