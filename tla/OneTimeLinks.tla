---------------------------- MODULE OneTimeLinks ----------------------------
(***************************************************************************)
(* The four one-time grants that the Express and the FastAPI server redeem *)
(* from the same database and the same Redis:                              *)
(*                                                                         *)
(*   "reset"   the link of a password reset   a PasswordResetToken row     *)
(*   "verify"  the link of a verification     an EmailVerificationToken    *)
(*   "state"   the state of an OAuth sign-in  a Redis key                  *)
(*   "code"    the code of a handoff          a Redis key                  *)
(*                                                                         *)
(* Both servers redeem each of them by the same statements and scripts, so *)
(* a request is one of either; definitions are mapped to Express's code.   *)
(* Rows are redeemed in a READ COMMITTED transaction: what has been marked *)
(* used is open again if it is rolled back.  Keys are taken by a script    *)
(* and stay taken whatever happens next, a reply that is lost included.    *)
(*                                                                         *)
(* The grants have been issued and sent; AuthHandoff and Accounts are      *)
(* about how.  An administrator may suspend a user; one made PENDING again *)
(* before the run has a reset link from before and asks for a verification *)
(* (AdminRoles has the status itself).  Its confirmation may give the user *)
(* another id, and with it every row that refers to the user.              *)
(***************************************************************************)
EXTENDS Naturals, FiniteSets

CONSTANTS Grant, User, Proc, None,
          KindOf,    \* KindOf[g]: which of the four
          OwnerOf    \* OwnerOf[g]: the user the grant is for

Kind == {"reset", "verify", "state", "code"}

ASSUME GrantAssumption ==
  /\ KindOf \in [Grant -> Kind]
  /\ OwnerOf \in [Grant -> User]
  /\ None \notin Grant \cup Proc

VARIABLES used,         \* rows with a committed usedAt, keys Redis no longer has
          status,       \* status[u]
          pending,      \* users with an unexpired PendingPasswordCredential
          subject,      \* subject[u]: whose is the id reserved for u's address
          redemptions,  \* history: how often each grant was redeemed
          pc, req,
          rowLock,      \* rowLock[g]: the transaction that has marked the row
          userLock      \* userLock[u]: ... that has locked or written u's row

locks == <<rowLock, userLock>>
vars == <<used, status, pending, subject, redemptions, pc, req, locks>>

PC == {"idle", "find", "token", "eligible", "mark", "lockUser", "activate",
       "cascade", "attach", "commit", "get", "drop", "take", "issue", "consume", "resolve"}

\* own: u's or there is none; free: nobody's; taken: another user's; moved: u's
\* since its activation.  Only the activation of a PENDING user asks.
Subject == {"own", "free", "taken", "moved"}

\* fresh: the request's `now' is before expiresAt, a choice of each request, so
\* that servers whose clocks differ are included.  id: the user's id in the row
\* or record it has read.  path: how a verification will give its user what the
\* link is for.  outcome: of a transaction about to commit.
Request == [grant: Grant \cup {None}, fresh: {"yes", "no"}, id: {"first", "reserved"},
            path: {"activate", "attach"}, outcome: {"redeemed", "void"}]

NoRequest == [grant |-> None, fresh |-> "no", id |-> "first", path |-> "attach",
              outcome |-> "void"]

TypeOK ==
  /\ used \in SUBSET Grant
  /\ status \in [User -> {"PENDING", "ACTIVE", "SUSPENDED"}]
  /\ pending \in SUBSET User
  /\ subject \in [User -> Subject]
  /\ redemptions \in [Grant -> Nat]
  /\ pc \in [Proc -> PC]
  /\ req \in [Proc -> Request]
  /\ rowLock \in [Grant -> Proc \cup {None}]
  /\ userLock \in [User -> Proc \cup {None}]

Init ==
  /\ used = {}
  /\ status \in [User -> {"PENDING", "ACTIVE"}]
  /\ pending \in SUBSET {u \in User : status[u] = "ACTIVE"}
  /\ subject \in [User -> Subject \ {"moved"}]
  /\ \A u \in User : status[u] # "PENDING" => subject[u] = "own"
  /\ redemptions = [g \in Grant |-> 0]
  /\ pc = [p \in Proc |-> "idle"]
  /\ req = [p \in Proc |-> NoRequest]
  /\ rowLock = [g \in Grant |-> None]
  /\ userLock = [u \in User |-> None]
-----------------------------------------------------------------------------
At(p, label) == pc[p] = label
Goto(p, label) == pc' = [pc EXCEPT ![p] = label]

Owner(p) == OwnerOf[req[p].grant]

IdOf(u) == IF subject[u] = "moved" THEN "reserved" ELSE "first"

\* The id p has read is still the user's.
KnowsUser(p) == req[p].id = IdOf(Owner(p))

End(p) ==
  /\ Goto(p, "idle")
  /\ req' = [req EXCEPT ![p] = NoRequest]

Release(p) ==
  /\ rowLock' = [g \in Grant |-> IF rowLock[g] = p THEN None ELSE rowLock[g]]
  /\ userLock' = [u \in User |-> IF userLock[u] = p THEN None ELSE userLock[u]]

\* The request ends with an error or "invalid token", having committed nothing.
Refuse(p) ==
  /\ End(p)
  /\ Release(p)
  /\ UNCHANGED <<used, status, pending, redemptions>>

FirstStep(kind) ==
  CASE kind = "reset"  -> "find"
    [] kind = "verify" -> "token"
    [] kind = "state"  -> "consume"
    [] kind = "code"   -> "get"

Present(p) ==
  /\ At(p, "idle")
  /\ \E g \in Grant, fresh \in {"yes", "no"} :
       /\ req' = [req EXCEPT ![p] = [NoRequest EXCEPT !.grant = g, !.fresh = fresh]]
       /\ Goto(p, FirstStep(KindOf[g]))
  /\ UNCHANGED <<used, status, pending, redemptions, locks>>
-----------------------------------------------------------------------------
(* Rows.                                                                   *)

Open(p) == req[p].grant \notin used /\ req[p].fresh = "yes"

\* The unlocked read of a reset token, and of a verification token on its own
\* connection.
FindRow(p) ==
  /\ pc[p] \in {"find", "token"}
  /\ Open(p)
  /\ req' = [req EXCEPT ![p].id = IdOf(Owner(p))]
  /\ Goto(p, IF At(p, "find") THEN "mark" ELSE "eligible")
  /\ UNCHANGED <<used, status, pending, redemptions, locks>>

FindNoRow(p) ==
  /\ pc[p] \in {"find", "token"}
  /\ ~Open(p)
  /\ Refuse(p)

Eligible(p) == KnowsUser(p) /\ (status[Owner(p)] = "PENDING" \/ Owner(p) \in pending)

\* What a verification is for is decided before its token is marked.
ReadEligibility(p) ==
  /\ At(p, "eligible")
  /\ Eligible(p)
  /\ req' = [req EXCEPT ![p].path =
               IF status[Owner(p)] = "PENDING" THEN "activate" ELSE "attach"]
  /\ Goto(p, "mark")
  /\ UNCHANGED <<used, status, pending, redemptions, locks>>

NotEligible(p) ==
  /\ At(p, "eligible")
  /\ ~Eligible(p)
  /\ Refuse(p)

AfterMark(p) ==
  IF KindOf[req[p].grant] = "reset" THEN "lockUser" ELSE req[p].path

\* Mutant: the UPDATE lacks usedAt IS NULL.
MarkAnyRow(p) ==
  /\ At(p, "mark")
  /\ rowLock[req[p].grant] = None
  /\ rowLock' = [rowLock EXCEPT ![req[p].grant] = p]
  /\ Goto(p, AfterMark(p))
  /\ UNCHANGED <<used, status, pending, redemptions, req, userLock>>

\* WHERE usedAt IS NULL AND expiresAt > now, for a verification AND userId.
Markable(p) == Open(p) /\ (KindOf[req[p].grant] = "verify" => KnowsUser(p))

\* UPDATE ... SET usedAt, rowcount one ...
MarkRow(p) ==
  /\ At(p, "mark")
  /\ rowLock[req[p].grant] = None
  /\ Markable(p)
  /\ rowLock' = [rowLock EXCEPT ![req[p].grant] = p]
  /\ Goto(p, AfterMark(p))
  /\ UNCHANGED <<used, status, pending, redemptions, req, userLock>>

\* ... and zero.
MarkNoRow(p) ==
  /\ At(p, "mark")
  /\ ~Markable(p)
  /\ Refuse(p)

TakeUserLock(p) ==
  /\ userLock[Owner(p)] = None
  /\ userLock' = [userLock EXCEPT ![Owner(p)] = p]

ReadyToCommit(p, outcome) ==
  /\ Goto(p, "commit")
  /\ req' = [req EXCEPT ![p].outcome = outcome]
  /\ UNCHANGED <<used, status, pending, redemptions, rowLock>>

\* Mutant: a reset marks its token in a transaction of its own.
CommitMark(p) ==
  /\ At(p, "lockUser")
  /\ used' = used \cup {req[p].grant}
  /\ Goto(p, "commit")
  /\ req' = [req EXCEPT ![p].outcome = "redeemed"]
  /\ UNCHANGED <<status, pending, redemptions, locks>>

\* lockUserForRefreshTokenRevocation, then the new password and the sessions.
ResetPassword(p) ==
  /\ At(p, "lockUser")
  /\ KnowsUser(p)
  /\ TakeUserLock(p)
  /\ ReadyToCommit(p, "redeemed")

\* The user has another id since the token was read: null is returned, which
\* commits the use of the token.
ResetNobody(p) ==
  /\ At(p, "lockUser")
  /\ ~KnowsUser(p)
  /\ ReadyToCommit(p, "void")
  /\ UNCHANGED userLock

Activatable(p) ==
  /\ At(p, "activate")
  /\ KnowsUser(p) /\ status[Owner(p)] = "PENDING" /\ subject[Owner(p)] # "taken"

\* UPDATE "User" WHERE status = PENDING ...
ActivateUser(p) ==
  /\ Activatable(p) /\ subject[Owner(p)] # "free"
  /\ TakeUserLock(p)
  /\ ReadyToCommit(p, "redeemed")

\* ... which sets the reserved id, too ...
RenameUser(p) ==
  /\ Activatable(p) /\ subject[Owner(p)] = "free"
  /\ TakeUserLock(p)
  /\ Goto(p, "cascade")
  /\ UNCHANGED <<used, status, pending, redemptions, req, rowLock>>

RowKinds == {"reset", "verify"}
RowsOf(u) == {g \in Grant : KindOf[g] \in RowKinds /\ OwnerOf[g] = u}

\* ... and, by ON UPDATE CASCADE, writes the user's token rows.
CascadeRename(p) ==
  /\ At(p, "cascade")
  /\ \A g \in RowsOf(Owner(p)) : rowLock[g] \in {None, p}
  /\ rowLock' = [g \in Grant |-> IF g \in RowsOf(Owner(p)) THEN p ELSE rowLock[g]]
  /\ Goto(p, "commit")
  /\ req' = [req EXCEPT ![p].outcome = "redeemed"]
  /\ UNCHANGED <<used, status, pending, redemptions, userLock>>

\* Mutant: a user row that somebody has locked counts as none.
ActivateSkipsLocked(p) ==
  /\ At(p, "activate")
  /\ \/ ~KnowsUser(p) \/ subject[Owner(p)] = "taken"
     \/ userLock[Owner(p)] # None
     \/ status[Owner(p)] # "PENDING"
  /\ ReadyToCommit(p, "void")
  /\ UNCHANGED userLock

\* Another link was faster, or the reserved subject id is somebody's: null is
\* returned, which commits the use of the token.
ActivateNobody(p) ==
  /\ At(p, "activate")
  /\ \/ ~KnowsUser(p) \/ subject[Owner(p)] = "taken"
     \/ userLock[Owner(p)] = None /\ status[Owner(p)] # "PENDING"
  /\ ReadyToCommit(p, "void")
  /\ UNCHANGED userLock

\* The pending password becomes the user's; a second one is a unique violation.
AttachPassword(p) ==
  /\ At(p, "attach")
  /\ Owner(p) \in pending
  /\ TakeUserLock(p)
  /\ ReadyToCommit(p, "redeemed")

AttachTwice(p) ==
  /\ At(p, "attach")
  /\ userLock[Owner(p)] = None /\ Owner(p) \notin pending
  /\ Refuse(p)

WaitsFor(p, q) ==
  \/ pc[p] \in {"lockUser", "activate", "attach"} /\ userLock[Owner(p)] = q
  \/ At(p, "cascade") /\ \E g \in RowsOf(Owner(p)) : rowLock[g] = q

\* A rename waits for the row of a link whose transaction waits for the user:
\* one of the two is aborted (in FastAPI run again, as if presented again).
BreakDeadlock(p) ==
  /\ \E q \in Proc \ {p} : WaitsFor(p, q) /\ WaitsFor(q, p)
  /\ Refuse(p)

Redeemed(g) == redemptions' = [redemptions EXCEPT ![g] = @ + 1]

Commit(p) ==
  /\ At(p, "commit")
  /\ LET g == req[p].grant
         u == Owner(p)
         for(path) == /\ KindOf[g] = "verify" /\ req[p].path = path
                      /\ req[p].outcome = "redeemed"
     IN /\ used' = used \cup {g}
        /\ subject' = IF for("activate") /\ subject[u] = "free"
                      THEN [subject EXCEPT ![u] = "moved"] ELSE subject
        /\ status' = IF for("activate") THEN [status EXCEPT ![u] = "ACTIVE"] ELSE status
        /\ pending' = IF for("attach") THEN pending \ {u} ELSE pending
        /\ IF req[p].outcome = "redeemed" THEN Redeemed(g) ELSE UNCHANGED redemptions
  /\ End(p)
  /\ Release(p)
-----------------------------------------------------------------------------
(* Keys.                                                                   *)

\* GET of a handoff code, the binding compared on what was read.
GetCode(p) ==
  /\ At(p, "get")
  /\ req[p].grant \notin used
  /\ Goto(p, IF req[p].fresh = "yes" THEN "take" ELSE "drop")
  /\ UNCHANGED <<used, status, pending, redemptions, req, locks>>

\* No such code, or not this client's: the code stays as it is.
GetNoCode(p) ==
  /\ At(p, "get")
  /\ Refuse(p)

Remove(g) == used' = used \cup {g}

\* consumeIfValue of an expired record.
DropExpired(p) ==
  /\ At(p, "drop")
  /\ Remove(req[p].grant)
  /\ End(p)
  /\ UNCHANGED <<status, pending, redemptions, locks>>

\* Mutant: the code is deleted whether or not it is still there.
TakeBlindly(p) ==
  /\ At(p, "take")
  /\ Remove(req[p].grant)
  /\ Goto(p, "issue")
  /\ UNCHANGED <<status, pending, redemptions, req, locks>>

\* consumeIfValue of the record that was read ...
TakeCode(p) ==
  /\ At(p, "take")
  /\ req[p].grant \notin used
  /\ Remove(req[p].grant)
  /\ Goto(p, "issue")
  /\ UNCHANGED <<status, pending, redemptions, req, locks>>

\* Mutant: what somebody else has consumed is tried again.
TakeAgain(p) ==
  /\ At(p, "take")
  /\ req[p].grant \in used
  /\ UNCHANGED vars

\* ... which somebody else has consumed.
TakeNothing(p) ==
  /\ At(p, "take")
  /\ req[p].grant \in used
  /\ Refuse(p)

\* The consume script of an OAuth state: GET and DEL.
ConsumeState(p) ==
  /\ At(p, "consume")
  /\ req[p].grant \notin used
  /\ Remove(req[p].grant)
  /\ Goto(p, "resolve")
  /\ UNCHANGED <<status, pending, redemptions, req, locks>>

ConsumeNothing(p) ==
  /\ At(p, "consume")
  /\ req[p].grant \in used
  /\ Refuse(p)

\* The script ran and its reply was lost.
ReplyLost(p) ==
  /\ pc[p] \in {"take", "consume"}
  /\ Remove(req[p].grant)
  /\ End(p)
  /\ UNCHANGED <<status, pending, redemptions, locks>>

\* issueTokenPair for the id in the code's record, or the identity of the
\* callback.
Pay(p) ==
  /\ pc[p] \in {"issue", "resolve"}
  /\ status[Owner(p)] = "ACTIVE"
  /\ At(p, "issue") => KnowsUser(p)
  /\ Redeemed(req[p].grant)
  /\ End(p)
  /\ UNCHANGED <<used, status, pending, locks>>

\* Another provider's state, a user no longer active, an error: the key is gone
\* for nothing.
PayNothing(p) ==
  /\ pc[p] \in {"issue", "resolve"}
  /\ Refuse(p)
-----------------------------------------------------------------------------
\* An error, a lost connection, the end of a server.
Fail(p) ==
  /\ ~At(p, "idle")
  /\ Refuse(p)

\* Redis deletes a key whose lifetime is over.
Evict(g) ==
  /\ KindOf[g] \in {"state", "code"}
  /\ Remove(g)
  /\ UNCHANGED <<status, pending, redemptions, pc, req, locks>>

\* The INSERT of a password locks its user's key, for which a suspension does not
\* wait.
Attaching(p) == At(p, "commit") /\ KindOf[req[p].grant] = "verify" /\ req[p].path = "attach"

Suspend(u) ==
  /\ userLock[u] # None => Attaching(userLock[u])
  /\ status' = [status EXCEPT ![u] = "SUSPENDED"]
  /\ UNCHANGED <<used, pending, redemptions, pc, req, locks>>

Step(p) ==
  \/ Commit(p)
  \/ /\ UNCHANGED subject
     /\ \/ FindRow(p) \/ FindNoRow(p) \/ ReadEligibility(p) \/ NotEligible(p)
        \/ MarkRow(p) \/ MarkNoRow(p) \/ ResetPassword(p) \/ ResetNobody(p)
        \/ ActivateUser(p) \/ RenameUser(p) \/ CascadeRename(p) \/ ActivateNobody(p)
        \/ AttachPassword(p) \/ AttachTwice(p) \/ BreakDeadlock(p)
        \/ GetCode(p) \/ GetNoCode(p) \/ DropExpired(p) \/ TakeCode(p) \/ TakeNothing(p)
        \/ ConsumeState(p) \/ ConsumeNothing(p) \/ Pay(p) \/ PayNothing(p)

\* What may happen and need not.
Event ==
  /\ UNCHANGED subject
  /\ \/ \E p \in Proc : Present(p) \/ ReplyLost(p) \/ Fail(p)
     \/ \E g \in Grant : Evict(g)
     \/ \E u \in User : Suspend(u)

Next == Event \/ \E p \in Proc : Step(p)

Spec == Init /\ [][Next]_vars

\* Locks are granted in turn, and a server that runs answers its requests.
FairSpec == Spec /\ \A p \in Proc : SF_vars(Step(p))
-----------------------------------------------------------------------------
(* The inductive invariant.                                                *)

\* p has taken a key and not paid yet.
Holding(p) == pc[p] \in {"issue", "resolve"}

\* p has marked a row and not committed yet.
Marking(p) == pc[p] \in {"lockUser", "activate", "cascade", "attach", "commit"}

RequestInv(p) ==
  /\ ~At(p, "idle") => req[p].grant \in Grant
  /\ pc[p] \in {"find", "token", "eligible", "mark"} \/ Marking(p)
       => KindOf[req[p].grant] \in RowKinds
  /\ pc[p] \in {"get", "drop", "take", "consume"} \/ Holding(p)
       => KindOf[req[p].grant] \notin RowKinds
  /\ Marking(p) => rowLock[req[p].grant] = p /\ req[p].grant \notin used
  /\ Holding(p) => req[p].grant \in used /\ redemptions[req[p].grant] = 0

IInv ==
  /\ TypeOK
  /\ \A p \in Proc : RequestInv(p)
  /\ \A p, q \in Proc : Holding(p) /\ Holding(q) /\ req[p].grant = req[q].grant => p = q
  /\ \A g \in Grant : redemptions[g] \in {0, 1} /\ (g \notin used => redemptions[g] = 0)
-----------------------------------------------------------------------------
\* A grant is out of the store and in the hands of one request, redeemed, or
\* lost.
GrantStates ==
  [g \in Grant |->
     IF redemptions[g] > 0 THEN "redeemed"
     ELSE IF g \notin used THEN "open"
     ELSE IF \E p \in Proc : Holding(p) /\ req[p].grant = g THEN "taken"
     ELSE "void"]

Grants == INSTANCE OneTimeGrant WITH state <- GrantStates

\* Whichever servers redeem a grant, at once, after each other or after a lost
\* reply, it is good once and nothing that was spent is open again.
EveryGrantIsOneTime == Grants!Spec

\* A reset link is spent only on a new password, what fails after its mark taking
\* the mark back, with one exception: it is lost if its user was given another id
\* between the read of the token and its mark, as the lock then finds nobody.
ResetLostOnlyToRename ==
  [][\A g \in used' \ used : KindOf[g] = "reset" =>
       \/ redemptions'[g] = 1
       \/ \E p \in Proc : req[p].grant = g /\ At(p, "commit") /\ ~KnowsUser(p)]_vars

\* A verification link is spent without effect only if its user needs it no
\* more, or can never be activated.
VerifySpentOrNeedless ==
  \A g \in used : KindOf[g] = "verify" /\ redemptions[g] = 0 =>
    status[OwnerOf[g]] # "PENDING" \/ subject[OwnerOf[g]] = "taken"

\* A request that presents a grant gets an answer, whoever else presents it, and
\* although a rename and another link of its user may wait for each other.
EveryPresentationEnds == \A p \in Proc : pc[p] # "idle" ~> pc[p] = "idle"
=============================================================================
