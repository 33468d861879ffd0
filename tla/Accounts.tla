------------------------------ MODULE Accounts ------------------------------
(***************************************************************************)
(* How accounts come to be: registration with a password, the e-mailed     *)
(* link that activates an account or attaches a pending password to it,    *)
(* and the first sign-in with a social identity, which links an account,   *)
(* discards an unproved one or creates its own.                            *)
(*                                                                         *)
(* The requests race on the rows of one person: every one of them reads    *)
(* before it writes, without a lock, at READ COMMITTED.  One statement is  *)
(* one action.  A transaction collects what it has written in did[p] and   *)
(* the rows and unique keys it has locked in held[p]; its Commit applies   *)
(* the writes.  The rows of a user that a statement removes or renames by  *)
(* cascade are locked by that statement.                                   *)
(*                                                                         *)
(* Password hashes, the mail itself and the default roles seeded with an   *)
(* account are left out.                                                   *)
(***************************************************************************)
EXTENDS Naturals, FiniteSets

CONSTANTS Id,       \* subject ids: values of "User".id
          Email,    \* normalized addresses
          Social,   \* pairs of a provider and its user id
          Link,     \* rows the EmailVerificationToken table may ever hold
          Proc,     \* requests in flight at the same time
          None

ASSUME NoneAssumption == None \notin Id \cup Email \cup Social \cup Link

VARIABLES reserved,  \* SubjectReservation: the subject id kept for an address
          user,      \* committed User rows
          password,  \* users with a PasswordCredential row
          pending,   \* pending[i]: the PendingPasswordCredential row of i
          social,    \* social[s]: the user of the SocialAccount row of s
          link,      \* committed EmailVerificationToken rows
          lapsed,    \* links whose expiresAt has passed
          pc, req,
          did,       \* what the open transaction of p has written
          held,      \* the locks of the open transaction of p
          made,      \* history: ids that a user has had
          vouched,   \* history: users whose address was proved by a link, or
                     \* whose status an administrator has set
          acts       \* history: changes each link has made

tables == <<user, password, pending, social, link>>
history == <<made, vouched, acts>>
vars == <<reserved, tables, lapsed, pc, req, did, held, history>>

Account == [status: {"absent", "PENDING", "ACTIVE", "SUSPENDED"},
            email: Email \cup {None}, emailVerified: BOOLEAN]

Absent == [status |-> "absent", email |-> None, emailVerified |-> FALSE]

LinkRow == [state: {"free", "mailed", "used", "gone"}, user: Id \cup {None}]

PC == {"idle", "find", "findCredential", "insertUser", "upsert", "lookup",
       "insertLink", "findLink", "readUser", "readPending", "consume", "subject",
       "activate", "attach", "provider", "byEmail", "discard", "linkSocial",
       "owner", "createUser", "insertSocial", "commit", "lost", "handoff"}

Write == {"register", "pend", "mail", "use", "activate", "attach",
          "discard", "create", "social"}

\* found, seen: the user a request has read.  id: the subject id it writes.
\* userEmail: the address an OAuth sign-in gives to the user it creates.
\* fresh, kept: the link, and the pending passwords, unexpired at its start.
Request == [kind: {"none", "register", "mail", "confirm", "oauth"},
            email: Email \cup {None}, verified: BOOLEAN, social: Social \cup {None},
            link: Link \cup {None}, fresh: BOOLEAN, kept: SUBSET Id,
            found: Id \cup {None}, seen: Account, id: Id \cup {None},
            userEmail: Email \cup {None}]

NoRequest == [kind |-> "none", email |-> None, verified |-> FALSE, social |-> None,
              link |-> None, fresh |-> FALSE, kept |-> {},
              found |-> None, seen |-> Absent, id |-> None, userEmail |-> None]

LockMode == {"share", "update", "delete", "id", "email", "password", "pending",
             "social", "link"}

\* Nothing in the program writes a reservation; a subject is kept for one address.
Reservations ==
  {kept \in [Email -> Id \cup {None}] :
     \A d, e \in Email : kept[d] = kept[e] /\ kept[d] # None => d = e}

TypeOK ==
  /\ reserved \in Reservations
  /\ user \in [Id -> Account]
  /\ password \in SUBSET Id
  /\ pending \in [Id -> {"none", "kept", "lapsed"}]
  /\ social \in [Social -> Id \cup {None}]
  /\ link \in [Link -> LinkRow]
  /\ lapsed \in SUBSET Link
  /\ pc \in [Proc -> PC]
  /\ req \in [Proc -> Request]
  /\ did \in [Proc -> SUBSET Write]
  /\ held \in [Proc -> SUBSET (LockMode \X (Id \cup Email \cup Social \cup Link \cup {None}))]
  /\ made \in SUBSET Id
  /\ vouched \in SUBSET Id
  /\ acts \in [Link -> Nat]

Init ==
  /\ reserved \in Reservations
  /\ user = [i \in Id |-> Absent]
  /\ password = {}
  /\ pending = [i \in Id |-> "none"]
  /\ social = [s \in Social |-> None]
  /\ link = [l \in Link |-> [state |-> "free", user |-> None]]
  /\ lapsed = {}
  /\ pc = [p \in Proc |-> "idle"]
  /\ req = [p \in Proc |-> NoRequest]
  /\ did = [p \in Proc |-> {}]
  /\ held = [p \in Proc |-> {}]
  /\ made = {}
  /\ vouched = {}
  /\ acts = [l \in Link |-> 0]
-----------------------------------------------------------------------------
(* Rows, keys and locks.                                                   *)

Present(i) == user[i].status # "absent"

\* Users with the address e: at most one, by the unique index on the address.
OwnersOf(e) == {i \in Id : Present(i) /\ user[i].email = e}

ReservedIds == {reserved[e] : e \in Email} \ {None}

\* application_uuid: an id nobody has had and nobody is about to insert.
FreshIds == Id \ (made \cup ReservedIds \cup {req[q].id : q \in Proc})

\* A foreign key holds the user row in "share"; an UPDATE of its status takes
\* "update"; a DELETE, and an UPDATE of its id, "delete".
Clash(a, b) ==
  /\ a[2] = b[2]
  /\ \/ a[1] = b[1] /\ a[1] # "share"
     \/ a[1] = "delete" /\ b[1] \in {"share", "update"}
     \/ b[1] = "delete" /\ a[1] \in {"share", "update"}

Free(p, L) == \A q \in Proc \ {p} : \A b \in held[q] : \A a \in L : ~Clash(a, b)

\* What goes with a user row that is deleted or gets another id.
Cascade(i) ==
  {<<"delete", i>>, <<"id", i>>, <<"email", user[i].email>>,
   <<"password", i>>, <<"pending", i>>}
  \cup {<<"link", l>> : l \in {k \in Link : link[k].user = i}}
  \cup {<<"social", s>> : s \in {t \in Social : social[t] = i}}
-----------------------------------------------------------------------------
(* Requests and their transactions.                                        *)

At(p, label) == pc[p] = label
Goto(p, label) == pc' = [pc EXCEPT ![p] = label]

Arrive(p, r, label) ==
  /\ At(p, "idle")
  /\ req' = [req EXCEPT ![p] = r]
  /\ Goto(p, label)
  /\ UNCHANGED <<tables, lapsed, did, held, history>>

\* A SELECT: r is the request with what it has read.
Read(p, r, label) ==
  /\ req' = [req EXCEPT ![p] = r]
  /\ Goto(p, label)
  /\ UNCHANGED <<tables, lapsed, did, held, history>>

\* A statement that writes w under the locks L, once they are free.
Execute(p, L, r, w, label) ==
  /\ Free(p, L)
  /\ held' = [held EXCEPT ![p] = @ \cup L]
  /\ did' = [did EXCEPT ![p] = @ \cup {w}]
  /\ req' = [req EXCEPT ![p] = r]
  /\ Goto(p, label)
  /\ UNCHANGED <<tables, lapsed, history>>

Rollback(p) ==
  /\ did' = [did EXCEPT ![p] = {}]
  /\ held' = [held EXCEPT ![p] = {}]

End(p) ==
  /\ Goto(p, "idle")
  /\ req' = [req EXCEPT ![p] = NoRequest]
  /\ Rollback(p)

Abort(p) == End(p) /\ UNCHANGED <<tables, lapsed, history>>

\* The request as it came, with nothing read.
Fresh(r) == [r EXCEPT !.found = None, !.seen = Absent, !.id = None, !.userEmail = None]

\* A unique violation (23505) aborts the transaction; oauth_callback then looks
\* the identity up once more.
Conflict(p) ==
  IF req[p].kind = "oauth"
  THEN /\ Goto(p, "lost")
       /\ req' = [req EXCEPT ![p] = Fresh(req[p])]
       /\ Rollback(p)
       /\ UNCHANGED <<tables, lapsed, history>>
  ELSE Abort(p)
-----------------------------------------------------------------------------
(* register.                                                               *)

StartRegister(p) ==
  \E e \in Email : Arrive(p, [NoRequest EXCEPT !.kind = "register", !.email = e], "find")

FindByEmail(p) ==
  /\ At(p, "find")
  /\ \/ /\ OwnersOf(req[p].email) = {}
        /\ Read(p, req[p], "insertUser")
     \/ \E i \in OwnersOf(req[p].email) :
          Read(p, [req[p] EXCEPT !.found = i, !.seen = user[i]], "findCredential")

\* The credential is looked up by the address it shares with its user.
FindCredential(p) ==
  /\ At(p, "findCredential")
  /\ IF req[p].seen.emailVerified /\ OwnersOf(req[p].email) \cap password = {}
     THEN Read(p, req[p], "upsert")
     ELSE Abort(p)

\* create_user_with_password: the credential's INSERT adds no key of its own.
InsertUser(p) ==
  /\ At(p, "insertUser")
  /\ Free(p, {<<"email", req[p].email>>})
  /\ IF OwnersOf(req[p].email) # {}
     THEN Conflict(p)
     ELSE \E i \in FreshIds :
            Execute(p, {<<"email", req[p].email>>, <<"id", i>>},
                    [req[p] EXCEPT !.id = i], "register", "commit")

\* upsert_pending_password, whose foreign key needs the user still there.
Upsert(p) ==
  /\ At(p, "upsert")
  /\ LET i == req[p].found
         L == {<<"share", i>>, <<"pending", i>>}
     IN /\ Free(p, L)
        /\ IF Present(i) THEN Execute(p, L, req[p], "pend", "commit") ELSE Abort(p)

\* Mutant: the credential is left to a transaction of its own.
UserAlone(i) == password

WithCredential(i) == password \cup {i}

\* Mutant: the password of an existing account is attached without its link.
CommitRegisterAttached(p) ==
  /\ At(p, "commit") /\ req[p].kind = "register"
  /\ LET i == IF "register" \in did[p] THEN req[p].id ELSE req[p].found
     IN /\ password' = password \cup {i}
        /\ IF "register" \in did[p]
           THEN /\ user' = [user EXCEPT ![i] = [status |-> "PENDING", email |-> req[p].email,
                                                emailVerified |-> FALSE]]
                /\ made' = made \cup {i}
           ELSE UNCHANGED <<user, made>>
  /\ End(p)
  /\ UNCHANGED <<pending, social, link, lapsed, vouched, acts>>

CommitRegister(p) ==
  /\ At(p, "commit") /\ req[p].kind = "register"
  /\ \/ /\ "register" \in did[p]
        /\ LET i == req[p].id
           IN /\ user' = [user EXCEPT ![i] = [status |-> "PENDING", email |-> req[p].email,
                                              emailVerified |-> FALSE]]
              /\ password' = WithCredential(i)
              /\ made' = made \cup {i}
        /\ UNCHANGED pending
     \/ /\ "pend" \in did[p]
        /\ pending' = [pending EXCEPT ![req[p].found] = "kept"]
        /\ UNCHANGED <<user, password, made>>
  /\ End(p)
  /\ UNCHANGED <<social, link, lapsed, vouched, acts>>
-----------------------------------------------------------------------------
(* request_email_verification.                                             *)

StartMail(p) ==
  \E e \in Email : Arrive(p, [NoRequest EXCEPT !.kind = "mail", !.email = e], "lookup")

\* find_eligible_user, on a connection of its own.
LookupEligible(p) ==
  /\ At(p, "lookup")
  /\ LET eligible == {i \in OwnersOf(req[p].email) :
                        user[i].status = "PENDING" \/ pending[i] = "kept"}
     IN \/ /\ eligible = {}
           /\ Abort(p)
        \/ \E i \in eligible : Read(p, [req[p] EXCEPT !.found = i], "insertLink")

\* create_token: links mailed before stay valid.
InsertLink(p) ==
  /\ At(p, "insertLink")
  /\ LET i == req[p].found
     IN /\ Free(p, {<<"share", i>>})
        /\ IF Present(i)
           THEN \E l \in {k \in Link : link[k].state = "free"} \ {req[q].link : q \in Proc} :
                  Execute(p, {<<"share", i>>}, [req[p] EXCEPT !.link = l], "mail", "commit")
           ELSE Abort(p)

\* The mail is sent after the commit: a failed send leaves the row.
CommitMail(p) ==
  /\ At(p, "commit") /\ req[p].kind = "mail"
  /\ link' = [link EXCEPT ![req[p].link] = [state |-> "mailed", user |-> req[p].found]]
  /\ End(p)
  /\ UNCHANGED <<user, password, pending, social, lapsed, history>>
-----------------------------------------------------------------------------
(* confirm_email_verification.                                             *)

\* `now' is read before the transaction: every test of an expiry uses it.
StartConfirm(p) ==
  \E l \in Link :
    /\ link[l].state # "free"
    /\ Arrive(p, [NoRequest EXCEPT !.kind = "confirm", !.link = l,
                                   !.fresh = l \notin lapsed,
                                   !.kept = {i \in Id : pending[i] = "kept"}], "findLink")

FindLink(p) ==
  /\ At(p, "findLink")
  /\ LET l == req[p].link
     IN IF link[l].state = "mailed" /\ req[p].fresh
        THEN Read(p, [req[p] EXCEPT !.found = link[l].user], "readUser")
        ELSE Abort(p)

ReadUser(p) ==
  /\ At(p, "readUser")
  /\ Read(p, [req[p] EXCEPT !.seen = user[req[p].found]], "readPending")

CanActivate(r) == r.seen.status = "PENDING"

\* A pending password unexpired at the request's `now': one written since is.
CanAttach(r) ==
  \/ pending[r.found] = "kept"
  \/ pending[r.found] = "lapsed" /\ r.found \in r.kept

ReadPending(p) ==
  /\ At(p, "readPending")
  /\ IF CanActivate(req[p]) \/ CanAttach(req[p])
     THEN Read(p, req[p], "consume")
     ELSE Abort(p)

\* Mutant: the UPDATE lacks its usedAt IS NULL.
ConsumeAnyLink(p) ==
  /\ At(p, "consume")
  /\ LET r == req[p]
     IN /\ Free(p, {<<"link", r.link>>})
        /\ IF link[r.link].state # "gone" /\ link[r.link].user = r.found
           THEN Execute(p, {<<"link", r.link>>}, r, "use",
                        IF CanActivate(r) THEN "subject" ELSE "attach")
           ELSE Abort(p)

\* SET usedAt WHERE id, userId, usedAt IS NULL AND expiresAt > now.
ConsumeLink(p) ==
  /\ At(p, "consume")
  /\ LET r == req[p]
     IN /\ Free(p, {<<"link", r.link>>})
        /\ IF link[r.link] = [state |-> "mailed", user |-> r.found]
           THEN Execute(p, {<<"link", r.link>>}, r, "use",
                        IF CanActivate(r) THEN "subject" ELSE "attach")
           ELSE Abort(p)

\* Mutant: the reservation is not looked up.
KeepSubject(p) ==
  /\ At(p, "subject")
  /\ Read(p, [req[p] EXCEPT !.id = req[p].found], "activate")

\* Mutant: a reserved subject nobody has yet stops the activation too.
ReservedOnly(p) ==
  /\ At(p, "subject")
  /\ LET e == req[p].seen.email
         subject == IF e # None /\ reserved[e] # None THEN reserved[e] ELSE req[p].found
     IN IF subject # req[p].found
        THEN Read(p, req[p], "commit")
        ELSE Read(p, [req[p] EXCEPT !.id = subject], "activate")

\* The id the activation gives: the one reserved for the address, if any.  When
\* another user has it already, the use of the link is all that is committed.
ReadSubject(p) ==
  /\ At(p, "subject")
  /\ LET e == req[p].seen.email
         subject == IF e # None /\ reserved[e] # None THEN reserved[e] ELSE req[p].found
     IN IF subject # req[p].found /\ Present(subject)
        THEN Read(p, req[p], "commit")
        ELSE Read(p, [req[p] EXCEPT !.id = subject], "activate")

\* UPDATE "User" SET id, status, emailVerified WHERE status is still pending.
Activate(p) ==
  /\ At(p, "activate")
  /\ LET i == req[p].found
         j == req[p].id
         L == IF j = i THEN {<<"update", i>>} ELSE Cascade(i) \cup {<<"id", j>>}
     IN /\ Free(p, L)
        /\ IF user[i].status # "PENDING"
           THEN Read(p, req[p], "commit")
           ELSE IF j # i /\ Present(j)
                THEN Conflict(p)
                ELSE Execute(p, L, req[p], "activate", "commit")

\* The INSERT of the credential and the DELETE of the pending row it came from.
Attach(p) ==
  /\ At(p, "attach")
  /\ LET i == req[p].found
         L == {<<"share", i>>, <<"password", i>>, <<"pending", i>>}
     IN /\ Free(p, L)
        /\ IF Present(i) /\ i \notin password /\ pending[i] # "none"
           THEN Execute(p, L, req[p], "attach", "commit")
           ELSE Abort(p)

\* A user row with another id takes the rows that refer to it along.
Renamed(i, j, k) == IF k = i THEN j ELSE k

CommitConfirm(p) ==
  /\ At(p, "commit") /\ req[p].kind = "confirm"
  /\ LET r == req[p]
         i == r.found
         j == IF "activate" \in did[p] THEN r.id ELSE i
     IN /\ link' = [l \in Link |->
                      [state |-> IF l = r.link THEN "used" ELSE link[l].state,
                       user |-> Renamed(i, j, link[l].user)]]
        /\ user' = IF "activate" \in did[p]
                   THEN [k \in Id |->
                           IF k = j THEN [status |-> "ACTIVE", email |-> user[i].email,
                                          emailVerified |-> TRUE]
                           ELSE IF k = i THEN Absent ELSE user[k]]
                   ELSE user
        /\ password' = {Renamed(i, j, k) : k \in password}
                         \cup (IF "attach" \in did[p] THEN {i} ELSE {})
        /\ pending' = [k \in Id |->
                         IF k = j /\ "attach" \notin did[p] THEN pending[i]
                         ELSE IF k = i THEN "none" ELSE pending[k]]
        /\ social' = [s \in Social |-> Renamed(i, j, social[s])]
        /\ made' = made \cup {j}
        /\ vouched' = vouched \cup {i, j}
        /\ acts' = IF {"activate", "attach"} \cap did[p] # {}
                   THEN [acts EXCEPT ![r.link] = @ + 1] ELSE acts
        /\ IF "activate" \in did[p] \/ "attach" \in did[p]
           THEN /\ Goto(p, "handoff")
                /\ req' = [req EXCEPT ![p] = [r EXCEPT !.found = j]]
                /\ Rollback(p)
           ELSE End(p)
  /\ UNCHANGED lapsed
-----------------------------------------------------------------------------
(* oauth_callback, once the provider has answered with the profile.        *)

StartOAuth(p) ==
  \E s \in Social, e \in Email \cup {None}, v \in BOOLEAN :
    Arrive(p, [NoRequest EXCEPT !.kind = "oauth", !.social = s, !.email = e,
                                !.verified = v], "provider")

\* find_by_provider_id; only an ACTIVE user signs in.
SignInKnown(p) ==
  LET i == social[req[p].social]
  IN IF i # None /\ user[i].status = "ACTIVE"
     THEN Read(p, [req[p] EXCEPT !.found = i], "handoff")
     ELSE Abort(p)

FindByProvider(p) ==
  /\ At(p, "provider")
  /\ \/ /\ social[req[p].social] # None
        /\ SignInKnown(p)
     \/ /\ social[req[p].social] = None
        /\ Read(p, [req[p] EXCEPT !.userEmail = req[p].email],
                IF req[p].email = None THEN "createUser"
                ELSE IF req[p].verified THEN "byEmail" ELSE "owner")

\* Mutant: an address nobody has proved is as good as a verified one.
FindByEmailOnly(p) ==
  /\ At(p, "byEmail")
  /\ \/ /\ OwnersOf(req[p].email) = {}
        /\ Read(p, req[p], "owner")
     \/ \E i \in OwnersOf(req[p].email) :
          Read(p, [req[p] EXCEPT !.found = i, !.seen = user[i]],
               IF user[i].status = "PENDING" /\ ~user[i].emailVerified THEN "discard"
               ELSE IF user[i].status = "ACTIVE" THEN "linkSocial"
               ELSE "owner")

\* resolve_or_create: the user with the provider's verified address.
FindByVerifiedEmail(p) ==
  /\ At(p, "byEmail")
  /\ \/ /\ OwnersOf(req[p].email) = {}
        /\ Read(p, req[p], "owner")
     \/ \E i \in OwnersOf(req[p].email) :
          Read(p, [req[p] EXCEPT !.found = i, !.seen = user[i]],
               IF user[i].status = "PENDING" /\ ~user[i].emailVerified THEN "discard"
               ELSE IF user[i].status = "ACTIVE" /\ user[i].emailVerified THEN "linkSocial"
               ELSE "owner")

\* DELETE FROM "User" WHERE id: the status it was read with is not tested again.
Discard(p) ==
  /\ At(p, "discard")
  /\ LET i == req[p].found
     IN /\ Free(p, Cascade(i))
        /\ IF Present(i)
           THEN Execute(p, Cascade(i), req[p], "discard", "owner")
           ELSE Abort(p)

\* The SocialAccount row of s, for a user that is there or has just been made.
Taken(p, s) ==
  social[s] \notin {None} \cup (IF "discard" \in did[p] THEN {req[p].found} ELSE {})

LinkSocial(p) ==
  /\ At(p, "linkSocial")
  /\ LET i == req[p].found
         L == {<<"share", i>>, <<"social", req[p].social>>}
     IN /\ Free(p, L)
        /\ IF Taken(p, req[p].social) THEN Conflict(p)
           ELSE IF Present(i) THEN Execute(p, L, req[p], "social", "commit")
           ELSE Abort(p)

\* An address somebody else has is not given to the new user.
OthersOf(p, e) ==
  OwnersOf(e) \ (IF "discard" \in did[p] THEN {req[p].found} ELSE {})

FindOwner(p) ==
  /\ At(p, "owner")
  /\ Read(p, [req[p] EXCEPT !.userEmail =
                IF OthersOf(p, req[p].email) # {} THEN None ELSE req[p].email],
          "createUser")

CreateUser(p) ==
  /\ At(p, "createUser")
  /\ LET e == req[p].userEmail
         gone == IF "discard" \in did[p] THEN {req[p].found} ELSE {}
     IN \E i \in IF e # None /\ reserved[e] # None THEN {reserved[e]} ELSE FreshIds :
          LET L == {<<"id", i>>} \cup (IF e = None THEN {} ELSE {<<"email", e>>})
          IN /\ Free(p, L)
             /\ IF (Present(i) /\ i \notin gone) \/ (e # None /\ OthersOf(p, e) # {})
                THEN Conflict(p)
                ELSE Execute(p, L, [req[p] EXCEPT !.id = i], "create", "insertSocial")

InsertSocial(p) ==
  /\ At(p, "insertSocial")
  /\ LET L == {<<"social", req[p].social>>}
     IN /\ Free(p, L)
        /\ IF Taken(p, req[p].social) THEN Conflict(p)
           ELSE Execute(p, L, req[p], "social", "commit")

CommitOAuth(p) ==
  /\ At(p, "commit") /\ req[p].kind = "oauth"
  /\ LET r == req[p]
         gone == IF "discard" \in did[p] THEN {r.found} ELSE {}
         new == IF "create" \in did[p] THEN r.id ELSE r.found
     IN /\ user' = [k \in Id |->
                      IF "create" \in did[p] /\ k = new
                      THEN [status |-> "ACTIVE", email |-> r.userEmail,
                            emailVerified |-> r.verified]
                      ELSE IF k \in gone THEN Absent ELSE user[k]]
        /\ password' = password \ gone
        /\ pending' = [k \in Id |-> IF k \in gone THEN "none" ELSE pending[k]]
        /\ social' = [s \in Social |-> IF s = r.social THEN new
                                       ELSE IF social[s] \in gone THEN None ELSE social[s]]
        /\ link' = [l \in Link |-> IF link[l].user \in gone
                                   THEN [state |-> "gone", user |-> None] ELSE link[l]]
        /\ made' = made \cup {new}
        /\ vouched' = vouched \ gone
        /\ req' = [req EXCEPT ![p] = [Fresh(r) EXCEPT !.found = new]]
  /\ Goto(p, "handoff")
  /\ Rollback(p)
  /\ UNCHANGED <<lapsed, acts>>

\* Mutant: the loser of the race goes on with what it had found itself.
SignInAnyone(p) ==
  /\ At(p, "lost")
  /\ \E i \in OwnersOf(req[p].email) : Read(p, [req[p] EXCEPT !.found = i], "handoff")

\* After a unique violation, on a new connection.
ResolveLost(p) == At(p, "lost") /\ SignInKnown(p)
-----------------------------------------------------------------------------
\* The handoff code is made in Redis, or its creation fails: the rows stay.
Handoff(p) == At(p, "handoff") /\ Abort(p)

\* A database error or the loss of the server process.
Fail(p) == ~At(p, "idle") /\ Abort(p)

FirstStatement(r) ==
  CASE r.kind = "register" -> "find"
    [] r.kind = "mail"     -> "insertLink"
    [] r.kind = "confirm"  -> "findLink"
    [] OTHER               -> "provider"

\* Database.transaction: a deadlock, or a serialization failure, reported to
\* any statement rolls back, and the callback is run again.  What
\* request_email_verification had looked up before is kept.
Retry(p) ==
  /\ pc[p] \notin {"idle", "lookup", "lost", "handoff"}
  /\ Goto(p, FirstStatement(req[p]))
  /\ req' = [req EXCEPT ![p] =
               IF @.kind = "mail" THEN [@ EXCEPT !.link = None] ELSE Fresh(@)]
  /\ Rollback(p)
  /\ UNCHANGED <<tables, lapsed, history>>

LapseLink(l) ==
  /\ link[l].state = "mailed"
  /\ lapsed' = lapsed \cup {l}
  /\ UNCHANGED <<tables, pc, req, did, held, history>>

LapsePending(i) ==
  /\ pending[i] = "kept"
  /\ pending' = [pending EXCEPT ![i] = "lapsed"]
  /\ UNCHANGED <<user, password, social, link, lapsed, pc, req, did, held, history>>

\* set_user_status, in one step: its UPDATE waits for the user row.
Administer(i) ==
  /\ Present(i)
  /\ \A p \in Proc : held[p] \cap {<<"update", i>>, <<"delete", i>>} = {}
  /\ \E s \in {"PENDING", "ACTIVE", "SUSPENDED"} :
       user' = [user EXCEPT ![i].status = s]
  /\ vouched' = vouched \cup {i}
  /\ UNCHANGED <<password, pending, social, link, lapsed, pc, req, did, held, made, acts>>

Step(p) ==
  \/ FindByEmail(p) \/ FindCredential(p) \/ InsertUser(p) \/ Upsert(p)
  \/ CommitRegister(p)
  \/ LookupEligible(p) \/ InsertLink(p) \/ CommitMail(p)
  \/ FindLink(p) \/ ReadUser(p) \/ ReadPending(p) \/ ConsumeLink(p)
  \/ ReadSubject(p) \/ Activate(p) \/ Attach(p) \/ CommitConfirm(p)
  \/ FindByProvider(p) \/ FindByVerifiedEmail(p) \/ Discard(p) \/ LinkSocial(p)
  \/ FindOwner(p) \/ CreateUser(p) \/ InsertSocial(p) \/ CommitOAuth(p)
  \/ ResolveLost(p) \/ Handoff(p)

Next ==
  /\ UNCHANGED reserved
  /\ \/ \E p \in Proc : \/ StartRegister(p) \/ StartMail(p) \/ StartConfirm(p) \/ StartOAuth(p)
                        \/ Step(p) \/ Fail(p) \/ Retry(p)
     \/ \E l \in Link : LapseLink(l)
     \/ \E i \in Id : LapsePending(i) \/ Administer(i)

Spec == Init /\ [][Next]_vars
-----------------------------------------------------------------------------
\* No password opens an ACTIVE account unless somebody has answered for its
\* address: a link mailed to it was used, or an administrator set its status.
\* A password registered before the address's owner came never survives.
PasswordVouched == \A i \in password : user[i].status = "ACTIVE" => i \in vouched

\* Whatever links, discards and renames, an account keeps a way to sign in: a
\* credential or a social identity.  So a confirmation whose handoff fails,
\* with its link burnt, leaves its user able to sign in.
EveryAccountReachable ==
  \A i \in Id : Present(i) => i \in password \/ \E s \in Social : social[s] = i

\* A proved address with a reserved subject belongs to that subject.
ReservedSubject ==
  \A i \in Id :
    LET e == user[i].email
    IN Present(i) /\ user[i].emailVerified /\ e # None =>
         reserved[e] \in {None, i}

\* A link changes an account at most once, however often it is followed.
LinkActsOnce ==
  \A l \in Link : acts[l] <= IF link[l].state \in {"used", "gone"} THEN 1 ELSE 0

\* A link is used in vain only when somebody had answered for its user before,
\* or when the subject reserved for the address had become somebody else's.
NoLinkWasted ==
  [][\A l \in Link :
       /\ link[l].state = "mailed" /\ link'[l].state = "used"
       /\ acts'[l] = acts[l]
       => LET i == link[l].user
          IN \/ i \in vouched
             \/ user[i].email # None /\ reserved[user[i].email] \in made \ {i}]_vars

\* An identity comes to an account that existed only by the account's proved
\* address, verified by the provider too: a sign-in never takes over another's.
SocialLinkedByProof ==
  [][\A p \in Proc :
       LET s == req[p].social
       IN At(p, "commit") /\ s # None /\ social'[s] # social[s] =>
            LET i == social'[s]
            IN \/ ~Present(i)
               \/ "create" \in did[p]
               \/ user[i].emailVerified /\ req[p].verified /\ user[i].email = req[p].email]_vars

\* Whoever wins a race of first sign-ins, every one that succeeds signs in the
\* user who owns the identity at that moment, and that user exists.
OwnerSignsIn ==
  [][\A p \in Proc :
       req[p].kind = "oauth" /\ pc[p] # "handoff" /\ pc'[p] = "handoff" =>
         /\ social'[req[p].social] = req'[p].found
         /\ user'[req'[p].found].status # "absent"]_vars

\* The documented rule: a sign-in with a verified address discards the pending,
\* unverified account of that address, and no other.
OnlyPendingDiscarded ==
  [][\A i \in Id, p \in Proc :
       /\ At(p, "commit") /\ "discard" \in did[p] /\ req[p].found = i
       /\ user'[i].status = "absent"
       => user[i].status = "PENDING" /\ ~user[i].emailVerified]_vars
=============================================================================
