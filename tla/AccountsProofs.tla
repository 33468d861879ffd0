--------------------------- MODULE AccountsProofs ---------------------------
(***************************************************************************)
(* Proofs about Accounts: whatever registrations, confirmations, sign-ins  *)
(* and administrators race, no password opens an account nobody answered   *)
(* for, every account keeps a way in, a link acts once and is wasted only  *)
(* for a reason, and an identity goes to nobody else's account.            *)
(*                                                                         *)
(* Requests read without a lock, so RequestInv says of what a request has  *)
(* read only what stays true while others write; and of what it tested     *)
(* under a lock, that it holds while the lock is held.  OthersLemma shows  *)
(* both kept by a commit of another, from the locks the other held         *)
(* (Footprint); a step that commits nothing is QuietLemma.                 *)
(***************************************************************************)
EXTENDS Accounts, TLAPS

\* The user a sign-in has deleted, if any.
Gone(r, D) == IF "discard" \in D THEN {r.found} ELSE {}

\* The id an account of the address e gets: i is the one it would have otherwise.
SubjectFor(e, i) == IF e # None /\ reserved[e] # None THEN reserved[e] ELSE i

\* The link a confirmation has found is still there for the user it was found for.
Mailed(r) == link[r.link] = [state |-> "mailed", user |-> r.found]
-----------------------------------------------------------------------------
(* The invariant of one request: label is its place, r what it has read, D *)
(* what its transaction has written and H the locks that it holds.         *)

\* Where a request can be, and what it has written there.
RegisterPlace(label, r, D) ==
  /\ r.email \in Email
  /\ \/ label \in {"find", "insertUser"} /\ D = {}
     \/ label \in {"findCredential", "upsert"} /\ D = {} /\ r.found \in Id
     \/ label = "commit" /\ D \in {{"register"}, {"pend"}}

MailPlace(label, r, D) ==
  \/ label = "lookup" /\ D = {} /\ r.email \in Email
  \/ label = "insertLink" /\ D = {} /\ r.found \in Id
  \/ label = "commit" /\ D = {"mail"} /\ r.found \in Id /\ r.link \in Link

ConfirmPlace(label, r, D) ==
  /\ r.link \in Link /\ link[r.link].state # "free"
  /\ \/ label \in {"findLink", "handoff"} /\ D = {}
     \/ /\ r.found \in Id
        /\ \/ label \in {"readUser", "readPending", "consume"} /\ D = {}
           \/ label \in {"subject", "activate", "attach"} /\ D = {"use"}
           \/ label = "commit" /\ D \in {{"use"}, {"use", "activate"}, {"use", "attach"}}

OAuthPlace(label, r, D) ==
  /\ r.social \in Social
  /\ \/ label \in {"provider", "lost", "handoff"} /\ D = {}
     \/ label = "byEmail" /\ D = {} /\ r.email \in Email /\ r.verified
     \/ /\ label \in {"discard", "linkSocial"} /\ D = {}
        /\ r.email \in Email /\ r.verified /\ r.found \in Id
     \/ label = "owner" /\ D \in {{}, {"discard"}} /\ r.email \in Email
     \/ label = "createUser" /\ D \in {{}, {"discard"}}
     \/ label = "insertSocial" /\ D \in {{"create"}, {"discard", "create"}}
     \/ label = "commit" /\ D \in {{"social"}, {"create", "social"},
                                   {"discard", "create", "social"}}

PlaceInv(label, r, D) ==
  /\ r.kind = "none" => label = "idle" /\ D = {}
  /\ r.kind = "register" => RegisterPlace(label, r, D)
  /\ r.kind = "mail" => MailPlace(label, r, D)
  /\ r.kind = "confirm" => ConfirmPlace(label, r, D)
  /\ r.kind = "oauth" => OAuthPlace(label, r, D)
  /\ r.kind # "oauth" => r.social = None

\* The user a sign-in has found has its address, and has proved it, unless the
\* user is gone.
SeenInv(label, r) ==
  label \in {"discard", "linkSocial"} =>
    /\ r.found \in made
    /\ Present(r.found) =>
         /\ user[r.found].email = r.email
         /\ label = "linkSocial" => user[r.found].emailVerified

\* A link passes from the user it was found for to a reserved subject only, and
\* a user who is no longer pending has been vouched for.
LinkInv(label, r, D) ==
  LET i == r.found
  IN /\ r.kind = "confirm" /\ label \notin {"findLink", "handoff"} =>
          link[r.link].user \in {i, None} \cup ReservedIds
     /\ r.kind = "confirm" /\ label \notin {"findLink", "readUser", "handoff"} /\ Mailed(r) =>
          /\ user[i].email = r.seen.email
          /\ r.seen.status = "PENDING" /\ user[i].status # "PENDING" => i \in vouched
     /\ label \in {"subject", "activate"} \/ "activate" \in D => r.seen.status = "PENDING"
     /\ label = "activate" \/ "activate" \in D => r.id = SubjectFor(r.seen.email, i)
     /\ label = "commit" /\ D = {"use"} =>
          \/ i \in vouched
          \/ r.seen.email # None /\ reserved[r.seen.email] \in made \ {i}

\* What was tested when a lock was taken holds while the lock is held.
RegisterInv(r, D, H) ==
  LET i == r.found
  IN /\ "register" \in D =>
          /\ {<<"email", r.email>>, <<"id", r.id>>} \subseteq H
          /\ OwnersOf(r.email) = {}
          /\ r.id \in Id \ (made \cup ReservedIds)
     /\ "pend" \in D =>
          {<<"share", i>>, <<"pending", i>>} \subseteq H /\ i \in Id /\ Present(i)
     /\ "mail" \in D =>
          <<"share", i>> \in H /\ Present(i) /\ link[r.link].state = "free"

ConfirmInv(r, D, H) ==
  LET i == r.found
  IN /\ "use" \in D => <<"link", r.link>> \in H /\ Mailed(r)
     /\ "activate" \in D =>
          /\ user[i].status = "PENDING"
          /\ r.id = i => <<"update", i>> \in H
          /\ r.id # i => /\ Cascade(i) \cup {<<"id", r.id>>} \subseteq H
                         /\ r.id \in Id /\ ~Present(r.id)
     /\ "attach" \in D =>
          /\ {<<"share", i>>, <<"password", i>>, <<"pending", i>>} \subseteq H
          /\ Present(i) /\ i \notin password

DiscardInv(label, r, D, H) ==
  LET i == r.found
  IN "discard" \in D =>
       /\ Cascade(i) \subseteq H
       /\ i \in Id /\ Present(i) /\ user[i].email = r.email
       /\ r.email \in Email /\ r.verified
       /\ label # "owner" => r.userEmail = r.email

CreateInv(r, D, H) ==
  LET e == r.userEmail
  IN "create" \in D =>
       /\ <<"id", r.id>> \in H /\ r.id \in Id
       /\ IF e # None /\ reserved[e] # None
          THEN r.id = reserved[e]
          ELSE r.id \notin made \cup ReservedIds
       /\ Present(r.id) => r.id \in Gone(r, D)
       /\ e # None => <<"email", e>> \in H /\ OwnersOf(e) \subseteq Gone(r, D)

SocialInv(r, D, H) ==
  LET i == r.found
  IN "social" \in D =>
       /\ <<"social", r.social>> \in H
       /\ social[r.social] \in {None} \cup Gone(r, D)
       /\ "create" \notin D =>
            /\ <<"share", i>> \in H /\ i \in Id /\ Present(i)
            /\ user[i].emailVerified /\ user[i].email = r.email /\ r.verified

RequestInv(label, r, D, H) ==
  /\ PlaceInv(label, r, D) /\ SeenInv(label, r) /\ LinkInv(label, r, D)
  /\ RegisterInv(r, D, H) /\ ConfirmInv(r, D, H)
  /\ DiscardInv(label, r, D, H) /\ CreateInv(r, D, H) /\ SocialInv(r, D, H)
-----------------------------------------------------------------------------
(* The invariant of all.                                                   *)

\* No two transactions hold locks that clash, nor insert the same link.
LockInv ==
  /\ \A p, q \in Proc : p # q => \A a \in held[p], b \in held[q] : ~Clash(a, b)
  /\ \A p, q \in Proc : "mail" \in did[p] /\ "mail" \in did[q]
                          /\ req[p].link = req[q].link => p = q

\* Unique addresses, foreign keys, and reserved subjects: they have their own
\* address, and once made they stay.
RowsInv ==
  /\ \A i \in Id : Present(i) => i \in made
  /\ \A i \in made \cap ReservedIds : Present(i)
  /\ \A i \in ReservedIds : Present(i) =>
       user[i].email # None /\ reserved[user[i].email] = i
  /\ \A i, j \in Id : Present(i) /\ Present(j) /\ user[i].email = user[j].email
                        /\ user[i].email # None => i = j
  /\ \A i \in password : Present(i)
  /\ \A s \in Social : social[s] # None => Present(social[s])
  /\ \A l \in Link : IF link[l].state \in {"mailed", "used"}
                     THEN link[l].user \in Id /\ Present(link[l].user)
                     ELSE link[l].user = None

AccountsInv ==
  /\ TypeOK /\ LockInv /\ RowsInv
  /\ PasswordVouched /\ EveryAccountReachable /\ LinkActsOnce /\ ReservedSubject
  /\ \A p \in Proc : RequestInv(pc[p], req[p], did[p], held[p])
-----------------------------------------------------------------------------
(* Steps that commit nothing.                                              *)

Locks == LockMode \X (Id \cup Email \cup Social \cup Link \cup {None})

LEMMA FrameLemma ==
  ASSUME UNCHANGED <<reserved, user, password, social, link, history>>,
         NEW label, NEW r, NEW D, NEW H, RequestInv(label, r, D, H)
  PROVE  RequestInv(label, r, D, H)'
<1> USE DEF history, RequestInv, Present, OwnersOf, ReservedIds, Mailed, SubjectFor
<1>1. PlaceInv(label, r, D)' /\ SeenInv(label, r)'
  BY DEF PlaceInv, RegisterPlace, MailPlace, ConfirmPlace, OAuthPlace, SeenInv
<1>2. LinkInv(label, r, D)' /\ RegisterInv(r, D, H)'
  BY DEF LinkInv, RegisterInv
<1>3. ConfirmInv(r, D, H)' /\ DiscardInv(label, r, D, H)'
  BY DEF ConfirmInv, DiscardInv, Cascade
<1>4. CreateInv(r, D, H)' /\ SocialInv(r, D, H)'
  BY DEF CreateInv, SocialInv, Gone
<1>5. QED
  BY <1>1, <1>2, <1>3, <1>4

LEMMA ClashLemma == \A a, b : Clash(a, b) <=> Clash(b, a)
  BY DEF Clash

LEMMA QuietLemma ==
  ASSUME AccountsInv, NEW p \in Proc,
         UNCHANGED <<reserved, tables, history>>, lapsed' \in SUBSET Link,
         NEW label \in PC, NEW r \in Request, NEW D \in SUBSET Write, NEW H \in SUBSET Locks,
         pc' = [pc EXCEPT ![p] = label], req' = [req EXCEPT ![p] = r],
         did' = [did EXCEPT ![p] = D], held' = [held EXCEPT ![p] = H],
         RequestInv(label, r, D, H),
         \A q \in Proc \ {p} : \A a \in H, b \in held[q] : ~Clash(a, b),
         "mail" \in D =>
           \A q \in Proc \ {p} : "mail" \in did[q] => req[q].link # r.link
  PROVE  AccountsInv'
<1>1. TypeOK /\ LockInv
  BY DEF AccountsInv
<1>2. TypeOK'
  BY <1>1 DEF TypeOK, tables, history, Locks, Reservations
<1>3. /\ pc'[p] = label /\ req'[p] = r /\ did'[p] = D /\ held'[p] = H
      /\ \A q \in Proc \ {p} : /\ pc'[q] = pc[q] /\ req'[q] = req[q]
                               /\ did'[q] = did[q] /\ held'[q] = held[q]
  BY <1>1 DEF TypeOK
<1>4. LockInv'
  <2>1. \A q, s \in Proc : q # s => \A a \in held'[q], b \in held'[s] : ~Clash(a, b)
    BY <1>1, <1>3, ClashLemma DEF LockInv
  <2>2. \A q, s \in Proc : "mail" \in did'[q] /\ "mail" \in did'[s]
                             /\ req'[q].link = req'[s].link => q = s
    BY <1>1, <1>3 DEF LockInv
  <2>3. QED
    BY <2>1, <2>2 DEF LockInv, Clash
<1>5. /\ RowsInv' /\ PasswordVouched' /\ EveryAccountReachable' /\ LinkActsOnce'
      /\ ReservedSubject'
  BY DEF AccountsInv, RowsInv, PasswordVouched, EveryAccountReachable, LinkActsOnce,
         ReservedSubject, Present, ReservedIds, tables, history
<1>6. ASSUME NEW q \in Proc PROVE RequestInv(pc[q], req[q], did[q], held[q])'
  BY <1>3, FrameLemma DEF AccountsInv, tables
<1>7. QED
  BY <1>2, <1>4, <1>5, <1>6 DEF AccountsInv

LEMMA OwnLemma ==
  ASSUME AccountsInv, NEW p \in Proc
  PROVE  /\ pc[p] \in PC /\ req[p] \in Request /\ did[p] \in SUBSET Write
         /\ held[p] \in SUBSET Locks
         /\ RequestInv(pc[p], req[p], did[p], held[p])
         /\ TypeOK /\ LockInv /\ RowsInv
  BY DEF AccountsInv, TypeOK, Locks

LEMMA ReadLemma ==
  ASSUME AccountsInv, NEW p \in Proc, UNCHANGED reserved,
         NEW r \in Request, NEW label \in PC, Read(p, r, label) \/ Arrive(p, r, label),
         "mail" \notin did[p], RequestInv(label, r, did[p], held[p])
  PROVE  AccountsInv'
<1>1. TypeOK /\ LockInv
  BY OwnLemma
<1>2. /\ pc' = [pc EXCEPT ![p] = label] /\ req' = [req EXCEPT ![p] = r]
      /\ did' = [did EXCEPT ![p] = did[p]] /\ held' = [held EXCEPT ![p] = held[p]]
      /\ UNCHANGED <<tables, lapsed, history>>
  BY <1>1 DEF Read, Arrive, Goto, TypeOK
<1>3. lapsed' \in SUBSET Link
  BY <1>1, <1>2 DEF TypeOK
<1>4. \A q \in Proc \ {p} : \A a \in held[p], b \in held[q] : ~Clash(a, b)
  BY <1>1 DEF LockInv
<1>5. QED
  BY <1>2, <1>3, <1>4, OwnLemma, QuietLemma

LEMMA ExecuteLemma ==
  ASSUME AccountsInv, NEW p \in Proc, UNCHANGED reserved,
         NEW r \in Request, NEW label \in PC, NEW L \in SUBSET Locks, NEW w \in Write,
         Execute(p, L, r, w, label), "mail" \notin did[p],
         w = "mail" => \A q \in Proc \ {p} : req[q].link # r.link,
         RequestInv(label, r, did[p] \cup {w}, held[p] \cup L)
  PROVE  AccountsInv'
<1>1. TypeOK /\ LockInv
  BY OwnLemma
<1>2. /\ pc' = [pc EXCEPT ![p] = label] /\ req' = [req EXCEPT ![p] = r]
      /\ did' = [did EXCEPT ![p] = did[p] \cup {w}]
      /\ held' = [held EXCEPT ![p] = held[p] \cup L]
      /\ UNCHANGED <<tables, lapsed, history>>
  BY <1>1 DEF Execute, Goto, TypeOK
<1>3. lapsed' \in SUBSET Link
  BY <1>1, <1>2 DEF TypeOK
<1>4. \A q \in Proc \ {p} : \A a \in held[p] \cup L, b \in held[q] : ~Clash(a, b)
  BY <1>1 DEF LockInv, Execute, Free
<1>5. did[p] \cup {w} \in SUBSET Write /\ held[p] \cup L \in SUBSET Locks
  BY OwnLemma
<1>6. QED
  BY <1>2, <1>3, <1>4, <1>5, QuietLemma

\* A request that begins again, or ends, has written and locked nothing.
LEMMA RollbackLemma ==
  ASSUME AccountsInv, NEW p \in Proc, UNCHANGED <<reserved, tables, lapsed, history>>,
         NEW r \in Request, NEW label \in PC, Rollback(p),
         pc' = [pc EXCEPT ![p] = label], req' = [req EXCEPT ![p] = r],
         RequestInv(label, r, {}, {})
  PROVE  AccountsInv'
<1>1. TypeOK /\ lapsed' \in SUBSET Link
  BY OwnLemma DEF TypeOK
<1>2. QED
  <2>1. did' = [did EXCEPT ![p] = {}] /\ held' = [held EXCEPT ![p] = {}]
    BY DEF Rollback
  <2> SUFFICES ASSUME NEW D \in SUBSET Write, NEW H \in SUBSET Locks, D = {}, H = {}
               PROVE  AccountsInv'
    OBVIOUS
  <2>2. QED
    BY <1>1, <2>1, QuietLemma

LEMMA AbortLemma ==
  ASSUME AccountsInv, NEW p \in Proc, UNCHANGED reserved, Abort(p)
  PROVE  AccountsInv'
<1>1. NoRequest \in Request /\ "idle" \in PC
  BY DEF NoRequest, Request, PC, Account, Absent
<1>2. RequestInv("idle", NoRequest, {}, {})
  BY DEF NoRequest, RequestInv, PlaceInv, SeenInv, LinkInv, RegisterInv, ConfirmInv,
         DiscardInv, CreateInv, SocialInv
<1>3. QED
  BY <1>1, <1>2, RollbackLemma DEF Abort, End, Goto

\* The fields that Fresh empties, and those it keeps.
LEMMA FreshLemma ==
  ASSUME NEW r \in Request
  PROVE  /\ Fresh(r) \in Request
         /\ Fresh(r).kind = r.kind /\ Fresh(r).email = r.email
         /\ Fresh(r).verified = r.verified /\ Fresh(r).social = r.social
         /\ Fresh(r).link = r.link
  BY DEF Fresh, Request, Account, Absent

LEMMA ConflictLemma ==
  ASSUME AccountsInv, NEW p \in Proc, UNCHANGED reserved, Conflict(p)
  PROVE  AccountsInv'
<1>1. CASE req[p].kind = "oauth"
  <2> SUFFICES ASSUME NEW r, r = Fresh(req[p]) PROVE AccountsInv'
    OBVIOUS
  <2>1. r \in Request /\ r.kind = "oauth" /\ r.social = req[p].social /\ "lost" \in PC
    BY <1>1, OwnLemma, FreshLemma DEF PC
  <2>2. req[p].social \in Social
    BY <1>1, OwnLemma DEF RequestInv, PlaceInv, OAuthPlace
  <2>3. RequestInv("lost", r, {}, {})
    BY <2>1, <2>2 DEF RequestInv, PlaceInv, OAuthPlace, SeenInv, LinkInv, RegisterInv,
                      ConfirmInv, DiscardInv, CreateInv, SocialInv
  <2>4. QED
    BY <1>1, <2>1, <2>3, RollbackLemma DEF Conflict, Goto
<1>2. CASE req[p].kind # "oauth"
  BY <1>2, AbortLemma DEF Conflict
<1>3. QED
  BY <1>1, <1>2

LEMMA RetryLemma ==
  ASSUME AccountsInv, NEW p \in Proc, UNCHANGED reserved, Retry(p)
  PROVE  AccountsInv'
<1>1. /\ req[p] \in Request /\ PlaceInv(pc[p], req[p], did[p])
      /\ pc[p] \notin {"idle", "lookup", "lost", "handoff"}
      /\ req[p].kind \in {"register", "mail", "confirm", "oauth"}
  BY OwnLemma DEF RequestInv, PlaceInv, Retry, Request
<1> DEFINE r == IF req[p].kind = "mail" THEN [req[p] EXCEPT !.link = None] ELSE Fresh(req[p])
           label == FirstStatement(req[p])
<1>2. /\ r \in Request /\ r.kind = req[p].kind /\ r.email = req[p].email
      /\ r.social = req[p].social
      /\ r.kind = "mail" => r.found = req[p].found
      /\ r.kind = "confirm" => r.link = req[p].link
  <2>1. CASE req[p].kind = "mail"
    BY <1>1, <2>1 DEF Request
  <2>2. CASE req[p].kind # "mail"
    BY <1>1, <2>2, FreshLemma
  <2>3. QED
    BY <2>1, <2>2
<1>3. /\ req[p].kind = "register" => label = "find" /\ req[p].email \in Email
      /\ req[p].kind = "mail" => label = "insertLink" /\ req[p].found \in Id
      /\ req[p].kind = "confirm" => /\ label = "findLink" /\ req[p].link \in Link
                                    /\ link[req[p].link].state # "free"
      /\ req[p].kind = "oauth" => label = "provider" /\ req[p].social \in Social
      /\ req[p].kind # "oauth" => req[p].social = None
  BY <1>1 DEF FirstStatement, PlaceInv, RegisterPlace, MailPlace, ConfirmPlace, OAuthPlace
<1>4. label \in PC
  BY <1>1, <1>3 DEF PC
<1>5. /\ pc' = [pc EXCEPT ![p] = label] /\ req' = [req EXCEPT ![p] = r] /\ Rollback(p)
      /\ UNCHANGED <<tables, lapsed, history>>
  BY OwnLemma DEF Retry, Goto, TypeOK
<1> HIDE DEF r, label
<1>6. RequestInv(label, r, {}, {})
  BY <1>1, <1>2, <1>3 DEF RequestInv, PlaceInv, RegisterPlace, MailPlace, ConfirmPlace,
     OAuthPlace, SeenInv, LinkInv, RegisterInv, ConfirmInv, DiscardInv, CreateInv, SocialInv
<1>7. QED
  BY <1>2, <1>4, <1>5, <1>6, RollbackLemma
-----------------------------------------------------------------------------
(* Registration and the mailing of links.                                  *)

LEMMA PlaceLemma ==
  ASSUME NEW label, NEW r \in Request, NEW D, PlaceInv(label, r, D)
  PROVE  /\ label = "idle" => D = {}
         /\ label \in {"find", "findCredential", "insertUser", "upsert"} =>
              r.kind = "register" /\ D = {} /\ r.email \in Email
         /\ label \in {"lookup", "insertLink"} => r.kind = "mail" /\ D = {}
         /\ label \in {"findLink", "readUser", "readPending", "consume", "subject", "activate",
                       "attach"} =>
              r.kind = "confirm" /\ r.link \in Link /\ link[r.link].state # "free"
         /\ label \in {"provider", "byEmail", "discard", "linkSocial", "owner", "createUser",
                       "insertSocial", "lost"} =>
              r.kind = "oauth" /\ r.social \in Social
  BY DEF PlaceInv, RegisterPlace, MailPlace, ConfirmPlace, OAuthPlace, Request

\* A request that has written nothing and found nothing.
LEMMA PlainLemma ==
  ASSUME NEW label, NEW r, NEW H, r.kind # "confirm", PlaceInv(label, r, {}),
         label \notin {"discard", "linkSocial", "subject", "activate"}
  PROVE  RequestInv(label, r, {}, H)
  BY DEF RequestInv, SeenInv, LinkInv, RegisterInv, ConfirmInv, DiscardInv, CreateInv,
         SocialInv

LEMMA RegisterLemma ==
  ASSUME AccountsInv, NEW p \in Proc, UNCHANGED reserved,
         StartRegister(p) \/ FindByEmail(p) \/ FindCredential(p) \/ InsertUser(p) \/ Upsert(p)
  PROVE  AccountsInv'
<1>1. /\ req[p] \in Request /\ PlaceInv(pc[p], req[p], did[p])
      /\ held[p] \in SUBSET Locks /\ TypeOK /\ RowsInv
  BY OwnLemma DEF RequestInv
<1>2. {"find", "findCredential", "insertUser", "upsert", "commit"} \subseteq PC
  BY DEF PC
<1>3. ASSUME NEW e \in Email, NEW r,
             r = [NoRequest EXCEPT !.kind = "register", !.email = e], Arrive(p, r, "find")
      PROVE  AccountsInv'
  <2>1. r \in Request /\ r.kind = "register" /\ r.email = e /\ r.social = None
    BY <1>3 DEF NoRequest, Request, Account, Absent
  <2>2. did[p] = {}
    BY <1>1, <1>3, PlaceLemma DEF Arrive, At
  <2>3. PlaceInv("find", r, {})
    BY <2>1 DEF PlaceInv, RegisterPlace
  <2>4. RequestInv("find", r, did[p], held[p])
    BY <2>1, <2>2, <2>3, PlainLemma
  <2>5. QED
    BY <1>2, <1>3, <2>1, <2>2, <2>4, ReadLemma
<1>4. ASSUME NEW r \in Request, NEW label \in PC, Read(p, r, label),
             pc[p] \in {"find", "findCredential"}, r.kind = req[p].kind, r.email = req[p].email,
             r.social = req[p].social,
             label = "insertUser" \/ (label \in {"findCredential", "upsert"} /\ r.found \in Id)
      PROVE  AccountsInv'
  <2>1. r.kind = "register" /\ did[p] = {} /\ r.email \in Email /\ r.social = None
    <3>1. req[p].kind = "register" /\ did[p] = {} /\ req[p].email \in Email
      BY <1>1, <1>4, PlaceLemma
    <3>2. QED
      BY <1>1, <1>4, <3>1 DEF PlaceInv
  <2>2. PlaceInv(label, r, {})
    BY <1>4, <2>1 DEF PlaceInv, RegisterPlace
  <2>3. RequestInv(label, r, did[p], held[p])
    BY <1>4, <2>1, <2>2, PlainLemma
  <2>4. QED
    BY <1>4, <2>1, <2>3, ReadLemma
<1>5. CASE StartRegister(p)
  BY <1>3, <1>5 DEF StartRegister
<1>6. CASE FindByEmail(p)
  <2>1. CASE Read(p, req[p], "insertUser")
    BY <1>1, <1>2, <1>4, <1>6, <2>1 DEF FindByEmail, At
  <2>2. ASSUME NEW i \in OwnersOf(req[p].email),
               Read(p, [req[p] EXCEPT !.found = i, !.seen = user[i]], "findCredential")
        PROVE  AccountsInv'
    <3>1. PICK r : r = [req[p] EXCEPT !.found = i, !.seen = user[i]]
      OBVIOUS
    <3>2. i \in Id /\ user[i] \in Account
      BY <1>1 DEF OwnersOf, TypeOK
    <3>3. /\ r \in Request /\ r.kind = req[p].kind /\ r.email = req[p].email
          /\ r.social = req[p].social /\ r.found \in Id
      BY <1>1, <3>1, <3>2 DEF Request
    <3>4. QED
      BY <1>2, <1>4, <1>6, <2>2, <3>1, <3>3 DEF FindByEmail, At
  <2>3. QED
    BY <1>6, <2>1, <2>2 DEF FindByEmail
<1>7. CASE FindCredential(p)
  <2>1. CASE Abort(p)
    BY <2>1, AbortLemma
  <2>2. CASE Read(p, req[p], "upsert") /\ req[p].seen.emailVerified
    <3>1. req[p].kind = "register"
      BY <1>1, <1>7, PlaceLemma DEF FindCredential, At
    <3>2. req[p].found \in Id
      BY <1>1, <1>7, <3>1 DEF FindCredential, At, PlaceInv, RegisterPlace
    <3>3. QED
      BY <1>1, <1>2, <1>4, <1>7, <2>2, <3>2 DEF FindCredential, At
  <2>3. QED
    BY <1>7, <2>1, <2>2 DEF FindCredential
<1>8. CASE InsertUser(p)
  <2>1. CASE Conflict(p)
    BY <2>1, ConflictLemma
  <2>2. ASSUME NEW i \in FreshIds, OwnersOf(req[p].email) = {},
               Execute(p, {<<"email", req[p].email>>, <<"id", i>>},
                       [req[p] EXCEPT !.id = i], "register", "commit")
        PROVE  AccountsInv'
    <3>1. PICK r, L : r = [req[p] EXCEPT !.id = i]
                      /\ L = {<<"email", req[p].email>>, <<"id", i>>}
      OBVIOUS
    <3>2. did[p] = {} /\ req[p].kind = "register" /\ req[p].email \in Email
          /\ req[p].social = None
      <4>1. did[p] = {} /\ req[p].kind = "register" /\ req[p].email \in Email
        BY <1>1, <1>8, PlaceLemma DEF InsertUser, At
      <4>2. QED
        BY <1>1, <4>1 DEF PlaceInv
    <3>3. i \in Id \ (made \cup ReservedIds)
      BY DEF FreshIds
    <3>4. /\ r \in Request /\ r.kind = "register" /\ r.email = req[p].email
          /\ r.social = None /\ r.id = i
      BY <1>1, <3>1, <3>2, <3>3 DEF Request
    <3>5. L \in SUBSET Locks /\ "register" \in Write
      BY <3>1, <3>2, <3>3 DEF Locks, LockMode, Write
    <3>6. RequestInv("commit", r, {"register"}, held[p] \cup L)
      <4>1. PlaceInv("commit", r, {"register"})
        BY <3>2, <3>4 DEF PlaceInv, RegisterPlace
      <4>2. RegisterInv(r, {"register"}, held[p] \cup L)
        BY <2>2, <3>1, <3>3, <3>4 DEF RegisterInv
      <4>3. QED
        BY <3>4, <4>1, <4>2 DEF RequestInv, SeenInv, LinkInv, ConfirmInv, DiscardInv, CreateInv,
                                SocialInv
    <3>7. did[p] \cup {"register"} = {"register"} /\ "mail" \notin did[p]
      BY <3>2
    <3>8. QED
      BY <1>2, <2>2, <3>1, <3>4, <3>5, <3>6, <3>7, ExecuteLemma
  <2>3. QED
    BY <1>8, <2>1, <2>2 DEF InsertUser
<1>9. CASE Upsert(p)
  <2>1. CASE Abort(p)
    BY <2>1, AbortLemma
  <2> DEFINE i == req[p].found
  <2>2. CASE Present(i) /\ Execute(p, {<<"share", i>>, <<"pending", i>>}, req[p], "pend",
                                   "commit")
    <3>1. PICK L : L = {<<"share", i>>, <<"pending", i>>}
      OBVIOUS
    <3>2. did[p] = {} /\ req[p].kind = "register" /\ req[p].email \in Email
      BY <1>1, <1>9, PlaceLemma DEF Upsert, At
    <3>3. req[p].social = None /\ i \in Id
      BY <1>1, <1>9, <3>2 DEF PlaceInv, RegisterPlace, Upsert, At
    <3>4. L \in SUBSET Locks /\ "pend" \in Write
      BY <3>1, <3>3 DEF Locks, LockMode, Write
    <3>5. RequestInv("commit", req[p], {"pend"}, held[p] \cup L)
      <4>1. PlaceInv("commit", req[p], {"pend"})
        BY <3>2, <3>3 DEF PlaceInv, RegisterPlace
      <4>2. RegisterInv(req[p], {"pend"}, held[p] \cup L)
        BY <2>2, <3>1, <3>3 DEF RegisterInv
      <4>3. QED
        BY <3>2, <4>1, <4>2 DEF RequestInv, SeenInv, LinkInv, ConfirmInv, DiscardInv, CreateInv,
                                SocialInv
    <3>6. did[p] \cup {"pend"} = {"pend"} /\ "mail" \notin did[p]
      BY <3>2
    <3>7. QED
      BY <1>1, <1>2, <2>2, <3>1, <3>4, <3>5, <3>6, ExecuteLemma
  <2>3. QED
    BY <1>9, <2>1, <2>2 DEF Upsert
<1>10. QED
  BY <1>5, <1>6, <1>7, <1>8, <1>9

LEMMA MailLemma ==
  ASSUME AccountsInv, NEW p \in Proc, UNCHANGED reserved,
         StartMail(p) \/ LookupEligible(p) \/ InsertLink(p)
  PROVE  AccountsInv'
<1>1. /\ req[p] \in Request /\ PlaceInv(pc[p], req[p], did[p])
      /\ held[p] \in SUBSET Locks /\ TypeOK /\ RowsInv
  BY OwnLemma DEF RequestInv
<1>2. {"lookup", "insertLink", "commit"} \subseteq PC
  BY DEF PC
<1>3. CASE StartMail(p)
  <2>0. PICK e \in Email :
          Arrive(p, [NoRequest EXCEPT !.kind = "mail", !.email = e], "lookup")
    BY <1>3 DEF StartMail
  <2>1. PICK r : r = [NoRequest EXCEPT !.kind = "mail", !.email = e] /\ Arrive(p, r, "lookup")
    BY <2>0
  <2>2. r \in Request /\ r.kind = "mail" /\ r.email = e /\ r.social = None
    BY <2>1 DEF NoRequest, Request, Account, Absent
  <2>3. did[p] = {}
    BY <1>1, <2>1, PlaceLemma DEF Arrive, At
  <2>4. PlaceInv("lookup", r, {})
    BY <2>2 DEF PlaceInv, MailPlace
  <2>5. RequestInv("lookup", r, did[p], held[p])
    BY <2>2, <2>3, <2>4, PlainLemma
  <2>6. QED
    BY <1>2, <2>1, <2>2, <2>3, <2>5, ReadLemma
<1>4. CASE LookupEligible(p)
  <2>1. CASE Abort(p)
    BY <2>1, AbortLemma
  <2>2. ASSUME NEW i \in Id, Read(p, [req[p] EXCEPT !.found = i], "insertLink")
        PROVE  AccountsInv'
    <3>1. PICK r : r = [req[p] EXCEPT !.found = i]
      OBVIOUS
    <3>2. did[p] = {} /\ req[p].kind = "mail"
      BY <1>1, <1>4, PlaceLemma DEF LookupEligible, At
    <3>3. r \in Request /\ r.kind = "mail" /\ r.found = i /\ r.social = req[p].social
      BY <1>1, <3>1, <3>2 DEF Request
    <3>4. PlaceInv("insertLink", r, {})
      BY <1>1, <3>2, <3>3 DEF PlaceInv, MailPlace
    <3>5. RequestInv("insertLink", r, did[p], held[p])
      BY <3>2, <3>3, <3>4, PlainLemma
    <3>6. QED
      BY <1>2, <2>2, <3>1, <3>2, <3>3, <3>5, ReadLemma
  <2>3. QED
    BY <1>4, <2>1, <2>2 DEF LookupEligible, OwnersOf
<1>5. CASE InsertLink(p)
  <2> DEFINE i == req[p].found
  <2>1. CASE Abort(p)
    BY <2>1, AbortLemma
  <2>2. ASSUME NEW l \in {k \in Link : link[k].state = "free"} \ {req[q].link : q \in Proc},
               Present(i),
               Execute(p, {<<"share", i>>}, [req[p] EXCEPT !.link = l], "mail", "commit")
        PROVE  AccountsInv'
    <3>1. PICK r, L : r = [req[p] EXCEPT !.link = l] /\ L = {<<"share", i>>}
      OBVIOUS
    <3>2. did[p] = {} /\ req[p].kind = "mail"
      BY <1>1, <1>5, PlaceLemma DEF InsertLink, At
    <3>3. i \in Id /\ req[p].social = None
      BY <1>1, <1>5, <3>2 DEF PlaceInv, MailPlace, InsertLink, At
    <3>4. /\ r \in Request /\ r.kind = "mail" /\ r.found = i /\ r.link = l
          /\ r.social = None
      BY <1>1, <3>1, <3>2, <3>3 DEF Request
    <3>5. L \in SUBSET Locks /\ "mail" \in Write
      BY <3>1, <3>3 DEF Locks, LockMode, Write
    <3>6. RequestInv("commit", r, {"mail"}, held[p] \cup L)
      <4>1. PlaceInv("commit", r, {"mail"})
        BY <3>3, <3>4 DEF PlaceInv, MailPlace
      <4>2. RegisterInv(r, {"mail"}, held[p] \cup L)
        BY <2>2, <3>1, <3>3, <3>4 DEF RegisterInv
      <4>3. QED
        BY <3>4, <4>1, <4>2 DEF RequestInv, SeenInv, LinkInv, ConfirmInv, DiscardInv, CreateInv,
                                SocialInv
    <3>7. did[p] \cup {"mail"} = {"mail"} /\ "mail" \notin did[p]
      BY <3>2
    <3>8. \A q \in Proc \ {p} : req[q].link # r.link
      BY <3>4
    <3>9. QED
      BY <1>2, <2>2, <3>1, <3>4, <3>5, <3>6, <3>7, <3>8, ExecuteLemma
  <2>3. QED
    BY <1>5, <2>1, <2>2 DEF InsertLink
<1>6. QED
  BY <1>3, <1>4, <1>5
-----------------------------------------------------------------------------
(* Confirmation.                                                           *)

\* The locks on a user and on all that goes with it.
LEMMA CascadeLemma ==
  ASSUME TypeOK, NEW i \in Id
  PROVE  Cascade(i) \in SUBSET Locks
BY DEF TypeOK, Cascade, Locks, LockMode, Account

\* What is left to show of a confirmation that has locked its link at most.
LEMMA UseLemma ==
  ASSUME NEW label, NEW r, NEW D, NEW H, r.kind = "confirm", D \subseteq {"use"},
         label \notin {"discard", "linkSocial"},
         PlaceInv(label, r, D), LinkInv(label, r, D),
         D = {} \/ (<<"link", r.link>> \in H /\ Mailed(r))
  PROVE  RequestInv(label, r, D, H)
BY DEF RequestInv, SeenInv, RegisterInv, ConfirmInv, DiscardInv, CreateInv, SocialInv

LEMMA FindConfirmLemma ==
  ASSUME AccountsInv, NEW p \in Proc, UNCHANGED reserved,
         StartConfirm(p) \/ FindLink(p) \/ ReadUser(p) \/ ReadPending(p) \/ ConsumeLink(p)
  PROVE  AccountsInv'
<1>1. /\ req[p] \in Request /\ PlaceInv(pc[p], req[p], did[p])
      /\ LinkInv(pc[p], req[p], did[p]) /\ TypeOK /\ RowsInv /\ held[p] \in SUBSET Locks
  BY OwnLemma DEF RequestInv
<1>2. {"findLink", "readUser", "readPending", "consume", "subject", "attach"} \subseteq PC
  BY DEF PC
<1>3. ASSUME pc[p] \in {"findLink", "readUser", "readPending", "consume"}
      PROVE  /\ did[p] = {} /\ req[p].kind = "confirm" /\ req[p].social = None
             /\ req[p].link \in Link /\ link[req[p].link].state # "free"
             /\ pc[p] # "findLink" => req[p].found \in Id
  <2>1. req[p].kind = "confirm"
    BY <1>1, <1>3, PlaceLemma
  <2>2. QED
    BY <1>1, <1>3, <2>1 DEF PlaceInv, ConfirmPlace
<1>4. CASE StartConfirm(p)
  <2>1. PICK l \in Link :
          /\ link[l].state # "free"
          /\ Arrive(p, [NoRequest EXCEPT !.kind = "confirm", !.link = l,
                                         !.fresh = l \notin lapsed,
                                         !.kept = {i \in Id : pending[i] = "kept"}], "findLink")
    BY <1>4 DEF StartConfirm
  <2>2. PICK fresh, kept : fresh = (l \notin lapsed) /\ kept = {i \in Id : pending[i] = "kept"}
    OBVIOUS
  <2>3. PICK r : r = [NoRequest EXCEPT !.kind = "confirm", !.link = l, !.fresh = fresh,
                                       !.kept = kept]
    OBVIOUS
  <2>4. /\ r \in Request /\ r.kind = "confirm" /\ r.link = l /\ r.social = None
    <3>1. fresh \in BOOLEAN /\ kept \in SUBSET Id
      BY <2>2
    <3>2. QED
      BY <2>3, <3>1 DEF NoRequest, Request, Account, Absent
  <2>5. did[p] = {}
    BY <1>1, <2>1, PlaceLemma DEF Arrive, At
  <2>6. PlaceInv("findLink", r, {}) /\ LinkInv("findLink", r, {})
    BY <2>1, <2>4 DEF PlaceInv, ConfirmPlace, LinkInv
  <2>7. RequestInv("findLink", r, did[p], held[p])
    BY <2>4, <2>5, <2>6, UseLemma
  <2>8. Arrive(p, r, "findLink")
    BY <2>1, <2>2, <2>3
  <2>9. QED
    BY <1>2, <2>4, <2>5, <2>7, <2>8, ReadLemma
<1>5. CASE FindLink(p)
  <2>1. CASE Abort(p)
    BY <2>1, AbortLemma
  <2> DEFINE l == req[p].link
  <2>2. CASE link[l].state = "mailed" /\ Read(p, [req[p] EXCEPT !.found = link[l].user], "readUser")
    <3>1. PICK r : r = [req[p] EXCEPT !.found = link[l].user]
      OBVIOUS
    <3>2. did[p] = {} /\ req[p].kind = "confirm" /\ req[p].social = None /\ l \in Link
      BY <1>3, <1>5 DEF FindLink, At
    <3>3. link[l].user \in Id
      BY <1>1, <2>2, <3>2 DEF RowsInv
    <3>4. /\ r \in Request /\ r.kind = "confirm" /\ r.found = link[l].user /\ r.link = l
          /\ r.social = None
      BY <1>1, <3>1, <3>2, <3>3 DEF Request
    <3>5. PlaceInv("readUser", r, {}) /\ LinkInv("readUser", r, {})
      BY <2>2, <3>2, <3>3, <3>4 DEF PlaceInv, ConfirmPlace, LinkInv
    <3>6. RequestInv("readUser", r, did[p], held[p])
      BY <3>2, <3>4, <3>5, UseLemma
    <3>7. QED
      BY <1>2, <2>2, <3>1, <3>2, <3>4, <3>6, ReadLemma
  <2>3. QED
    BY <1>5, <2>1, <2>2 DEF FindLink
<1>6. CASE ReadUser(p)
  <2> DEFINE i == req[p].found
  <2>1. pc[p] = "readUser" /\ Read(p, [req[p] EXCEPT !.seen = user[i]], "readPending")
    BY <1>6 DEF ReadUser, At
  <2>2. PICK r : r = [req[p] EXCEPT !.seen = user[i]]
    OBVIOUS
  <2>3. /\ did[p] = {} /\ req[p].kind = "confirm" /\ req[p].social = None /\ i \in Id
        /\ req[p].link \in Link /\ link[req[p].link].state # "free"
    BY <1>3, <2>1
  <2>4. user[i] \in Account
    BY <1>1, <2>3 DEF TypeOK
  <2>5. /\ r \in Request /\ r.kind = "confirm" /\ r.found = i /\ r.link = req[p].link
        /\ r.social = None /\ r.seen = user[i]
    BY <1>1, <2>2, <2>3, <2>4 DEF Request
  <2>6. PlaceInv("readPending", r, {})
    BY <2>3, <2>5 DEF PlaceInv, ConfirmPlace
  <2>7. link[r.link].user \in {i, None} \cup ReservedIds
    BY <1>1, <2>1, <2>3, <2>5 DEF LinkInv
  <2>8. LinkInv("readPending", r, {})
    BY <2>5, <2>7 DEF LinkInv
  <2>9. RequestInv("readPending", r, did[p], held[p])
    BY <2>3, <2>5, <2>6, <2>8, UseLemma
  <2>10. QED
    BY <1>2, <2>1, <2>2, <2>3, <2>5, <2>9, ReadLemma
<1>7. CASE ReadPending(p)
  <2>1. CASE Abort(p)
    BY <2>1, AbortLemma
  <2>2. CASE Read(p, req[p], "consume")
    <3>1. pc[p] = "readPending"
      BY <1>7 DEF ReadPending, At
    <3>2. /\ did[p] = {} /\ req[p].kind = "confirm" /\ req[p].social = None
          /\ req[p].found \in Id /\ req[p].link \in Link /\ link[req[p].link].state # "free"
      BY <1>3, <3>1
    <3>3. PlaceInv("consume", req[p], {})
      BY <3>2 DEF PlaceInv, ConfirmPlace
    <3>4. LinkInv("consume", req[p], {})
      BY <1>1, <3>1, <3>2 DEF LinkInv
    <3>5. RequestInv("consume", req[p], did[p], held[p])
      BY <3>2, <3>3, <3>4, UseLemma
    <3>6. QED
      BY <1>1, <1>2, <2>2, <3>2, <3>5, ReadLemma
  <2>3. QED
    BY <1>7, <2>1, <2>2 DEF ReadPending
<1>8. CASE ConsumeLink(p)
  <2>1. CASE Abort(p)
    BY <2>1, AbortLemma
  <2> DEFINE r == req[p]
             label == IF CanActivate(r) THEN "subject" ELSE "attach"
  <2>2. CASE /\ link[r.link] = [state |-> "mailed", user |-> r.found]
             /\ Execute(p, {<<"link", r.link>>}, r, "use", label)
    <3>1. pc[p] = "consume"
      BY <1>8 DEF ConsumeLink, At
    <3>2. /\ did[p] = {} /\ r.kind = "confirm" /\ r.social = None
          /\ r.found \in Id /\ r.link \in Link /\ link[r.link].state # "free"
      BY <1>3, <3>1
    <3>3. label \in {"subject", "attach"} /\ (label = "subject" => r.seen.status = "PENDING")
      BY DEF CanActivate
    <3> HIDE DEF label
    <3>4. PlaceInv(label, r, {"use"})
      BY <3>2, <3>3 DEF PlaceInv, ConfirmPlace
    <3>5. LinkInv(label, r, {"use"})
      BY <1>1, <3>1, <3>2, <3>3 DEF LinkInv
    <3>6. RequestInv(label, r, {"use"}, held[p] \cup {<<"link", r.link>>})
      BY <2>2, <3>2, <3>3, <3>4, <3>5, UseLemma DEF Mailed
    <3>7. {<<"link", r.link>>} \in SUBSET Locks /\ "use" \in Write
      BY <3>2 DEF Locks, LockMode, Write
    <3>8. did[p] \cup {"use"} = {"use"} /\ "mail" \notin did[p] /\ label \in PC
      BY <1>2, <3>2, <3>3
    <3>9. QED
      BY <1>1, <2>2, <3>6, <3>7, <3>8, ExecuteLemma
  <2>3. QED
    BY <1>8, <2>1, <2>2 DEF ConsumeLink
<1>9. QED
  BY <1>4, <1>5, <1>6, <1>7, <1>8

LEMMA UseLinkLemma ==
  ASSUME AccountsInv, NEW p \in Proc, UNCHANGED reserved,
         ReadSubject(p) \/ Activate(p) \/ Attach(p)
  PROVE  AccountsInv'
<1> DEFINE i == req[p].found
           e == req[p].seen.email
<1>1. /\ req[p] \in Request /\ PlaceInv(pc[p], req[p], did[p])
      /\ LinkInv(pc[p], req[p], did[p]) /\ ConfirmInv(req[p], did[p], held[p])
      /\ TypeOK /\ RowsInv /\ held[p] \in SUBSET Locks
  BY OwnLemma DEF RequestInv
<1>2. {"activate", "commit"} \subseteq PC /\ {"activate", "attach"} \subseteq Write
  BY DEF PC, Write
<1>3. pc[p] \in {"subject", "activate", "attach"}
  BY DEF ReadSubject, Activate, Attach, At
<1>4. /\ did[p] = {"use"} /\ req[p].kind = "confirm" /\ req[p].social = None
      /\ req[p].link \in Link /\ link[req[p].link].state # "free" /\ i \in Id
      /\ <<"link", req[p].link>> \in held[p] /\ Mailed(req[p])
  <2>1. req[p].kind = "confirm"
    BY <1>1, <1>3, PlaceLemma
  <2>2. QED
    BY <1>1, <1>3, <2>1 DEF PlaceInv, ConfirmPlace, ConfirmInv
<1>5. SubjectFor(e, i) # i => e # None /\ SubjectFor(e, i) = reserved[e] /\ SubjectFor(e, i) \in Id
  BY <1>1 DEF SubjectFor, Request, Account, TypeOK, Reservations
<1>6. ASSUME NEW label, NEW r \in Request, label \in {"commit", "activate"}, Read(p, r, label),
             \/ r = req[p]
             \/ r = [req[p] EXCEPT !.id = SubjectFor(e, i)] /\ SubjectFor(e, i) \in Id,
             LinkInv(label, r, {"use"})
      PROVE  AccountsInv'
  <2>1. /\ r.kind = "confirm" /\ r.social = None /\ r.link = req[p].link /\ r.found = i
    BY <1>1, <1>4, <1>6 DEF Request
  <2>2. PlaceInv(label, r, {"use"})
    BY <1>4, <1>6, <2>1 DEF PlaceInv, ConfirmPlace
  <2>3. Mailed(r) /\ <<"link", r.link>> \in held[p]
    BY <1>4, <2>1 DEF Mailed
  <2>4. RequestInv(label, r, did[p], held[p])
    BY <1>4, <1>6, <2>1, <2>2, <2>3, UseLemma
  <2>5. QED
    BY <1>2, <1>4, <1>6, <2>4, ReadLemma
<1>7. CASE ReadSubject(p)
  <2>1. pc[p] = "subject"
    BY <1>7 DEF ReadSubject, At
  <2> DEFINE subject == SubjectFor(e, i)
  <2>2. \/ subject # i /\ Present(subject) /\ Read(p, req[p], "commit")
        \/ Read(p, [req[p] EXCEPT !.id = subject], "activate")
    BY <1>7 DEF ReadSubject, SubjectFor
  <2>3. CASE subject # i /\ Present(subject) /\ Read(p, req[p], "commit")
    <3>1. e # None /\ reserved[e] \in made \ {i}
      BY <1>1, <1>5, <2>3 DEF RowsInv
    <3>2. LinkInv("commit", req[p], {"use"})
      BY <1>1, <1>4, <2>1, <3>1 DEF LinkInv
    <3>3. QED
      BY <1>1, <1>6, <2>3, <3>2
  <2>4. CASE Read(p, [req[p] EXCEPT !.id = subject], "activate")
    <3>1. PICK r : r = [req[p] EXCEPT !.id = subject]
      OBVIOUS
    <3>2. subject \in Id
      BY <1>4, <1>5
    <3>3. /\ r \in Request /\ r.kind = "confirm" /\ r.found = i /\ r.link = req[p].link
          /\ r.seen = req[p].seen /\ r.id = subject
      BY <1>1, <1>4, <3>1, <3>2 DEF Request
    <3> HIDE DEF subject
    <3>4. Mailed(r)
      BY <1>4, <3>3 DEF Mailed
    <3>5. LinkInv("activate", r, {"use"})
      <4>1. /\ link[r.link].user \in {i, None} \cup ReservedIds
            /\ user[i].email = r.seen.email
            /\ r.seen.status = "PENDING"
            /\ user[i].status # "PENDING" => i \in vouched
        BY <1>1, <1>4, <2>1, <3>3 DEF LinkInv
      <4>2. r.id = SubjectFor(r.seen.email, r.found)
        BY <3>3 DEF subject
      <4>3. QED
        BY <3>3, <4>1, <4>2 DEF LinkInv
    <3>6. QED
      BY <1>6, <2>4, <3>1, <3>2, <3>3, <3>5 DEF subject
  <2>5. QED
    BY <2>2, <2>3, <2>4
<1>8. CASE Activate(p)
  <2>1. pc[p] = "activate"
    BY <1>8 DEF Activate, At
  <2> DEFINE j == req[p].id
             L == IF j = i THEN {<<"update", i>>} ELSE Cascade(i) \cup {<<"id", j>>}
  <2>2. j = SubjectFor(e, i) /\ j \in Id /\ req[p].seen.status = "PENDING"
    BY <1>1, <1>4, <1>5, <2>1 DEF LinkInv
  <2>3. CASE user[i].status # "PENDING" /\ Read(p, req[p], "commit")
    <3>1. LinkInv("commit", req[p], {"use"})
      BY <1>1, <1>4, <2>1, <2>2, <2>3 DEF LinkInv
    <3>2. QED
      BY <1>1, <1>6, <2>3, <3>1
  <2>4. CASE Conflict(p)
    BY <2>4, ConflictLemma
  <2>5. CASE /\ user[i].status = "PENDING" /\ ~(j # i /\ Present(j))
             /\ Execute(p, L, req[p], "activate", "commit")
    <3>1. L \in SUBSET Locks
      BY <1>1, <1>4, <2>2, CascadeLemma DEF Locks, LockMode
    <3>2. /\ j = i => <<"update", i>> \in held[p] \cup L
          /\ j # i => Cascade(i) \cup {<<"id", j>>} \subseteq held[p] \cup L
      OBVIOUS
    <3> HIDE DEF L
    <3>3. PICK D : D = {"use", "activate"}
      OBVIOUS
    <3>4. did[p] \cup {"activate"} = D /\ "mail" \notin did[p]
      BY <1>4, <3>3
    <3>5. PlaceInv("commit", req[p], D)
      BY <1>4, <3>3 DEF PlaceInv, ConfirmPlace
    <3>6. LinkInv("commit", req[p], D)
      BY <1>1, <1>4, <2>1, <2>2, <3>3 DEF LinkInv
    <3>7. ConfirmInv(req[p], D, held[p] \cup L)
      BY <1>4, <2>2, <2>5, <3>2, <3>3 DEF ConfirmInv
    <3>8. RequestInv("commit", req[p], D, held[p] \cup L)
      BY <3>3, <3>5, <3>6, <3>7 DEF RequestInv, SeenInv, RegisterInv, DiscardInv, CreateInv, SocialInv
    <3>9. QED
      BY <1>1, <1>2, <2>5, <3>1, <3>4, <3>8, ExecuteLemma
  <2>6. QED
    BY <1>8, <2>3, <2>4, <2>5 DEF Activate
<1>9. CASE Attach(p)
  <2> DEFINE L == {<<"share", i>>, <<"password", i>>, <<"pending", i>>}
  <2>1. CASE Abort(p)
    BY <2>1, AbortLemma
  <2>2. CASE Present(i) /\ i \notin password /\ Execute(p, L, req[p], "attach", "commit")
    <3>1. L \in SUBSET Locks
      BY <1>4 DEF Locks, LockMode
    <3> HIDE DEF L
    <3>2. PICK D : D = {"use", "attach"}
      OBVIOUS
    <3>3. did[p] \cup {"attach"} = D /\ "mail" \notin did[p]
      BY <1>4, <3>2
    <3>4. PlaceInv("commit", req[p], D)
      BY <1>4, <3>2 DEF PlaceInv, ConfirmPlace
    <3>5. LinkInv("commit", req[p], D)
      BY <1>1, <1>4, <1>9, <3>2 DEF LinkInv, Attach, At
    <3>6. ConfirmInv(req[p], D, held[p] \cup L)
      BY <1>4, <2>2, <3>2 DEF ConfirmInv, L
    <3>7. RequestInv("commit", req[p], D, held[p] \cup L)
      BY <3>2, <3>4, <3>5, <3>6 DEF RequestInv, SeenInv, RegisterInv, DiscardInv, CreateInv, SocialInv
    <3>8. QED
      BY <1>1, <1>2, <2>2, <3>1, <3>3, <3>7, ExecuteLemma
  <2>3. QED
    BY <1>9, <2>1, <2>2 DEF Attach
<1>10. QED
  BY <1>7, <1>8, <1>9
-----------------------------------------------------------------------------
(* The first sign-in with a social identity.                               *)

\* What is left to show of a sign-in that has not yet its identity.
LEMMA SignInLemma ==
  ASSUME NEW label, NEW r, NEW D, NEW H, r.kind = "oauth",
         PlaceInv(label, r, D), SeenInv(label, r), DiscardInv(label, r, D, H), CreateInv(r, D, H),
         SocialInv(r, D, H), D \subseteq {"discard", "create", "social"},
         label \notin {"subject", "activate"}
  PROVE  RequestInv(label, r, D, H)
BY DEF RequestInv, LinkInv, RegisterInv, ConfirmInv

LEMMA SignInKnownLemma ==
  ASSUME AccountsInv, NEW p \in Proc, UNCHANGED reserved, SignInKnown(p),
         pc[p] \in {"provider", "lost"}
  PROVE  AccountsInv'
<1>1. /\ req[p] \in Request /\ PlaceInv(pc[p], req[p], did[p]) /\ TypeOK
  BY OwnLemma DEF RequestInv
<1>2. req[p].kind = "oauth" /\ req[p].social \in Social /\ did[p] = {}
  <2>1. req[p].kind = "oauth" /\ req[p].social \in Social
    BY <1>1, PlaceLemma
  <2>2. QED
    BY <1>1, <2>1 DEF PlaceInv, OAuthPlace
<1> DEFINE i == social[req[p].social]
<1>3. CASE Abort(p)
  BY <1>3, AbortLemma
<1>4. CASE i # None /\ Read(p, [req[p] EXCEPT !.found = i], "handoff")
  <2>1. PICK r : r = [req[p] EXCEPT !.found = i]
    OBVIOUS
  <2>2. i \in Id
    BY <1>1, <1>2, <1>4 DEF TypeOK
  <2>3. r \in Request /\ r.kind = "oauth" /\ r.social = req[p].social /\ "handoff" \in PC
    BY <1>1, <1>2, <2>1, <2>2 DEF Request, PC
  <2>4. PlaceInv("handoff", r, {})
    BY <1>2, <2>3 DEF PlaceInv, OAuthPlace
  <2>5. RequestInv("handoff", r, did[p], held[p])
    BY <1>2, <2>3, <2>4, PlainLemma
  <2>6. QED
    BY <1>2, <1>4, <2>1, <2>3, <2>5, ReadLemma
<1>5. QED
  BY <1>3, <1>4 DEF SignInKnown

LEMMA FindUserLemma ==
  ASSUME AccountsInv, NEW p \in Proc, UNCHANGED reserved,
         \/ StartOAuth(p) \/ FindByProvider(p) \/ FindByVerifiedEmail(p) \/ ResolveLost(p)
  PROVE  AccountsInv'
<1>1. /\ req[p] \in Request /\ PlaceInv(pc[p], req[p], did[p]) /\ TypeOK /\ RowsInv
  BY OwnLemma DEF RequestInv
<1>2. {"provider", "byEmail", "discard", "linkSocial", "owner", "createUser"} \subseteq PC
  BY DEF PC
<1>3. CASE StartOAuth(p)
  <2>1. PICK s \in Social, e \in Email \cup {None}, v \in BOOLEAN :
          Arrive(p, [NoRequest EXCEPT !.kind = "oauth", !.social = s, !.email = e,
                                      !.verified = v], "provider")
    BY <1>3 DEF StartOAuth
  <2>2. PICK r : r = [NoRequest EXCEPT !.kind = "oauth", !.social = s, !.email = e,
                                       !.verified = v]
    OBVIOUS
  <2>3. r \in Request /\ r.kind = "oauth" /\ r.social = s
    BY <2>2 DEF NoRequest, Request, Account, Absent
  <2>4. did[p] = {}
    BY <1>1, <2>1, PlaceLemma DEF Arrive, At
  <2>5. PlaceInv("provider", r, {})
    BY <2>3 DEF PlaceInv, OAuthPlace
  <2>6. RequestInv("provider", r, did[p], held[p])
    BY <2>3, <2>4, <2>5, PlainLemma
  <2>7. QED
    BY <1>2, <2>1, <2>2, <2>3, <2>4, <2>6, ReadLemma
<1>4. CASE ResolveLost(p)
  BY <1>4, SignInKnownLemma DEF ResolveLost, At
<1>5. CASE FindByProvider(p)
  <2>1. CASE SignInKnown(p)
    BY <1>5, <2>1, SignInKnownLemma DEF FindByProvider, At
  <2> DEFINE label == IF req[p].email = None THEN "createUser"
                      ELSE IF req[p].verified THEN "byEmail" ELSE "owner"
  <2>2. CASE Read(p, [req[p] EXCEPT !.userEmail = req[p].email], label)
    <3>1. PICK r : r = [req[p] EXCEPT !.userEmail = req[p].email]
      OBVIOUS
    <3>2. req[p].kind = "oauth" /\ req[p].social \in Social
      BY <1>1, <1>5, PlaceLemma DEF FindByProvider, At
    <3>3. did[p] = {}
      BY <1>1, <1>5, <3>2 DEF PlaceInv, OAuthPlace, FindByProvider, At
    <3>4. /\ r \in Request /\ r.kind = "oauth" /\ r.social \in Social
          /\ r.email = req[p].email /\ r.verified = req[p].verified
      BY <1>1, <3>1, <3>2 DEF Request
    <3>5. \/ label = "createUser"
          \/ label = "byEmail" /\ r.email \in Email /\ r.verified
          \/ label = "owner" /\ r.email \in Email
      BY <3>4 DEF Request
    <3> HIDE DEF label
    <3>6. PlaceInv(label, r, {})
      BY <3>4, <3>5 DEF PlaceInv, OAuthPlace
    <3>7. RequestInv(label, r, did[p], held[p])
      BY <3>3, <3>4, <3>5, <3>6, PlainLemma
    <3>8. QED
      BY <1>2, <2>2, <3>1, <3>3, <3>4, <3>5, <3>7, ReadLemma
  <2>3. QED
    BY <1>5, <2>1, <2>2 DEF FindByProvider
<1>6. CASE FindByVerifiedEmail(p)
  <2>1. req[p].kind = "oauth" /\ req[p].social \in Social
    BY <1>1, <1>6, PlaceLemma DEF FindByVerifiedEmail, At
  <2>2. did[p] = {} /\ req[p].email \in Email /\ req[p].verified
    BY <1>1, <1>6, <2>1 DEF PlaceInv, OAuthPlace, FindByVerifiedEmail, At
  <2>3. CASE Read(p, req[p], "owner")
    <3>1. PlaceInv("owner", req[p], {})
      BY <2>1, <2>2 DEF PlaceInv, OAuthPlace
    <3>2. RequestInv("owner", req[p], did[p], held[p])
      BY <2>1, <2>2, <3>1, PlainLemma
    <3>3. QED
      BY <1>1, <1>2, <2>2, <2>3, <3>2, ReadLemma
  <2>4. ASSUME NEW i \in OwnersOf(req[p].email), NEW label \in {"discard", "linkSocial", "owner"},
               Read(p, [req[p] EXCEPT !.found = i, !.seen = user[i]], label),
               label = "linkSocial" => user[i].emailVerified
        PROVE  AccountsInv'
    <3>1. PICK r : r = [req[p] EXCEPT !.found = i, !.seen = user[i]]
      OBVIOUS
    <3>2. i \in Id /\ user[i] \in Account /\ i \in made /\ user[i].email = req[p].email
      BY <1>1 DEF OwnersOf, TypeOK, RowsInv
    <3>3. /\ r \in Request /\ r.kind = "oauth" /\ r.social \in Social /\ r.found = i
          /\ r.email = req[p].email /\ r.verified = req[p].verified
      BY <1>1, <2>1, <3>1, <3>2 DEF Request
    <3>4. PlaceInv(label, r, {})
      BY <2>2, <2>4, <3>2, <3>3 DEF PlaceInv, OAuthPlace
    <3>5. SeenInv(label, r)
      BY <2>4, <3>2, <3>3 DEF SeenInv
    <3>6. /\ DiscardInv(label, r, {}, held[p]) /\ CreateInv(r, {}, held[p])
          /\ SocialInv(r, {}, held[p])
      BY DEF DiscardInv, CreateInv, SocialInv
    <3>7. RequestInv(label, r, did[p], held[p])
      BY <2>2, <2>4, <3>3, <3>4, <3>5, <3>6, SignInLemma
    <3>8. QED
      BY <1>2, <2>2, <2>4, <3>1, <3>3, <3>7, ReadLemma
  <2>5. QED
    <3>1. CASE \E i \in OwnersOf(req[p].email) :
                 Read(p, [req[p] EXCEPT !.found = i, !.seen = user[i]],
                      IF user[i].status = "PENDING" /\ ~user[i].emailVerified THEN "discard"
                      ELSE IF user[i].status = "ACTIVE" /\ user[i].emailVerified THEN "linkSocial"
                      ELSE "owner")
      <4>0. PICK i \in OwnersOf(req[p].email) :
              Read(p, [req[p] EXCEPT !.found = i, !.seen = user[i]],
                   IF user[i].status = "PENDING" /\ ~user[i].emailVerified THEN "discard"
                   ELSE IF user[i].status = "ACTIVE" /\ user[i].emailVerified THEN "linkSocial"
                   ELSE "owner")
        BY <3>1
      <4>1. PICK label :
              /\ label = IF user[i].status = "PENDING" /\ ~user[i].emailVerified THEN "discard"
                         ELSE IF user[i].status = "ACTIVE" /\ user[i].emailVerified
                         THEN "linkSocial" ELSE "owner"
              /\ Read(p, [req[p] EXCEPT !.found = i, !.seen = user[i]], label)
        BY <4>0
      <4>2. /\ label \in {"discard", "linkSocial", "owner"}
            /\ label = "linkSocial" => user[i].emailVerified
        BY <4>1
      <4>3. QED
        BY <2>4, <4>1, <4>2
    <3>2. QED
      BY <1>6, <2>3, <3>1 DEF FindByVerifiedEmail
<1>7. QED
  BY <1>3, <1>4, <1>5, <1>6

\* An address has one user: after its discard the sign-in may have the address.
LEMMA OthersOfLemma ==
  ASSUME RowsInv, NEW p \in Proc, NEW H, DiscardInv("owner", req[p], did[p], H),
         "discard" \in did[p], None \notin Email
  PROVE  OthersOf(p, req[p].email) = {}
BY DEF RowsInv, DiscardInv, OthersOf, OwnersOf

LEMMA SocialLemma ==
  ASSUME AccountsInv, NEW p \in Proc, UNCHANGED reserved, Discard(p) \/ LinkSocial(p)
  PROVE  AccountsInv'
<1> DEFINE i == req[p].found
           s == req[p].social
<1>1. /\ req[p] \in Request /\ PlaceInv(pc[p], req[p], did[p]) /\ TypeOK /\ RowsInv
      /\ SeenInv(pc[p], req[p])
  BY OwnLemma DEF RequestInv
<1>2. {"owner", "commit"} \subseteq PC /\ {"discard", "social"} \subseteq Write
  BY DEF PC, Write
<1>3. pc[p] \in {"discard", "linkSocial"}
  BY DEF Discard, LinkSocial, At
<1>4. req[p].kind = "oauth" /\ s \in Social
  BY <1>1, <1>3, PlaceLemma
<1>5. did[p] = {} /\ req[p].email \in Email /\ req[p].verified /\ i \in Id
  BY <1>1, <1>3, <1>4 DEF PlaceInv, OAuthPlace
<1>6. CASE Discard(p)
  <2>1. CASE Abort(p)
    BY <2>1, AbortLemma
  <2>2. CASE Present(i) /\ Execute(p, Cascade(i), req[p], "discard", "owner")
    <3>1. PICK D : D = {"discard"}
      OBVIOUS
    <3>2. did[p] \cup {"discard"} = D /\ "mail" \notin did[p]
      BY <1>5, <3>1
    <3>3. PlaceInv("owner", req[p], D) /\ SeenInv("owner", req[p])
      BY <1>4, <1>5, <3>1 DEF PlaceInv, OAuthPlace, SeenInv
    <3>4. user[i].email = req[p].email
      BY <1>1, <1>3, <2>2 DEF SeenInv
    <3>5. DiscardInv("owner", req[p], D, held[p] \cup Cascade(i))
      BY <1>5, <2>2, <3>4 DEF DiscardInv
    <3>6. /\ CreateInv(req[p], D, held[p] \cup Cascade(i))
          /\ SocialInv(req[p], D, held[p] \cup Cascade(i))
      BY <3>1 DEF CreateInv, SocialInv
    <3>7. RequestInv("owner", req[p], D, held[p] \cup Cascade(i))
      BY <1>4, <3>1, <3>3, <3>5, <3>6, SignInLemma
    <3>8. Cascade(i) \in SUBSET Locks
      BY <1>1, <1>5, CascadeLemma
    <3>9. QED
      BY <1>1, <1>2, <2>2, <3>2, <3>7, <3>8, ExecuteLemma
  <2>3. QED
    BY <1>6, <2>1, <2>2 DEF Discard
<1>7. CASE LinkSocial(p)
  <2> DEFINE L == {<<"share", i>>, <<"social", s>>}
  <2>1. CASE Abort(p)
    BY <2>1, AbortLemma
  <2>2. CASE Conflict(p)
    BY <2>2, ConflictLemma
  <2>3. CASE ~Taken(p, s) /\ Present(i) /\ Execute(p, L, req[p], "social", "commit")
    <3>1. PICK D : D = {"social"}
      OBVIOUS
    <3>2. did[p] \cup {"social"} = D /\ "mail" \notin did[p]
      BY <1>5, <3>1
    <3>3. PlaceInv("commit", req[p], D) /\ SeenInv("commit", req[p])
      BY <1>4, <1>5, <3>1 DEF PlaceInv, OAuthPlace, SeenInv
    <3>4. user[i].email = req[p].email /\ user[i].emailVerified
      BY <1>1, <1>7, <2>3 DEF SeenInv, LinkSocial, At
    <3>5. social[s] = None
      BY <1>5, <2>3 DEF Taken
    <3>6. SocialInv(req[p], D, held[p] \cup L)
      BY <1>5, <2>3, <3>4, <3>5 DEF SocialInv
    <3>7. L \in SUBSET Locks
      BY <1>4, <1>5 DEF Locks, LockMode
    <3> HIDE DEF L
    <3>8. DiscardInv("commit", req[p], D, held[p] \cup L) /\ CreateInv(req[p], D, held[p] \cup L)
      BY <3>1 DEF DiscardInv, CreateInv
    <3>9. RequestInv("commit", req[p], D, held[p] \cup L)
      BY <1>4, <3>1, <3>3, <3>6, <3>8, SignInLemma
    <3>10. QED
      BY <1>1, <1>2, <2>3, <3>2, <3>7, <3>9, ExecuteLemma
  <2>4. QED
    BY <1>7, <2>1, <2>2, <2>3 DEF LinkSocial
<1>8. QED
  BY <1>6, <1>7

LEMMA NewUserLemma ==
  ASSUME AccountsInv, NEW p \in Proc, UNCHANGED reserved,
         FindOwner(p) \/ CreateUser(p) \/ InsertSocial(p)
  PROVE  AccountsInv'
<1> DEFINE s == req[p].social
<1>1. /\ req[p] \in Request /\ PlaceInv(pc[p], req[p], did[p]) /\ TypeOK /\ RowsInv
      /\ DiscardInv(pc[p], req[p], did[p], held[p]) /\ CreateInv(req[p], did[p], held[p])
  BY OwnLemma DEF RequestInv
<1>2. {"createUser", "insertSocial", "commit"} \subseteq PC /\ {"create", "social"} \subseteq Write
  BY DEF PC, Write
<1>3. pc[p] \in {"owner", "createUser", "insertSocial"}
  BY DEF FindOwner, CreateUser, InsertSocial, At
<1>4. req[p].kind = "oauth" /\ s \in Social
  BY <1>1, <1>3, PlaceLemma
<1>5. /\ pc[p] \in {"owner", "createUser"} => did[p] \in {{}, {"discard"}}
      /\ pc[p] = "owner" => req[p].email \in Email
      /\ pc[p] = "insertSocial" => did[p] \in {{"create"}, {"discard", "create"}}
      /\ "mail" \notin did[p]
  BY <1>1, <1>3, <1>4 DEF PlaceInv, OAuthPlace
<1>6. CASE FindOwner(p)
  <2>1. PICK e : e = IF OthersOf(p, req[p].email) # {} THEN None ELSE req[p].email
    OBVIOUS
  <2>2. PICK r : r = [req[p] EXCEPT !.userEmail = e]
    OBVIOUS
  <2>3. pc[p] = "owner" /\ Read(p, r, "createUser")
    BY <1>6, <2>1, <2>2 DEF FindOwner, At
  <2>4. e \in Email \cup {None}
    BY <1>1, <2>1 DEF Request
  <2>5. /\ r \in Request /\ r.kind = "oauth" /\ r.social = s /\ r.found = req[p].found
        /\ r.email = req[p].email /\ r.verified = req[p].verified /\ r.userEmail = e
    BY <1>1, <1>4, <2>2, <2>4 DEF Request
  <2>6. "discard" \in did[p] => e = req[p].email
    BY <1>1, <2>1, <2>3, OthersOfLemma, NoneAssumption
  <2>7. DiscardInv("createUser", r, did[p], held[p])
    BY <1>1, <2>5, <2>6 DEF DiscardInv
  <2>8. /\ PlaceInv("createUser", r, did[p]) /\ SeenInv("createUser", r)
        /\ CreateInv(r, did[p], held[p]) /\ SocialInv(r, did[p], held[p])
    BY <1>4, <1>5, <2>3, <2>5 DEF PlaceInv, OAuthPlace, SeenInv, CreateInv, SocialInv
  <2>9. RequestInv("createUser", r, did[p], held[p])
    BY <1>5, <2>3, <2>5, <2>7, <2>8, SignInLemma
  <2>10. QED
    BY <1>2, <1>5, <2>3, <2>5, <2>9, ReadLemma
<1>7. CASE CreateUser(p)
  <2> DEFINE e == req[p].userEmail
             gone == IF "discard" \in did[p] THEN {req[p].found} ELSE {}
  <2>1. PICK i \in IF e # None /\ reserved[e] # None THEN {reserved[e]} ELSE FreshIds :
          LET L == {<<"id", i>>} \cup (IF e = None THEN {} ELSE {<<"email", e>>})
          IN /\ Free(p, L)
             /\ IF (Present(i) /\ i \notin gone) \/ (e # None /\ OthersOf(p, e) # {})
                THEN Conflict(p)
                ELSE Execute(p, L, [req[p] EXCEPT !.id = i], "create", "insertSocial")
    BY <1>7 DEF CreateUser
  <2>2. PICK L : L = {<<"id", i>>} \cup (IF e = None THEN {} ELSE {<<"email", e>>})
    OBVIOUS
  <2>3. CASE Conflict(p)
    BY <2>3, ConflictLemma
  <2>4. CASE /\ Present(i) => i \in gone
             /\ e # None => OthersOf(p, e) = {}
             /\ Execute(p, L, [req[p] EXCEPT !.id = i], "create", "insertSocial")
    <3>1. e \in Email \cup {None} /\ i \in Id
      BY <1>1, <2>1 DEF Request, TypeOK, Reservations, FreshIds
    <3>2. PICK r : r = [req[p] EXCEPT !.id = i]
      OBVIOUS
    <3>3. /\ r \in Request /\ r.kind = "oauth" /\ r.social = s /\ r.found = req[p].found
          /\ r.email = req[p].email /\ r.verified = req[p].verified /\ r.userEmail = e
          /\ r.id = i
      BY <1>1, <1>4, <3>1, <3>2 DEF Request
    <3>4. PICK D : D = did[p] \cup {"create"}
      OBVIOUS
    <3>5. pc[p] = "createUser" /\ Gone(r, D) = gone
      BY <1>7, <3>3, <3>4 DEF Gone, CreateUser, At
    <3>6. IF e # None /\ reserved[e] # None
          THEN r.id = reserved[e] ELSE r.id \notin made \cup ReservedIds
      BY <2>1, <3>3 DEF FreshIds
    <3>7. e # None => OwnersOf(e) \subseteq Gone(r, D)
      BY <2>4, <3>5 DEF OthersOf
    <3>8. CreateInv(r, D, held[p] \cup L)
      BY <2>2, <2>4, <3>1, <3>3, <3>5, <3>6, <3>7 DEF CreateInv
    <3>9. DiscardInv("insertSocial", r, D, held[p] \cup L)
      BY <1>1, <3>3, <3>4, <3>5 DEF DiscardInv
    <3>10. /\ PlaceInv("insertSocial", r, D) /\ SeenInv("insertSocial", r)
           /\ SocialInv(r, D, held[p] \cup L)
      BY <1>4, <1>5, <3>3, <3>4, <3>5 DEF PlaceInv, OAuthPlace, SeenInv, SocialInv
    <3>11. D \subseteq {"discard", "create", "social"}
      BY <1>5, <3>4, <3>5
    <3>12. RequestInv("insertSocial", r, D, held[p] \cup L)
      BY <3>3, <3>8, <3>9, <3>10, <3>11, SignInLemma
    <3>13. L \in SUBSET Locks
      BY <2>2, <3>1 DEF Locks, LockMode
    <3>14. QED
      BY <1>2, <1>5, <2>4, <3>2, <3>3, <3>4, <3>12, <3>13, ExecuteLemma
  <2>5. QED
    BY <2>1, <2>2, <2>3, <2>4
<1>8. CASE InsertSocial(p)
  <2> DEFINE L == {<<"social", s>>}
  <2>1. CASE Conflict(p)
    BY <2>1, ConflictLemma
  <2>2. CASE ~Taken(p, s) /\ Execute(p, L, req[p], "social", "commit")
    <3>1. PICK D : D = did[p] \cup {"social"}
      OBVIOUS
    <3>2. pc[p] = "insertSocial" /\ "create" \in D /\ Gone(req[p], D) = Gone(req[p], did[p])
      BY <1>5, <1>8, <3>1 DEF InsertSocial, At, Gone
    <3>3. social[s] \in {None} \cup Gone(req[p], D)
      BY <2>2, <3>2 DEF Taken, Gone
    <3>4. SocialInv(req[p], D, held[p] \cup L)
      BY <3>2, <3>3 DEF SocialInv
    <3>5. L \in SUBSET Locks
      BY <1>4 DEF Locks, LockMode
    <3> HIDE DEF L
    <3>6. CreateInv(req[p], D, held[p] \cup L)
      BY <1>1, <1>5, <3>1, <3>2 DEF CreateInv
    <3>7. DiscardInv("commit", req[p], D, held[p] \cup L)
      BY <1>1, <3>1, <3>2 DEF DiscardInv
    <3>8. PlaceInv("commit", req[p], D) /\ SeenInv("commit", req[p])
      BY <1>4, <1>5, <3>1, <3>2 DEF PlaceInv, OAuthPlace, SeenInv
    <3>9. D \subseteq {"discard", "create", "social"}
      BY <1>5, <3>1, <3>2
    <3>10. RequestInv("commit", req[p], D, held[p] \cup L)
      BY <1>4, <3>4, <3>6, <3>7, <3>8, <3>9, SignInLemma
    <3>11. QED
      BY <1>1, <1>2, <1>5, <2>2, <3>1, <3>5, <3>10, ExecuteLemma
  <2>3. QED
    BY <1>8, <2>1, <2>2 DEF InsertSocial
<1>9. QED
  BY <1>6, <1>7, <1>8
-----------------------------------------------------------------------------
(* What a commit changes, by the locks G it was made under and the links M *)
(* that it inserted.                                                       *)

UserFootprint(G) ==
  \A i \in Id :
    /\ Present(i) /\ user'[i] # user[i] => {<<"update", i>>, <<"delete", i>>} \cap G # {}
    /\ Present(i) /\ ~Present(i)' => <<"delete", i>> \in G
    /\ ~Present(i) /\ Present(i)' =>
         /\ <<"id", i>> \in G /\ i \notin made
         /\ user'[i].email # None => <<"email", user'[i].email>> \in G
    /\ Present(i) /\ Present(i)' =>
         /\ user'[i].email = user[i].email
         /\ user[i].emailVerified => user'[i].emailVerified
    /\ i \in password' \ password => <<"password", i>> \in G \/ ~Present(i)
    /\ i \in made => i \in made'
    /\ i \in made' \ made => <<"id", i>> \in G

\* A link is renamed from a user without a reserved subject to one with it.
LinkFootprint(G, M) ==
  \A l \in Link :
    LET i == link[l].user
        j == link'[l].user
    IN /\ link'[l] # link[l] => IF link[l].state = "free" THEN l \in M ELSE <<"link", l>> \in G
       /\ j \notin {None, i} => {<<"share", j>>, <<"id", j>>} \cap G # {}
       /\ link[l].state # "free" =>
            /\ link'[l].state # "free"
            /\ j \notin {None, i} => i \in Id \ ReservedIds /\ j \in ReservedIds
            /\ link'[l].state = "mailed" =>
                 /\ link[l].state = "mailed"
                 /\ i = j => /\ user'[i].status # user[i].status => i \in vouched'
                             /\ i \in vouched => i \in vouched'

SocialFootprint(G) ==
  \A s \in Social :
    social'[s] # social[s] =>
      /\ <<"social", s>> \in G
      /\ social'[s] # None => {<<"share", social'[s]>>, <<"id", social'[s]>>} \cap G # {}

Footprint(G, M) ==
  /\ UNCHANGED reserved
  /\ UserFootprint(G) /\ LinkFootprint(G, M) /\ SocialFootprint(G)

\* What others may have changed of what is locked in H: nothing that matters.
HeldKept(H) ==
  /\ \A i \in Id : (<<"share", i>> \in H \/ <<"delete", i>> \in H) /\ Present(i) =>
       /\ Present(i)' /\ user'[i].email = user[i].email
       /\ user[i].emailVerified => user'[i].emailVerified
  /\ \A i \in Id : (<<"update", i>> \in H \/ <<"delete", i>> \in H) /\ Present(i) =>
       user'[i] = user[i]
  /\ \A i \in Id : <<"id", i>> \in H =>
       (Present(i)' => Present(i)) /\ (i \in made' => i \in made)
  /\ \A e \in Email : e # None /\ <<"email", e>> \in H => OwnersOf(e)' \subseteq OwnersOf(e)
  /\ \A i \in Id : <<"password", i>> \in H /\ Present(i) /\ i \in password' => i \in password
  /\ \A s \in Social : <<"social", s>> \in H => social'[s] = social[s]
  /\ \A l \in Link : <<"link", l>> \in H /\ link[l].state # "free" => link'[l] = link[l]
  /\ \A i \in Id : Cascade(i) \subseteq H /\ Present(i) => Cascade(i)' \subseteq H

\* What is committed under G leaves alone what another has locked in H.
LEMMA HeldLemma ==
  ASSUME NEW G, NEW M, NEW H, Footprint(G, M), \A a \in G, b \in H : ~Clash(a, b)
  PROVE  HeldKept(H)
<1>1. /\ \A x : <<"delete", x>> \in G => {<<"share", x>>, <<"update", x>>, <<"delete", x>>} \cap H = {}
      /\ \A x : <<"update", x>> \in G => {<<"update", x>>, <<"delete", x>>} \cap H = {}
      /\ \A x : <<"share", x>> \in G => <<"delete", x>> \notin H
      /\ \A x, m : m # "share" /\ <<m, x>> \in G => <<m, x>> \notin H
  BY DEF Clash
<1>2. UserFootprint(G) /\ LinkFootprint(G, M) /\ SocialFootprint(G)
  BY DEF Footprint
<1>3. \A i \in Id : (<<"share", i>> \in H \/ <<"delete", i>> \in H) /\ Present(i) =>
        /\ Present(i)' /\ user'[i].email = user[i].email
        /\ user[i].emailVerified => user'[i].emailVerified
  BY <1>1, <1>2 DEF UserFootprint
<1>4. \A i \in Id : (<<"update", i>> \in H \/ <<"delete", i>> \in H) /\ Present(i) =>
        user'[i] = user[i]
  BY <1>1, <1>2 DEF UserFootprint
<1>5. \A i \in Id : <<"id", i>> \in H => (Present(i)' => Present(i)) /\ (i \in made' => i \in made)
  BY <1>1, <1>2 DEF UserFootprint
<1>6. \A e \in Email : e # None /\ <<"email", e>> \in H => OwnersOf(e)' \subseteq OwnersOf(e)
  <2> SUFFICES ASSUME NEW e \in Email, e # None, <<"email", e>> \in H,
                      NEW i \in Id, Present(i)', user'[i].email = e
               PROVE  Present(i) /\ user[i].email = e
    BY DEF OwnersOf
  <2>1. <<"email", e>> \notin G
    BY <1>1
  <2>2. QED
    BY <1>2, <2>1 DEF UserFootprint
<1>7. \A i \in Id : <<"password", i>> \in H /\ Present(i) /\ i \in password' => i \in password
  BY <1>1, <1>2 DEF UserFootprint
<1>8. \A s \in Social : <<"social", s>> \in H => social'[s] = social[s]
  BY <1>1, <1>2 DEF SocialFootprint
<1>9. \A l \in Link : <<"link", l>> \in H /\ link[l].state # "free" => link'[l] = link[l]
  BY <1>1, <1>2 DEF LinkFootprint
<1>10. ASSUME NEW i \in Id, Cascade(i) \subseteq H, Present(i) PROVE Cascade(i)' \subseteq H
  <2>1. /\ <<"delete", i>> \in H /\ <<"id", i>> \in H /\ <<"email", user[i].email>> \in H
        /\ <<"password", i>> \in H /\ <<"pending", i>> \in H
        /\ \A l \in Link : link[l].user = i => <<"link", l>> \in H
        /\ \A s \in Social : social[s] = i => <<"social", s>> \in H
    BY <1>10 DEF Cascade
  <2>2. user'[i] = user[i] /\ <<"share", i>> \notin G /\ <<"id", i>> \notin G
    BY <1>1, <1>4, <1>10, <2>1
  <2>3. \A l \in Link : link'[l].user = i => link[l].user = i \/ i = None
    BY <1>2, <2>2 DEF LinkFootprint
  <2>4. \A s \in Social : social'[s] = i => social[s] = i \/ i = None
    BY <1>2, <2>2 DEF SocialFootprint
  <2>5. i # None
    BY NoneAssumption
  <2>6. QED
    BY <2>1, <2>2, <2>3, <2>4, <2>5 DEF Cascade
<1>11. QED
  BY <1>3, <1>4, <1>5, <1>6, <1>7, <1>8, <1>9, <1>10 DEF HeldKept

\* A link still mailed to the user it was found for has been so all along.
LEMMA MailedLemma ==
  ASSUME TypeOK, RowsInv, RowsInv', NEW G, NEW M, Footprint(G, M), NEW r,
         r.link \in Link, link[r.link].state # "free", r.found \in Id,
         link[r.link].user \in {r.found, None} \cup ReservedIds, Mailed(r)'
  PROVE  /\ Mailed(r) /\ user'[r.found].email = user[r.found].email
         /\ user'[r.found].status # user[r.found].status => r.found \in vouched'
         /\ r.found \in vouched => r.found \in vouched'
<1> DEFINE i == r.found
           l == r.link
<1>0. LET k == link[l].user
          j == link'[l].user
      IN /\ link[l].state # "free" => link'[l].state # "free"
         /\ link[l].state # "free" /\ j \notin {None, k} => k \in Id \ ReservedIds
         /\ link[l].state # "free" /\ link'[l].state = "mailed" =>
              /\ link[l].state = "mailed"
              /\ k = j => /\ user'[k].status # user[k].status => k \in vouched'
                          /\ k \in vouched => k \in vouched'
  BY DEF Footprint, LinkFootprint
<1>1. link'[l] = [state |-> "mailed", user |-> i] /\ i # None
  BY NoneAssumption DEF Mailed
<1>2. link[l].state = "mailed"
  BY <1>0, <1>1
<1>3. link[l].user = i
  <2>1. link[l].user \in Id
    BY <1>2 DEF RowsInv
  <2>2. CASE link[l].user # i
    <3>1. link[l].user \notin ReservedIds
      BY <1>0, <1>1, <1>2, <2>2
    <3>2. link[l].user = None
      BY <2>2, <3>1
    <3>3. QED
      BY <2>1, <3>2, NoneAssumption
  <2>3. QED
    BY <2>2
<1>4. Present(i) /\ Present(i)'
  BY <1>1, <1>2, <1>3 DEF RowsInv
<1>5. /\ user'[i].status # user[i].status => i \in vouched'
      /\ i \in vouched => i \in vouched'
  BY <1>0, <1>1, <1>2, <1>3
<1>6. user'[i].email = user[i].email
  BY <1>4 DEF Footprint, UserFootprint
<1>7. Mailed(r)
  BY <1>2, <1>3 DEF Mailed, TypeOK, LinkRow
<1>8. QED
  BY <1>5, <1>6, <1>7

LEMMA OthersLemma ==
  ASSUME TypeOK, RowsInv, RowsInv', NEW G, NEW M, Footprint(G, M),
         NEW label, NEW r \in Request, NEW D, NEW H, RequestInv(label, r, D, H),
         \A a \in G, b \in H : ~Clash(a, b), "mail" \in D => r.link \notin M
  PROVE  RequestInv(label, r, D, H)'
<1> DEFINE i == r.found
<1>1. UserFootprint(G) /\ LinkFootprint(G, M) /\ UNCHANGED ReservedIds /\ UNCHANGED reserved
  BY DEF Footprint, ReservedIds
<1>2. \A l \in Link : link[l].state # "free" => link'[l].state # "free"
  BY <1>1 DEF LinkFootprint
<1>3. PlaceInv(label, r, D)'
  BY <1>2 DEF RequestInv, PlaceInv, RegisterPlace, MailPlace, ConfirmPlace, OAuthPlace
<1>4. SeenInv(label, r)'
  <2> SUFFICES ASSUME label \in {"discard", "linkSocial"}
               PROVE  SeenInv(label, r)'
    BY DEF SeenInv
  <2>1. SeenInv(label, r) /\ i \in made /\ i \in Id
    BY DEF RequestInv, SeenInv, TypeOK
  <2>2. i \in made' /\ (Present(i)' => Present(i))
    BY <1>1, <2>1 DEF UserFootprint
  <2>3. Present(i)' => /\ user'[i].email = user[i].email
                       /\ user[i].emailVerified => user'[i].emailVerified
    BY <1>1, <2>1, <2>2 DEF UserFootprint
  <2>4. QED
    BY <2>1, <2>2, <2>3 DEF SeenInv
<1>5. ASSUME r.kind = "confirm", label \notin {"findLink", "handoff"}
      PROVE  /\ r.link \in Link /\ link[r.link].state # "free" /\ i \in Id
             /\ link[r.link].user \in {i, None} \cup ReservedIds
             /\ link'[r.link].user \in {i, None} \cup ReservedIds
  <2>1. /\ r.link \in Link /\ link[r.link].state # "free" /\ i \in Id
        /\ link[r.link].user \in {i, None} \cup ReservedIds
    BY <1>5 DEF RequestInv, PlaceInv, ConfirmPlace, LinkInv
  <2>2. link'[r.link].user \in {None, link[r.link].user} \cup ReservedIds
    BY <1>1, <2>1 DEF LinkFootprint
  <2>3. QED
    BY <2>1, <2>2
<1>6. ASSUME r.kind = "confirm", label \notin {"findLink", "handoff"}, Mailed(r)'
      PROVE  /\ Mailed(r) /\ user'[i].email = user[i].email
             /\ user'[i].status # user[i].status => i \in vouched'
             /\ i \in vouched => i \in vouched'
  BY <1>5, <1>6, MailedLemma
<1>7. HeldKept(H)
  BY HeldLemma
<1>8. "use" \in D => /\ r.kind = "confirm" /\ label \notin {"findLink", "handoff"}
                     /\ <<"link", r.link>> \in H /\ Mailed(r) /\ Mailed(r)'
  <2>1. "use" \in D => r.kind = "confirm" /\ label \notin {"findLink", "handoff"}
    BY DEF RequestInv, PlaceInv, RegisterPlace, MailPlace, ConfirmPlace, OAuthPlace, Request
  <2>2. "use" \in D => <<"link", r.link>> \in H /\ Mailed(r)
    BY DEF RequestInv, ConfirmInv
  <2>3. "use" \in D => link'[r.link] = link[r.link]
    BY <1>5, <1>7, <2>1, <2>2 DEF HeldKept
  <2>4. QED
    BY <2>1, <2>2, <2>3 DEF Mailed
<1>9. LinkInv(label, r, D)'
  <2>1. LinkInv(label, r, D)
    BY DEF RequestInv
  <2>2. r.kind = "confirm" /\ label \notin {"findLink", "handoff"} =>
          link'[r.link].user \in {i, None} \cup ReservedIds
    BY <1>5
  <2>3. r.kind = "confirm" /\ label \notin {"findLink", "readUser", "handoff"} /\ Mailed(r)' =>
          /\ user'[i].email = r.seen.email
          /\ r.seen.status = "PENDING" /\ user'[i].status # "PENDING" => i \in vouched'
    BY <1>6, <2>1 DEF LinkInv
  <2>4. label = "commit" /\ D = {"use"} =>
          \/ i \in vouched'
          \/ r.seen.email # None /\ reserved[r.seen.email] \in made' \ {i}
    <3>1. made \subseteq made'
      BY <1>1 DEF UserFootprint, TypeOK
    <3>2. QED
      BY <1>6, <1>8, <2>1, <3>1 DEF LinkInv
  <2>5. SubjectFor(r.seen.email, i)' = SubjectFor(r.seen.email, i)
    BY <1>1 DEF SubjectFor
  <2>6. QED
    BY <1>1, <2>1, <2>2, <2>3, <2>4, <2>5 DEF LinkInv
<1>10. RegisterInv(r, D, H)'
  <2>1. RegisterInv(r, D, H) /\ PlaceInv(label, r, D)
    BY DEF RequestInv
  <2>2. "register" \in D => r.email \in Email /\ r.email # None
    BY <2>1, NoneAssumption DEF PlaceInv, RegisterPlace, MailPlace, ConfirmPlace, OAuthPlace, Request
  <2>3. "mail" \in D => r.link \in Link /\ i \in Id
    BY <2>1 DEF PlaceInv, RegisterPlace, MailPlace, ConfirmPlace, OAuthPlace, Request
  <2>4. "mail" \in D => link'[r.link].state = "free"
    BY <1>1, <2>1, <2>3 DEF RegisterInv, LinkFootprint
  <2>5. "register" \in D => OwnersOf(r.email)' = {} /\ r.id \in Id \ (made' \cup ReservedIds)
    BY <1>7, <2>1, <2>2 DEF RegisterInv, HeldKept
  <2>6. QED
    BY <1>1, <1>7, <2>1, <2>3, <2>4, <2>5 DEF RegisterInv, HeldKept
<1>11. ConfirmInv(r, D, H)'
  <2>1. ConfirmInv(r, D, H) /\ PlaceInv(label, r, D)
    BY DEF RequestInv
  <2>2. "activate" \in D \/ "attach" \in D => i \in Id
    BY <2>1 DEF PlaceInv, RegisterPlace, MailPlace, ConfirmPlace, OAuthPlace, Request
  <2>3. ASSUME "activate" \in D
        PROVE  /\ user'[i].status = "PENDING"
               /\ r.id # i => Cascade(i)' \subseteq H /\ ~Present(r.id)'
    <3>1. Present(i) /\ (<<"update", i>> \in H \/ Cascade(i) \subseteq H)
      BY <2>1, <2>3 DEF ConfirmInv, Present
    <3>2. Cascade(i) \subseteq H => <<"delete", i>> \in H
      BY DEF Cascade
    <3>3. user'[i] = user[i]
      BY <1>7, <2>2, <2>3, <3>1, <3>2 DEF HeldKept
    <3>4. r.id # i => Cascade(i)' \subseteq H
      BY <1>7, <2>1, <2>2, <2>3, <3>1 DEF ConfirmInv, HeldKept
    <3>5. r.id # i => ~Present(r.id)'
      BY <1>7, <2>1, <2>3 DEF ConfirmInv, HeldKept
    <3>6. QED
      BY <2>1, <2>3, <3>3, <3>4, <3>5 DEF ConfirmInv
  <2>4. ASSUME "attach" \in D PROVE Present(i)' /\ i \notin password'
    BY <1>7, <2>1, <2>2, <2>4 DEF ConfirmInv, HeldKept
  <2>5. QED
    BY <1>8, <2>1, <2>3, <2>4 DEF ConfirmInv
<1>12. DiscardInv(label, r, D, H)'
  <2> SUFFICES ASSUME "discard" \in D PROVE DiscardInv(label, r, D, H)'
    BY DEF DiscardInv
  <2>1. DiscardInv(label, r, D, H)
    BY DEF RequestInv
  <2>2. Cascade(i) \subseteq H /\ i \in Id /\ Present(i) /\ <<"delete", i>> \in H
    BY <2>1 DEF DiscardInv, Cascade
  <2>3. Cascade(i)' \subseteq H /\ Present(i)' /\ user'[i].email = user[i].email
    BY <1>7, <2>2 DEF HeldKept
  <2>4. QED
    BY <2>1, <2>3 DEF DiscardInv
<1>13. CreateInv(r, D, H)'
  <2> DEFINE e == r.userEmail
  <2> SUFFICES ASSUME "create" \in D PROVE CreateInv(r, D, H)'
    BY DEF CreateInv
  <2>1. CreateInv(r, D, H) /\ e \in Email \cup {None}
    BY DEF RequestInv, Request
  <2>2. r.id \in Id /\ (Present(r.id)' => Present(r.id)) /\ (r.id \in made' => r.id \in made)
    BY <1>7, <2>1 DEF CreateInv, HeldKept
  <2>3. e # None => OwnersOf(e)' \subseteq OwnersOf(e)
    BY <1>7, <2>1 DEF CreateInv, HeldKept
  <2>4. Gone(r, D)' = Gone(r, D)
    BY DEF Gone
  <2>5. QED
    BY <1>1, <2>1, <2>2, <2>3, <2>4 DEF CreateInv
<1>14. SocialInv(r, D, H)'
  <2> SUFFICES ASSUME "social" \in D PROVE SocialInv(r, D, H)'
    BY DEF SocialInv
  <2>1. SocialInv(r, D, H) /\ r.social \in Social
    BY DEF RequestInv, PlaceInv, RegisterPlace, MailPlace, ConfirmPlace, OAuthPlace, Request
  <2>2. social'[r.social] = social[r.social]
    BY <1>7, <2>1 DEF SocialInv, HeldKept
  <2>3. Gone(r, D)' = Gone(r, D)
    BY DEF Gone
  <2>4. QED
    BY <1>7, <2>1, <2>2, <2>3 DEF SocialInv, HeldKept
<1>15. QED
  BY <1>3, <1>4, <1>9, <1>10, <1>11, <1>12, <1>13, <1>14 DEF RequestInv
-----------------------------------------------------------------------------
(* Steps that change the tables.                                           *)

LEMMA IdleLemma ==
  /\ NoRequest \in Request /\ "idle" \in PC /\ "handoff" \in PC
  /\ RequestInv("idle", NoRequest, {}, {})'
<1>1. NoRequest \in Request /\ "idle" \in PC /\ "handoff" \in PC
  BY DEF NoRequest, Request, PC, Account, Absent
<1>2. RequestInv("idle", NoRequest, {}, {})'
  BY DEF NoRequest, RequestInv, PlaceInv, SeenInv, LinkInv, RegisterInv, ConfirmInv,
         DiscardInv, CreateInv, SocialInv
<1>3. QED
  BY <1>1, <1>2

\* A request that has committed, and has its handoff code to make.
LEMMA HandoffLemma ==
  ASSUME NEW r,
         \/ r.kind = "oauth" /\ r.social \in Social
         \/ /\ r.kind = "confirm" /\ r.social = None
            /\ r.link \in Link /\ link'[r.link].state # "free"
  PROVE  RequestInv("handoff", r, {}, {})'
BY DEF RequestInv, PlaceInv, ConfirmPlace, OAuthPlace, SeenInv, LinkInv, RegisterInv,
       ConfirmInv, DiscardInv, CreateInv, SocialInv

LEMMA CommitLemma ==
  ASSUME AccountsInv, NEW p \in Proc, NEW M, Footprint(held[p], M),
         M = {} \/ ("mail" \in did[p] /\ M = {req[p].link}),
         NEW label \in PC, NEW r \in Request, Rollback(p),
         pc' = [pc EXCEPT ![p] = label], req' = [req EXCEPT ![p] = r],
         RequestInv(label, r, {}, {})', TypeOK', RowsInv', PasswordVouched',
         EveryAccountReachable', LinkActsOnce', ReservedSubject'
  PROVE  AccountsInv'
<1>1. TypeOK /\ LockInv /\ RowsInv
  BY OwnLemma
<1>2. /\ pc'[p] = label /\ req'[p] = r /\ did'[p] = {} /\ held'[p] = {}
      /\ \A q \in Proc \ {p} : /\ pc'[q] = pc[q] /\ req'[q] = req[q]
                               /\ did'[q] = did[q] /\ held'[q] = held[q]
  BY <1>1 DEF TypeOK, Rollback
<1>3. LockInv'
  BY <1>1, <1>2 DEF LockInv, Clash
<1>4. ASSUME NEW q \in Proc PROVE RequestInv(pc[q], req[q], did[q], held[q])'
  <2>1. CASE q = p
    BY <1>2, <2>1
  <2>2. CASE q # p
    <3>1. /\ RequestInv(pc[q], req[q], did[q], held[q]) /\ req[q] \in Request
          /\ \A a \in held[p], b \in held[q] : ~Clash(a, b)
          /\ "mail" \in did[q] => req[q].link \notin M
      BY <1>1, <2>2, OwnLemma DEF LockInv
    <3>2. PICK l, s, D, H : l = pc[q] /\ s = req[q] /\ D = did[q] /\ H = held[q]
      OBVIOUS
    <3>3. PICK G : G = held[p]
      OBVIOUS
    <3>4. RequestInv(l, s, D, H)'
      BY <1>1, <3>1, <3>2, <3>3, OthersLemma
    <3>5. QED
      BY <1>2, <2>2, <3>2, <3>4
  <2>3. QED
    BY <2>1, <2>2
<1>5. QED
  BY <1>3, <1>4 DEF AccountsInv

\* An expiry changes nothing that the invariant is about.
LEMMA LapseLemma ==
  ASSUME AccountsInv, TypeOK', UNCHANGED <<reserved, user, password, social, link, history>>,
         UNCHANGED <<pc, req, did, held>>
  PROVE  AccountsInv'
<1>1. LockInv'
  BY DEF AccountsInv, LockInv
<1>2. /\ RowsInv' /\ PasswordVouched' /\ EveryAccountReachable' /\ LinkActsOnce'
      /\ ReservedSubject'
  BY DEF AccountsInv, RowsInv, PasswordVouched, EveryAccountReachable, LinkActsOnce,
         ReservedSubject, Present, ReservedIds, history
<1>3. ASSUME NEW q \in Proc PROVE RequestInv(pc[q], req[q], did[q], held[q])'
  BY FrameLemma DEF AccountsInv
<1>4. QED
  BY <1>1, <1>2, <1>3 DEF AccountsInv

\* A step that changes no row of a user, password, link or identity.
LEMMA StillLemma ==
  ASSUME AccountsInv, NEW p \in Proc, NEW label \in PC, NEW r \in Request, Rollback(p),
         UNCHANGED <<reserved, user, password, social, link, history>>, TypeOK',
         pc' = [pc EXCEPT ![p] = label], req' = [req EXCEPT ![p] = r],
         RequestInv(label, r, {}, {})'
  PROVE  AccountsInv'
<1>1. Footprint(held[p], {})
  BY DEF Footprint, UserFootprint, LinkFootprint, SocialFootprint, Present, history
<1>2. /\ RowsInv' /\ PasswordVouched' /\ EveryAccountReachable' /\ LinkActsOnce'
      /\ ReservedSubject'
  BY DEF AccountsInv, RowsInv, PasswordVouched, EveryAccountReachable, LinkActsOnce,
         ReservedSubject, Present, ReservedIds, history
<1>3. QED
  BY <1>1, <1>2, CommitLemma

LEMMA CommitRegisterLemma ==
  ASSUME AccountsInv, NEW p \in Proc, UNCHANGED reserved, CommitRegister(p)
  PROVE  AccountsInv'
<1> DEFINE e == req[p].email
<1>1. /\ TypeOK /\ RowsInv /\ req[p] \in Request /\ did[p] \in SUBSET Write
      /\ PlaceInv(pc[p], req[p], did[p]) /\ RegisterInv(req[p], did[p], held[p])
  BY OwnLemma DEF RequestInv
<1>2. e \in Email /\ did[p] \in {{"register"}, {"pend"}}
  BY <1>1 DEF PlaceInv, RegisterPlace, CommitRegister, At
<1>3. /\ pc' = [pc EXCEPT ![p] = "idle"] /\ req' = [req EXCEPT ![p] = NoRequest] /\ Rollback(p)
      /\ UNCHANGED <<social, link, lapsed, vouched, acts>>
  BY DEF CommitRegister, End, Goto
<1>4. ASSUME user' \in [Id -> Account], password' \in SUBSET Id, made' \in SUBSET Id,
             pending' \in [Id -> {"none", "kept", "lapsed"}]
      PROVE  TypeOK'
  <2>1. NoRequest \in Request /\ "idle" \in PC
    BY IdleLemma
  <2>2. reserved' \in Reservations'
    BY <1>1 DEF TypeOK, Reservations
  <2>3. QED
    BY <1>1, <1>3, <1>4, <2>1, <2>2 DEF TypeOK, Rollback
<1>5. CASE did[p] = {"pend"}
  <2>1. /\ pending' = [pending EXCEPT ![req[p].found] = "kept"]
        /\ UNCHANGED <<user, password, made>>
    BY <1>5 DEF CommitRegister
  <2>2. TypeOK'
    BY <1>1, <1>4, <2>1 DEF TypeOK
  <2>3. QED
    BY <1>3, <2>1, <2>2, StillLemma, IdleLemma DEF history
<1>6. CASE did[p] = {"register"}
  <2>0. PICK i, row : /\ i = req[p].id
                      /\ row = [status |-> "PENDING", email |-> e, emailVerified |-> FALSE]
    OBVIOUS
  <2>1. /\ user' = [user EXCEPT ![i] = row] /\ password' = password \cup {i}
        /\ made' = made \cup {i} /\ UNCHANGED pending
    BY <1>6, <2>0 DEF CommitRegister, WithCredential
  <2>2. /\ i \in Id /\ i \notin made /\ i \notin ReservedIds /\ ~Present(i) /\ OwnersOf(e) = {}
        /\ <<"id", i>> \in held[p] /\ <<"email", e>> \in held[p]
    BY <1>1, <1>6, <2>0 DEF RegisterInv, RowsInv
  <2>3. row \in Account /\ row.status = "PENDING" /\ row.email = e /\ row.emailVerified = FALSE
    BY <1>2, <2>0 DEF Account
  <2>4. /\ user'[i] = row /\ \A k \in Id \ {i} : user'[k] = user[k]
        /\ Present(i)' /\ \A k \in Id \ {i} : Present(k)' <=> Present(k)
    <3>1. user'[i] = row /\ \A k \in Id \ {i} : user'[k] = user[k]
      BY <1>1, <2>1, <2>2 DEF TypeOK
    <3>2. QED
      BY <2>3, <3>1 DEF Present
  <2>5. TypeOK'
    BY <1>1, <1>4, <2>1, <2>2, <2>3 DEF TypeOK
  <2>6. RowsInv'
    <3>1. /\ \A k \in Id : Present(k)' => k \in made'
          /\ \A k \in made' \cap ReservedIds' : Present(k)'
          /\ \A k \in ReservedIds' : Present(k)' =>
               user'[k].email # None /\ reserved'[user'[k].email] = k
      <4>1. ReservedIds' = ReservedIds /\ ReservedIds \subseteq Id
        BY <1>1 DEF ReservedIds, TypeOK, Reservations
      <4>2. QED
        BY <1>1, <2>1, <2>2, <2>4, <4>1 DEF RowsInv
    <3>2. \A k, m \in Id : Present(k)' /\ Present(m)' /\ user'[k].email = user'[m].email
                             /\ user'[k].email # None => k = m
      <4>1. \A k \in Id \ {i} : Present(k)' => user'[k].email # e
        BY <2>2, <2>4 DEF OwnersOf
      <4>2. QED
        BY <1>1, <2>3, <2>4, <4>1 DEF RowsInv
    <3>3. /\ (\A k \in password : Present(k))'
          /\ (\A s \in Social : social[s] # None => Present(social[s]))'
      BY <1>1, <1>3, <2>1, <2>4 DEF RowsInv, TypeOK
    <3>4. (\A l \in Link : IF link[l].state \in {"mailed", "used"}
                           THEN link[l].user \in Id /\ Present(link[l].user)
                           ELSE link[l].user = None)'
      BY <1>1, <1>3, <2>4 DEF RowsInv
    <3>5. QED
      BY <3>1, <3>2, <3>3, <3>4 DEF RowsInv
  <2>7. PasswordVouched' /\ EveryAccountReachable' /\ LinkActsOnce' /\ ReservedSubject'
    <3>1. PasswordVouched'
      BY <1>1, <1>3, <2>1, <2>3, <2>4 DEF AccountsInv, PasswordVouched, TypeOK
    <3>2. EveryAccountReachable'
      BY <1>3, <2>1, <2>4 DEF AccountsInv, EveryAccountReachable
    <3>3. LinkActsOnce' /\ ReservedSubject'
      BY <1>3, <2>3, <2>4 DEF AccountsInv, LinkActsOnce, ReservedSubject
    <3>4. QED
      BY <3>1, <3>2, <3>3
  <2>8. Footprint(held[p], {})
    <3>1. UserFootprint(held[p])
      BY <2>1, <2>2, <2>3, <2>4 DEF UserFootprint
    <3>2. LinkFootprint(held[p], {}) /\ SocialFootprint(held[p])
      <4>1. \A l \in Link : link[l].state = "mailed" => link[l].user \in Id \ {i}
        BY <1>1, <2>2 DEF RowsInv
      <4>2. QED
        BY <1>3, <2>4, <4>1 DEF LinkFootprint, SocialFootprint
    <3>3. QED
      BY <3>1, <3>2 DEF Footprint
  <2>9. QED
    BY <1>3, <2>5, <2>6, <2>7, <2>8, CommitLemma, IdleLemma
<1>7. QED
  BY <1>2, <1>5, <1>6

LEMMA CommitMailLemma ==
  ASSUME AccountsInv, NEW p \in Proc, UNCHANGED reserved, CommitMail(p)
  PROVE  AccountsInv'
<1> DEFINE i == req[p].found
           l == req[p].link
           row == [state |-> "mailed", user |-> i]
<1>1. /\ TypeOK /\ RowsInv /\ req[p] \in Request
      /\ PlaceInv(pc[p], req[p], did[p]) /\ RegisterInv(req[p], did[p], held[p])
  BY OwnLemma DEF RequestInv
<1>2. did[p] = {"mail"} /\ i \in Id /\ l \in Link
  BY <1>1 DEF PlaceInv, MailPlace, CommitMail, At
<1>3. <<"share", i>> \in held[p] /\ Present(i) /\ link[l].state = "free"
  BY <1>1, <1>2 DEF RegisterInv
<1>4. /\ pc' = [pc EXCEPT ![p] = "idle"] /\ req' = [req EXCEPT ![p] = NoRequest] /\ Rollback(p)
      /\ UNCHANGED <<user, password, pending, social, lapsed, history>>
      /\ link' = [link EXCEPT ![l] = row]
  BY DEF CommitMail, End, Goto
<1>5. row \in LinkRow /\ row.state = "mailed" /\ row.user = i
  BY <1>2 DEF LinkRow
<1> HIDE DEF row
<1>6. link'[l] = row /\ \A k \in Link \ {l} : link'[k] = link[k]
  BY <1>1, <1>2, <1>4 DEF TypeOK
<1>7. TypeOK'
  <2>1. NoRequest \in Request /\ "idle" \in PC /\ reserved' \in Reservations'
    BY <1>1, IdleLemma DEF TypeOK, Reservations
  <2>2. QED
    BY <1>1, <1>4, <1>5, <2>1 DEF TypeOK, Rollback, history
<1>8. RowsInv'
  <2>1. (\A k \in Link : IF link[k].state \in {"mailed", "used"}
                         THEN link[k].user \in Id /\ Present(link[k].user)
                         ELSE link[k].user = None)'
    BY <1>1, <1>2, <1>3, <1>4, <1>5, <1>6 DEF RowsInv, Present
  <2>2. QED
    BY <1>1, <1>4, <2>1 DEF RowsInv, Present, ReservedIds, history
<1>9. PasswordVouched' /\ EveryAccountReachable' /\ ReservedSubject'
  BY <1>4 DEF AccountsInv, PasswordVouched, EveryAccountReachable, ReservedSubject, Present,
              history
<1>10. LinkActsOnce'
  <2>1. LinkActsOnce
    BY DEF AccountsInv
  <2>2. QED
    BY <1>3, <1>4, <1>5, <1>6, <2>1 DEF LinkActsOnce, history
<1>11. Footprint(held[p], {l})
  <2>1. UserFootprint(held[p]) /\ SocialFootprint(held[p])
    BY <1>4 DEF UserFootprint, SocialFootprint, Present, history
  <2>2. LinkFootprint(held[p], {l})
    BY <1>3, <1>4, <1>5, <1>6 DEF LinkFootprint, history
  <2>3. QED
    BY <2>1, <2>2 DEF Footprint
<1>12. QED
  BY <1>2, <1>4, <1>7, <1>8, <1>9, <1>10, <1>11, CommitLemma, IdleLemma

LEMMA TypeLemma ==
  ASSUME TypeOK, NEW p \in Proc, NEW label \in PC, NEW r \in Request, Rollback(p),
         pc' = [pc EXCEPT ![p] = label], req' = [req EXCEPT ![p] = r],
         UNCHANGED <<reserved, lapsed>>,
         user' \in [Id -> Account], password' \in SUBSET Id,
         pending' \in [Id -> {"none", "kept", "lapsed"}], social' \in [Social -> Id \cup {None}],
         link' \in [Link -> LinkRow], made' \in SUBSET Id, vouched' \in SUBSET Id,
         acts' \in [Link -> Nat]
  PROVE  TypeOK'
BY DEF TypeOK, Rollback, Reservations

\* Where a confirmation is after its commit.
LEMMA ConfirmEndLemma ==
  ASSUME AccountsInv, NEW p \in Proc, CommitConfirm(p), link'[req[p].link].state # "free",
         req[p].found \in Id, "activate" \in did[p] => req[p].id \in Id
  PROVE  \E label \in PC, r \in Request :
           /\ pc' = [pc EXCEPT ![p] = label] /\ req' = [req EXCEPT ![p] = r] /\ Rollback(p)
           /\ RequestInv(label, r, {}, {})'
<1>1. CASE "activate" \in did[p] \/ "attach" \in did[p]
  <2>1. PICK j, r : /\ j = IF "activate" \in did[p] THEN req[p].id ELSE req[p].found
                    /\ r = [req[p] EXCEPT !.found = j]
    OBVIOUS
  <2>2. /\ pc' = [pc EXCEPT ![p] = "handoff"] /\ req' = [req EXCEPT ![p] = r] /\ Rollback(p)
    BY <1>1, <2>1 DEF CommitConfirm, Goto
  <2>3. req[p] \in Request /\ req[p].kind = "confirm" /\ PlaceInv(pc[p], req[p], did[p])
    BY OwnLemma DEF CommitConfirm, RequestInv
  <2>4. /\ r \in Request /\ r.kind = "confirm" /\ r.link = req[p].link /\ r.link \in Link
        /\ r.social = None
    <3>1. req[p].link \in Link /\ req[p].social = None /\ j \in Id
      BY <2>1, <2>3 DEF PlaceInv, ConfirmPlace
    <3>2. QED
      BY <2>1, <2>3, <3>1 DEF Request
  <2>5. link'[r.link].state # "free"
    BY <2>4
  <2>6. RequestInv("handoff", r, {}, {})'
    BY <2>4, <2>5, HandoffLemma
  <2>7. QED
    BY <2>2, <2>4, <2>6, IdleLemma
<1>2. CASE ~("activate" \in did[p] \/ "attach" \in did[p])
  BY <1>2, IdleLemma DEF CommitConfirm, End, Goto
<1>3. QED
  BY <1>1, <1>2

\* What a confirmation knows when it commits.
LEMMA ConfirmFactsLemma ==
  ASSUME AccountsInv, NEW p \in Proc, CommitConfirm(p)
  PROVE  /\ did[p] \in {{"use"}, {"use", "activate"}, {"use", "attach"}}
         /\ req[p] \in Request /\ req[p].found \in Id /\ req[p].link \in Link
         /\ <<"link", req[p].link>> \in held[p]
         /\ link[req[p].link] = [state |-> "mailed", user |-> req[p].found]
         /\ Present(req[p].found) /\ user[req[p].found].email = req[p].seen.email
         /\ "activate" \in did[p] =>
              /\ req[p].id = SubjectFor(req[p].seen.email, req[p].found) /\ req[p].id \in Id
<1>1. /\ TypeOK /\ RowsInv /\ req[p] \in Request
      /\ PlaceInv(pc[p], req[p], did[p]) /\ LinkInv(pc[p], req[p], did[p])
      /\ ConfirmInv(req[p], did[p], held[p]) /\ pc[p] = "commit" /\ req[p].kind = "confirm"
  BY OwnLemma DEF RequestInv, CommitConfirm, At
<1>2. /\ did[p] \in {{"use"}, {"use", "activate"}, {"use", "attach"}}
      /\ req[p].found \in Id /\ req[p].link \in Link
  BY <1>1 DEF PlaceInv, ConfirmPlace
<1>3. Mailed(req[p]) /\ <<"link", req[p].link>> \in held[p]
  BY <1>1, <1>2 DEF ConfirmInv
<1>4. link[req[p].link].state = "mailed" /\ link[req[p].link].user = req[p].found
  BY <1>3 DEF Mailed
<1>5. Present(req[p].found)
  BY <1>1, <1>2, <1>4 DEF RowsInv
<1>6. /\ user[req[p].found].email = req[p].seen.email
      /\ "activate" \in did[p] => req[p].id = SubjectFor(req[p].seen.email, req[p].found)
  BY <1>1, <1>3 DEF LinkInv
<1>7. "activate" \in did[p] => req[p].id \in Id
  BY <1>1, <1>2, <1>6 DEF SubjectFor, Request, Account, TypeOK, Reservations
<1>8. QED
  BY <1>1, <1>2, <1>3, <1>5, <1>6, <1>7 DEF Mailed

\* A confirmation that leaves its user the id.
LEMMA KeepConfirmLemma ==
  ASSUME AccountsInv, NEW p \in Proc, UNCHANGED reserved, CommitConfirm(p),
         "activate" \in did[p] => req[p].id = req[p].found
  PROVE  AccountsInv'
<1>1. PICK r, i, l, e : r = req[p] /\ i = r.found /\ l = r.link /\ e = r.seen.email
  OBVIOUS
<1>2. /\ did[p] \in {{"use"}, {"use", "activate"}, {"use", "attach"}}
      /\ r \in Request /\ i \in Id /\ l \in Link
      /\ <<"link", l>> \in held[p] /\ link[l] = [state |-> "mailed", user |-> i]
      /\ Present(i) /\ user[i].email = e
      /\ "activate" \in did[p] => SubjectFor(e, i) = i
  BY <1>1, ConfirmFactsLemma
<1>3. TypeOK /\ RowsInv /\ ConfirmInv(r, did[p], held[p]) /\ i \in made
  BY <1>1, <1>2, OwnLemma DEF RequestInv, RowsInv
<1>4. link' = [k \in Link |-> [state |-> IF k = l THEN "used" ELSE link[k].state,
                               user |-> link[k].user]]
  BY <1>1 DEF CommitConfirm, Renamed
<1>5. /\ link' \in [Link -> LinkRow] /\ link'[l].state = "used" /\ link'[l].user = i
      /\ \A k \in Link \ {l} : link'[k] = link[k]
  BY <1>2, <1>3, <1>4 DEF TypeOK, LinkRow
<1>6. /\ UNCHANGED lapsed /\ made' = made /\ vouched' = vouched \cup {i}
      /\ password' = password \cup (IF "attach" \in did[p] THEN {i} ELSE {})
  BY <1>1, <1>3 DEF CommitConfirm, Renamed
<1>7. social' = social
  BY <1>1, <1>3 DEF CommitConfirm, Renamed, TypeOK
<1>8. pending' \in [Id -> {"none", "kept", "lapsed"}]
  BY <1>1, <1>2, <1>3 DEF CommitConfirm, TypeOK
<1>9. /\ user' \in [Id -> Account] /\ \A k \in Id \ {i} : user'[k] = user[k]
      /\ user'[i].email = e
      /\ \/ user'[i] = user[i]
         \/ /\ <<"update", i>> \in held[p]
            /\ e # None => reserved[e] \in {None, i}
            /\ user'[i].status = "ACTIVE" /\ user'[i].emailVerified = TRUE
  <2>1. CASE "activate" \in did[p]
    <3>1. user' = [k \in Id |-> IF k = i THEN [status |-> "ACTIVE", email |-> user[i].email,
                                               emailVerified |-> TRUE] ELSE user[k]]
      BY <1>1, <2>1 DEF CommitConfirm
    <3>2. <<"update", i>> \in held[p]
      BY <1>1, <1>3, <2>1 DEF ConfirmInv
    <3>3. e # None => reserved[e] \in {None, i}
      BY <1>2, <2>1 DEF SubjectFor
    <3>4. [status |-> "ACTIVE", email |-> user[i].email, emailVerified |-> TRUE] \in Account
      BY <1>2, <1>3 DEF TypeOK, Account
    <3>5. QED
      BY <1>2, <1>3, <3>1, <3>2, <3>3, <3>4 DEF TypeOK
  <2>2. CASE "activate" \notin did[p]
    <3>1. user' = user
      BY <2>2 DEF CommitConfirm
    <3>2. QED
      BY <1>2, <1>3, <3>1 DEF TypeOK
  <2>3. QED
    BY <2>1, <2>2
<1>10. /\ acts' \in [Link -> Nat] /\ acts'[l] <= acts[l] + 1
       /\ \A k \in Link \ {l} : acts'[k] = acts[k]
  <2>1. acts \in [Link -> Nat] /\ acts[l] \in Nat
    BY <1>2, <1>3 DEF TypeOK
  <2>2. acts' = acts \/ acts' = [acts EXCEPT ![l] = @ + 1]
    BY <1>1 DEF CommitConfirm
  <2>3. QED
    BY <1>2, <2>1, <2>2
<1>11. \A k \in Id : Present(k)' <=> Present(k)
  BY <1>2, <1>9 DEF Present
<1>12. RowsInv'
  <2>1. ReservedIds' = ReservedIds /\ \A k \in Id : user'[k].email = user[k].email
    BY <1>2, <1>9 DEF ReservedIds
  <2>2. /\ (\A k \in Id : Present(k) => k \in made)'
        /\ (\A k \in made \cap ReservedIds : Present(k))'
        /\ (\A k \in ReservedIds : Present(k) =>
              user[k].email # None /\ reserved[user[k].email] = k)'
    <3>1. ReservedIds \subseteq Id /\ made \subseteq Id
      BY <1>3 DEF ReservedIds, TypeOK, Reservations
    <3>2. QED
      BY <1>3, <1>6, <1>11, <2>1, <3>1 DEF RowsInv
  <2>3. (\A k, m \in Id : Present(k) /\ Present(m) /\ user[k].email = user[m].email
                            /\ user[k].email # None => k = m)'
    BY <1>3, <1>11, <2>1 DEF RowsInv
  <2>4. (\A k \in password : Present(k))'
    BY <1>2, <1>3, <1>6, <1>11 DEF RowsInv, TypeOK
  <2>5. (\A s \in Social : social[s] # None => Present(social[s]))'
    BY <1>3, <1>7, <1>11 DEF RowsInv, TypeOK
  <2>6. (\A k \in Link : IF link[k].state \in {"mailed", "used"}
                         THEN link[k].user \in Id /\ Present(link[k].user)
                         ELSE link[k].user = None)'
    BY <1>2, <1>3, <1>5, <1>11 DEF RowsInv
  <2>7. QED
    BY <2>2, <2>3, <2>4, <2>5, <2>6 DEF RowsInv
<1>13. PasswordVouched' /\ EveryAccountReachable'
  BY <1>3, <1>6, <1>7, <1>9, <1>11
     DEF AccountsInv, PasswordVouched, EveryAccountReachable, TypeOK
<1>14. LinkActsOnce'
  <2>1. acts[l] <= 0
    BY <1>2 DEF AccountsInv, LinkActsOnce
  <2>2. acts[l] \in Nat /\ acts'[l] \in Nat
    BY <1>2, <1>3, <1>10 DEF TypeOK
  <2>3. acts'[l] <= 1
    BY <1>10, <2>1, <2>2
  <2>4. QED
    BY <1>2, <1>5, <1>10, <2>3 DEF AccountsInv, LinkActsOnce
<1>15. ReservedSubject'
  BY <1>2, <1>9, <1>11 DEF AccountsInv, ReservedSubject
<1>16. Footprint(held[p], {})
  <2>1. UserFootprint(held[p])
    <3>1. "attach" \in did[p] => <<"password", i>> \in held[p]
      BY <1>1, <1>3 DEF ConfirmInv
    <3>2. \A k \in password' \ password : <<"password", k>> \in held[p]
      BY <1>6, <3>1
    <3>3. \A k \in Id : user'[k] # user[k] => {<<"update", k>>, <<"delete", k>>} \cap held[p] # {}
      BY <1>9
    <3>4. \A k \in Id : /\ user'[k].email = user[k].email
                        /\ user[k].emailVerified => user'[k].emailVerified
      BY <1>2, <1>9
    <3>5. QED
      BY <1>6, <1>11, <3>2, <3>3, <3>4 DEF UserFootprint, Present
  <2>2. LinkFootprint(held[p], {})
    <3>1. \A k \in Link : link[k].state = "mailed" => link[k].user \in Id
      BY <1>3 DEF RowsInv
    <3>2. \A k \in Id : /\ user'[k].status # user[k].status => k \in vouched'
                        /\ k \in vouched => k \in vouched'
      BY <1>6, <1>9
    <3>3. link[l].state # "free" /\ link'[l].user = link[l].user
      BY <1>2, <1>5
    <3>4. \A k \in Link : /\ link'[k].user = link[k].user
                          /\ link[k].state # "free" => link'[k].state # "free"
                          /\ link'[k].state = "mailed" => link[k].state = "mailed"
      BY <1>5, <3>3
    <3>5. \A k \in Link : link'[k] # link[k] =>
                           link[k].state # "free" /\ <<"link", k>> \in held[p]
      BY <1>2, <1>5
    <3>6. \A k \in Link : link[k].state # "free" /\ link'[k].state = "mailed" =>
            LET u == link[k].user
            IN /\ user'[u].status # user[u].status => u \in vouched'
               /\ u \in vouched => u \in vouched'
      BY <3>1, <3>2, <3>4
    <3>7. QED
      BY <3>4, <3>5, <3>6 DEF LinkFootprint
  <2>3. SocialFootprint(held[p])
    BY <1>7 DEF SocialFootprint
  <2>4. QED
    BY <2>1, <2>2, <2>3 DEF Footprint
<1>17. PICK label \in PC, s \in Request :
         /\ pc' = [pc EXCEPT ![p] = label] /\ req' = [req EXCEPT ![p] = s] /\ Rollback(p)
         /\ RequestInv(label, s, {}, {})'
  <2>1. "activate" \in did[p] => req[p].id \in Id
    BY ConfirmFactsLemma
  <2>2. QED
    BY <1>1, <1>2, <1>5, <2>1, ConfirmEndLemma
<1>18. TypeOK'
  <2>1. /\ password' \in SUBSET Id /\ made' \in SUBSET Id /\ vouched' \in SUBSET Id
        /\ social' \in [Social -> Id \cup {None}]
    BY <1>2, <1>3, <1>6, <1>7 DEF TypeOK
  <2>2. QED
    BY <1>3, <1>5, <1>6, <1>8, <1>9, <1>10, <1>17, <2>1, TypeLemma
<1>19. QED
  BY <1>12, <1>13, <1>14, <1>15, <1>16, <1>17, <1>18, CommitLemma

\* A confirmation that gives its user the reserved subject.
LEMMA RenameConfirmLemma ==
  ASSUME AccountsInv, NEW p \in Proc, UNCHANGED reserved, CommitConfirm(p),
         "activate" \in did[p], req[p].id # req[p].found
  PROVE  AccountsInv'
<1>1. PICK r, i, j, l, e : r = req[p] /\ i = r.found /\ j = r.id /\ l = r.link /\ e = r.seen.email
  OBVIOUS
<1>2. /\ r \in Request /\ i \in Id /\ j \in Id /\ l \in Link /\ i # j
      /\ <<"link", l>> \in held[p] /\ link[l].state = "mailed" /\ link[l].user = i
      /\ Present(i) /\ user[i].email = e /\ j = SubjectFor(e, i)
      /\ did[p] = {"use", "activate"}
  <2>1. /\ did[p] \in {{"use"}, {"use", "activate"}, {"use", "attach"}}
        /\ link[l] = [state |-> "mailed", user |-> i]
        /\ r \in Request /\ i \in Id /\ j \in Id /\ l \in Link
        /\ <<"link", l>> \in held[p] /\ Present(i) /\ user[i].email = e /\ j = SubjectFor(e, i)
    BY <1>1, ConfirmFactsLemma
  <2>2. QED
    BY <1>1, <2>1
<1>3. TypeOK /\ RowsInv /\ ReservedIds \subseteq Id
  BY OwnLemma DEF ReservedIds, TypeOK, Reservations
<1>4. /\ ~Present(j)
      /\ Cascade(i) \subseteq held[p] /\ <<"id", j>> \in held[p]
  BY <1>1, <1>2, OwnLemma DEF RequestInv, ConfirmInv
<1>5. e \in Email /\ e # None /\ reserved[e] = j /\ j \in ReservedIds
  BY <1>1, <1>2, <1>3, NoneAssumption DEF SubjectFor, ReservedIds, Request, Account
<1>6. i \notin ReservedIds /\ j \notin made /\ i \in made
  BY <1>2, <1>3, <1>4, <1>5 DEF RowsInv
<1>7. /\ j \notin password
      /\ \A s \in Social : social[s] # j
      /\ \A k \in Link : link[k].user # j
  BY <1>2, <1>3, <1>4, NoneAssumption DEF RowsInv, TypeOK
<1>8. /\ <<"delete", i>> \in held[p] /\ <<"email", e>> \in held[p]
      /\ \A k \in Link : link[k].user = i => <<"link", k>> \in held[p]
      /\ \A s \in Social : social[s] = i => <<"social", s>> \in held[p]
  BY <1>2, <1>4 DEF Cascade
<1>9. /\ user' \in [Id -> Account] /\ ~Present(i)' /\ Present(j)'
      /\ user'[j].email = e /\ user'[j].status = "ACTIVE"
      /\ \A k \in Id \ {i, j} : user'[k] = user[k] /\ (Present(k)' <=> Present(k))
  <2>1. PICK row : row = [status |-> "ACTIVE", email |-> e, emailVerified |-> TRUE]
    OBVIOUS
  <2>2. user' = [k \in Id |-> IF k = j THEN row ELSE IF k = i THEN Absent ELSE user[k]]
    BY <1>1, <1>2, <2>1 DEF CommitConfirm
  <2>3. /\ row \in Account /\ Absent \in Account /\ row.email = e /\ row.status = "ACTIVE"
        /\ Absent.status = "absent"
    BY <1>5, <2>1 DEF Account, Absent
  <2>4. user'[j] = row /\ user'[i] = Absent /\ \A k \in Id \ {i, j} : user'[k] = user[k]
    BY <1>2, <2>2
  <2>5. user' \in [Id -> Account]
    BY <1>3, <2>2, <2>3 DEF TypeOK
  <2>6. QED
    BY <2>3, <2>4, <2>5 DEF Present
<1>10. /\ link' \in [Link -> LinkRow] /\ link'[l].state = "used" /\ link'[l].user = j
       /\ \A k \in Link \ {l} : link'[k].state = link[k].state
       /\ \A k \in Link : link'[k].user = IF link[k].user = i THEN j ELSE link[k].user
       /\ \A k \in Link \ {l} : link[k].user # i => link'[k] = link[k]
  <2>1. link' = [k \in Link |->
                   [state |-> IF k = l THEN "used" ELSE link[k].state,
                    user |-> IF link[k].user = i THEN j ELSE link[k].user]]
    BY <1>1 DEF CommitConfirm, Renamed
  <2>2. QED
    BY <1>2, <1>3, <2>1 DEF TypeOK, LinkRow
<1>11. /\ UNCHANGED lapsed /\ made' = made \cup {j} /\ vouched' = vouched \cup {i, j}
       /\ password' \in SUBSET Id /\ i \notin password' /\ (j \in password' <=> i \in password)
       /\ \A k \in Id \ {i, j} : k \in password' <=> k \in password
  <2>1. "attach" \notin did[p]
    BY <1>2
  <2>2. /\ UNCHANGED lapsed /\ made' = made \cup {j} /\ vouched' = vouched \cup {i, j}
        /\ password' = {IF k = i THEN j ELSE k : k \in password}
    BY <1>1, <2>1 DEF CommitConfirm, Renamed
  <2>3. QED
    BY <1>2, <1>3, <1>7, <2>2 DEF TypeOK
<1>12. /\ social' \in [Social -> Id \cup {None}]
       /\ \A s \in Social : social'[s] = IF social[s] = i THEN j ELSE social[s]
  BY <1>1, <1>2, <1>3 DEF CommitConfirm, Renamed, TypeOK
<1>13. pending' \in [Id -> {"none", "kept", "lapsed"}]
  BY <1>1, <1>2, <1>3 DEF CommitConfirm, TypeOK
<1>14. acts' = [acts EXCEPT ![l] = @ + 1] /\ acts' \in [Link -> Nat]
  <2>1. {"activate", "attach"} \cap did[p] # {}
    OBVIOUS
  <2>2. acts' = [acts EXCEPT ![l] = @ + 1]
    BY <1>1, <2>1 DEF CommitConfirm
  <2>3. QED
    BY <1>2, <1>3, <2>2 DEF TypeOK
<1>15. ReservedIds' = ReservedIds
  BY DEF ReservedIds
<1>16. RowsInv'
  <2>1. /\ (\A k \in Id : Present(k) => k \in made)'
        /\ (\A k \in made \cap ReservedIds : Present(k))'
        /\ (\A k \in ReservedIds : Present(k) =>
              user[k].email # None /\ reserved[user[k].email] = k)'
    <3>1. (\A k \in Id : Present(k) => k \in made)'
      BY <1>3, <1>9, <1>11 DEF RowsInv
    <3>2. (\A k \in made \cap ReservedIds : Present(k))'
      BY <1>3, <1>6, <1>9, <1>11, <1>15 DEF RowsInv
    <3>3. (\A k \in ReservedIds : Present(k) =>
             user[k].email # None /\ reserved[user[k].email] = k)'
      BY <1>3, <1>5, <1>6, <1>9, <1>15 DEF RowsInv
    <3>4. QED
      BY <3>1, <3>2, <3>3
  <2>2. (\A k, m \in Id : Present(k) /\ Present(m) /\ user[k].email = user[m].email
                            /\ user[k].email # None => k = m)'
    <3>1. \A k \in Id \ {i, j} : Present(k)' => user'[k].email # e
      BY <1>2, <1>3, <1>5, <1>9 DEF RowsInv
    <3>2. QED
      BY <1>3, <1>9, <3>1 DEF RowsInv
  <2>3. (\A k \in password : Present(k))'
    BY <1>3, <1>9, <1>11 DEF RowsInv
  <2>4. (\A s \in Social : social[s] # None => Present(social[s]))'
    <3>1. \A s \in Social : social'[s] # None => social'[s] \in Id \ {i}
      BY <1>2, <1>3, <1>12 DEF TypeOK
    <3>2. \A s \in Social : social'[s] # None => social'[s] = j \/ Present(social'[s])
      BY <1>3, <1>12, NoneAssumption DEF RowsInv
    <3>3. QED
      BY <1>9, <3>1, <3>2
  <2>5. (\A k \in Link : IF link[k].state \in {"mailed", "used"}
                         THEN link[k].user \in Id /\ Present(link[k].user)
                         ELSE link[k].user = None)'
    <3> SUFFICES ASSUME NEW k \in Link
                 PROVE  (IF link[k].state \in {"mailed", "used"}
                         THEN link[k].user \in Id /\ Present(link[k].user)
                         ELSE link[k].user = None)'
      OBVIOUS
    <3>1. IF link[k].state \in {"mailed", "used"}
          THEN link[k].user \in Id /\ Present(link[k].user)
          ELSE link[k].user = None
      BY <1>3 DEF RowsInv
    <3>2. link'[k].state \in {"mailed", "used"} <=> link[k].state \in {"mailed", "used"}
      BY <1>2, <1>10
    <3>3. PICK u : u = link[k].user
      OBVIOUS
    <3>4. CASE u = i
      <4>1. link'[k].user = j /\ u # None
        BY <1>2, <1>10, <3>3, <3>4, NoneAssumption
      <4>2. QED
        BY <1>2, <1>9, <3>1, <3>2, <3>3, <4>1
    <3>5. CASE u # i
      <4>1. link'[k].user = u /\ u # j
        BY <1>7, <1>10, <3>3, <3>5
      <4>2. u \in Id => (Present(u)' <=> Present(u))
        BY <1>9, <3>5, <4>1
      <4>3. QED
        BY <3>1, <3>2, <3>3, <4>1, <4>2
    <3>6. QED
      BY <3>4, <3>5
  <2>6. QED
    BY <2>1, <2>2, <2>3, <2>4, <2>5 DEF RowsInv
<1>17. PasswordVouched'
  BY <1>9, <1>11 DEF AccountsInv, PasswordVouched
<1>18. EveryAccountReachable'
  <2> SUFFICES ASSUME NEW k \in Id, Present(k)'
               PROVE  k \in password' \/ \E s \in Social : social'[s] = k
    BY DEF EveryAccountReachable
  <2>1. \A m \in Id : Present(m) => m \in password \/ \E s \in Social : social[s] = m
    BY DEF AccountsInv, EveryAccountReachable
  <2>2. CASE k = j
    BY <1>2, <1>11, <1>12, <2>1, <2>2
  <2>3. CASE k # j
    BY <1>9, <1>11, <1>12, <2>1, <2>3
  <2>4. QED
    BY <2>2, <2>3
<1>19. LinkActsOnce'
  <2>1. acts[l] = 0
    BY <1>2, <1>3 DEF AccountsInv, LinkActsOnce, TypeOK
  <2>2. acts'[l] = 1 /\ \A k \in Link \ {l} : acts'[k] = acts[k]
    BY <1>2, <1>3, <1>14, <2>1 DEF TypeOK
  <2>3. QED
    BY <1>10, <2>2 DEF AccountsInv, LinkActsOnce
<1>20. ReservedSubject'
  BY <1>5, <1>9 DEF AccountsInv, ReservedSubject
<1>21. Footprint(held[p], {})
  <2>1. UserFootprint(held[p])
    <3> SUFFICES ASSUME NEW k \in Id
                 PROVE  /\ Present(k) /\ user'[k] # user[k] =>
                             {<<"update", k>>, <<"delete", k>>} \cap held[p] # {}
                        /\ Present(k) /\ ~Present(k)' => <<"delete", k>> \in held[p]
                        /\ ~Present(k) /\ Present(k)' =>
                             /\ <<"id", k>> \in held[p] /\ k \notin made
                             /\ user'[k].email # None => <<"email", user'[k].email>> \in held[p]
                        /\ Present(k) /\ Present(k)' =>
                             /\ user'[k].email = user[k].email
                             /\ user[k].emailVerified => user'[k].emailVerified
                        /\ k \in password' \ password =>
                             <<"password", k>> \in held[p] \/ ~Present(k)
                        /\ k \in made => k \in made'
                        /\ k \in made' \ made => <<"id", k>> \in held[p]
      BY DEF UserFootprint
    <3>1. CASE k = i
      BY <1>2, <1>6, <1>8, <1>9, <1>11, <3>1
    <3>2. CASE k = j
      BY <1>4, <1>6, <1>8, <1>9, <1>11, <3>2
    <3>3. CASE k \in Id \ {i, j}
      BY <1>9, <1>11, <3>3
    <3>4. QED
      BY <3>1, <3>2, <3>3
  <2>2. LinkFootprint(held[p], {})
    <3>1. \A k \in Link : link'[k] # link[k] => /\ link[k].state # "free"
                                                /\ <<"link", k>> \in held[p]
      BY <1>2, <1>3, <1>8, <1>10, NoneAssumption DEF RowsInv
    <3>2. \A k \in Link : link'[k].user \notin {None, link[k].user} =>
                            link[k].user = i /\ link'[k].user = j
      BY <1>10
    <3>3. \A k \in Link : link[k].state # "free" => link'[k].state # "free"
      BY <1>10
    <3>4. ASSUME NEW k \in Link, link'[k].state = "mailed", link[k].state # "free",
                 link'[k].user = link[k].user
          PROVE  user'[link[k].user].status = user[link[k].user].status
      <4>1. k # l /\ link[k].state = "mailed" /\ link[k].user # i /\ link[k].user # j
        BY <1>2, <1>7, <1>10, <3>4
      <4>2. link[k].user \in Id \ {i, j}
        BY <1>3, <4>1 DEF RowsInv
      <4>3. QED
        BY <1>9, <4>2
    <3>5. \A k \in Link : link'[k].state = "mailed" => link[k].state = "mailed"
      BY <1>10
    <3>6. QED
      BY <1>2, <1>4, <1>5, <1>6, <1>11, <3>1, <3>2, <3>3, <3>4, <3>5 DEF LinkFootprint
  <2>3. SocialFootprint(held[p])
    BY <1>4, <1>8, <1>12 DEF SocialFootprint
  <2>4. QED
    BY <2>1, <2>2, <2>3 DEF Footprint
<1>22. PICK label \in PC, s \in Request :
         /\ pc' = [pc EXCEPT ![p] = label] /\ req' = [req EXCEPT ![p] = s] /\ Rollback(p)
         /\ RequestInv(label, s, {}, {})'
  BY <1>1, <1>2, <1>10, ConfirmEndLemma
<1>23. TypeOK'
  <2>1. made' \in SUBSET Id /\ vouched' \in SUBSET Id
    BY <1>2, <1>3, <1>11 DEF TypeOK
  <2>2. QED
    BY <1>3, <1>9, <1>10, <1>11, <1>12, <1>13, <1>14, <1>22, <2>1, TypeLemma
<1>24. QED
  BY <1>16, <1>17, <1>18, <1>19, <1>20, <1>21, <1>22, <1>23, CommitLemma

\* Where a sign-in is after its commit.
LEMMA OAuthEndLemma ==
  ASSUME AccountsInv, NEW p \in Proc, CommitOAuth(p), NEW n \in Id,
         n = IF "create" \in did[p] THEN req[p].id ELSE req[p].found
  PROVE  \E label \in PC, r \in Request :
           /\ pc' = [pc EXCEPT ![p] = label] /\ req' = [req EXCEPT ![p] = r] /\ Rollback(p)
           /\ RequestInv(label, r, {}, {})'
<1>1. PICK s : s = Fresh(req[p])
  OBVIOUS
<1>2. PICK r : r = [s EXCEPT !.found = n]
  OBVIOUS
<1>3. pc' = [pc EXCEPT ![p] = "handoff"] /\ req' = [req EXCEPT ![p] = r] /\ Rollback(p)
  BY <1>1, <1>2 DEF CommitOAuth, Goto
<1>4. req[p] \in Request /\ req[p].kind = "oauth" /\ req[p].social \in Social
  BY OwnLemma DEF CommitOAuth, RequestInv, PlaceInv, OAuthPlace
<1>5. s \in Request /\ s.kind = "oauth" /\ s.social \in Social
  BY <1>1, <1>4, FreshLemma
<1>6. r \in Request /\ r.kind = "oauth" /\ r.social \in Social
  BY <1>2, <1>5 DEF Request
<1>7. RequestInv("handoff", r, {}, {})'
  BY <1>6, HandoffLemma
<1>8. QED
  BY <1>3, <1>6, <1>7, IdleLemma

\* What a sign-in knows when it commits, of the identity and of the user it has
\* found.
LEMMA OAuthFactsLemma ==
  ASSUME AccountsInv, NEW p \in Proc, CommitOAuth(p)
  PROVE  /\ did[p] \in {{"social"}, {"create", "social"}, {"discard", "create", "social"}}
         /\ req[p] \in Request /\ req[p].social \in Social
         /\ DiscardInv("commit", req[p], did[p], held[p])
         /\ CreateInv(req[p], did[p], held[p]) /\ SocialInv(req[p], did[p], held[p])
BY OwnLemma DEF RequestInv, PlaceInv, OAuthPlace, CommitOAuth, At

\* A sign-in that links its identity to the user it has found.
LEMMA LinkOAuthLemma ==
  ASSUME AccountsInv, NEW p \in Proc, UNCHANGED reserved, CommitOAuth(p), "create" \notin did[p]
  PROVE  AccountsInv'
<1>1. PICK r, i, t : r = req[p] /\ i = r.found /\ t = r.social
  OBVIOUS
<1>2. TypeOK /\ RowsInv /\ did[p] = {"social"} /\ r \in Request /\ t \in Social
      /\ SocialInv(r, did[p], held[p])
  BY <1>1, OAuthFactsLemma, OwnLemma
<1>3. /\ <<"social", t>> \in held[p] /\ <<"share", i>> \in held[p]
      /\ social[t] = None /\ i \in Id /\ Present(i)
  BY <1>1, <1>2 DEF SocialInv, Gone
<1>4. /\ UNCHANGED <<user, password, made, vouched, lapsed, acts>>
      /\ social' = [social EXCEPT ![t] = i]
      /\ pending' \in [Id -> {"none", "kept", "lapsed"}]
  <2>1. "discard" \notin did[p] /\ "create" \notin did[p] /\ i \in made
    BY <1>2, <1>3 DEF RowsInv
  <2>2. /\ user' = [k \in Id |-> user[k]] /\ password' = password \ {}
        /\ pending' = [k \in Id |-> pending[k]] /\ made' = made \cup {i}
        /\ vouched' = vouched \ {} /\ social' = [s \in Social |-> IF s = t THEN i ELSE social[s]]
        /\ UNCHANGED <<lapsed, acts>>
    BY <1>1, <2>1 DEF CommitOAuth
  <2>3. UNCHANGED <<password, made, vouched>>
    BY <2>1, <2>2
  <2>4. user' = user /\ social' = [social EXCEPT ![t] = i]
    BY <1>2, <2>2 DEF TypeOK
  <2>5. pending' \in [Id -> {"none", "kept", "lapsed"}]
    BY <1>2, <2>2 DEF TypeOK
  <2>6. QED
    BY <2>2, <2>3, <2>4, <2>5
<1>5. link' = link
  <2>1. link' = [l \in Link |-> link[l]]
    BY <1>2 DEF CommitOAuth
  <2>2. QED
    BY <1>2, <2>1 DEF TypeOK
<1>6. social'[t] = i /\ \A s \in Social \ {t} : social'[s] = social[s]
  BY <1>2, <1>4 DEF TypeOK
<1>7. RowsInv'
  <2>1. (\A s \in Social : social[s] # None => Present(social[s]))'
    BY <1>2, <1>3, <1>4, <1>6 DEF RowsInv, Present
  <2>2. QED
    BY <1>2, <1>4, <1>5, <2>1 DEF RowsInv, Present, ReservedIds
<1>8. EveryAccountReachable'
  BY <1>2, <1>3, <1>4, <1>6, NoneAssumption DEF AccountsInv, EveryAccountReachable, Present
<1>9. PasswordVouched' /\ LinkActsOnce' /\ ReservedSubject'
  BY <1>4, <1>5 DEF AccountsInv, PasswordVouched, LinkActsOnce, ReservedSubject, Present
<1>10. Footprint(held[p], {})
  <2>1. UserFootprint(held[p]) /\ LinkFootprint(held[p], {})
    BY <1>4, <1>5 DEF UserFootprint, LinkFootprint, Present
  <2>2. SocialFootprint(held[p])
    BY <1>3, <1>6 DEF SocialFootprint
  <2>3. QED
    BY <2>1, <2>2 DEF Footprint
<1>11. PICK label \in PC, s \in Request :
         /\ pc' = [pc EXCEPT ![p] = label] /\ req' = [req EXCEPT ![p] = s] /\ Rollback(p)
         /\ RequestInv(label, s, {}, {})'
  BY <1>1, <1>3, OAuthEndLemma
<1>12. TypeOK'
  <2>1. social' \in [Social -> Id \cup {None}]
    BY <1>2, <1>3, <1>4 DEF TypeOK
  <2>2. QED
    BY <1>2, <1>4, <1>5, <1>11, <2>1, TypeLemma DEF TypeOK
<1>13. QED
  BY <1>7, <1>8, <1>9, <1>10, <1>11, <1>12, CommitLemma

\* A sign-in that creates its user, and may have discarded another.
LEMMA CreateOAuthLemma ==
  ASSUME AccountsInv, NEW p \in Proc, UNCHANGED reserved, CommitOAuth(p), "create" \in did[p]
  PROVE  AccountsInv'
<1>1. PICK r, n, e, t, gone : /\ r = req[p] /\ n = r.id /\ e = r.userEmail /\ t = r.social
                              /\ gone = Gone(r, did[p])
  OBVIOUS
<1>2. /\ TypeOK /\ RowsInv /\ r \in Request /\ t \in Social
      /\ DiscardInv("commit", r, did[p], held[p]) /\ CreateInv(r, did[p], held[p])
      /\ SocialInv(r, did[p], held[p]) /\ "social" \in did[p]
      /\ ReservedIds \subseteq Id
  <2>1. ReservedIds \subseteq Id
    BY OwnLemma DEF ReservedIds, TypeOK, Reservations
  <2>2. QED
    BY <1>1, <2>1, OAuthFactsLemma, OwnLemma
<1>3. /\ n \in Id /\ <<"id", n>> \in held[p] /\ e \in Email \cup {None}
      /\ IF e # None /\ reserved[e] # None
         THEN n = reserved[e] ELSE n \notin made \cup ReservedIds
      /\ Present(n) => n \in gone
      /\ e # None => <<"email", e>> \in held[p] /\ OwnersOf(e) \subseteq gone
  BY <1>1, <1>2 DEF CreateInv, Request
<1>4. <<"social", t>> \in held[p] /\ social[t] \in {None} \cup gone
  BY <1>1, <1>2 DEF SocialInv
<1>5. /\ gone \subseteq Id
      /\ \A k \in gone : /\ Present(k) /\ Cascade(k) \subseteq held[p]
                         /\ user[k].email = e /\ e # None /\ r.verified
  BY <1>1, <1>2, NoneAssumption DEF Gone, DiscardInv
<1>6. \A k \in gone : /\ <<"delete", k>> \in held[p]
                      /\ \A l \in Link : link[l].user = k => <<"link", l>> \in held[p]
                      /\ \A s \in Social : social[s] = k => <<"social", s>> \in held[p]
  BY <1>5 DEF Cascade
<1>7. n \notin gone => ~Present(n) /\ n \notin made
  BY <1>2, <1>3 DEF RowsInv, ReservedIds
<1>8. \A k \in gone \cap ReservedIds : k = n
  BY <1>2, <1>3, <1>5 DEF RowsInv, ReservedIds
<1>9. /\ user' \in [Id -> Account] /\ Present(n)'
      /\ user'[n].status = "ACTIVE" /\ user'[n].email = e /\ user'[n].emailVerified = r.verified
      /\ \A k \in gone \ {n} : ~Present(k)' /\ user'[k] = Absent
      /\ \A k \in Id \ ({n} \cup gone) : user'[k] = user[k] /\ (Present(k)' <=> Present(k))
  <2>1. PICK row : row = [status |-> "ACTIVE", email |-> e, emailVerified |-> r.verified]
    OBVIOUS
  <2>2. user' = [k \in Id |-> IF k = n THEN row ELSE IF k \in gone THEN Absent ELSE user[k]]
    BY <1>1, <2>1 DEF CommitOAuth, Gone
  <2>3. /\ row \in Account /\ Absent \in Account /\ row.status = "ACTIVE" /\ row.email = e
        /\ row.emailVerified = r.verified /\ Absent.status = "absent"
    BY <1>2, <1>3, <2>1 DEF Account, Absent, Request
  <2>4. /\ user'[n] = row /\ \A k \in gone \ {n} : user'[k] = Absent
        /\ \A k \in Id \ ({n} \cup gone) : user'[k] = user[k]
    BY <1>3, <1>5, <2>2
  <2>5. user' \in [Id -> Account]
    BY <1>2, <2>2, <2>3 DEF TypeOK
  <2>6. QED
    BY <2>3, <2>4, <2>5 DEF Present
<1>10. /\ password' = password \ gone /\ made' = made \cup {n} /\ vouched' = vouched \ gone
       /\ pending' \in [Id -> {"none", "kept", "lapsed"}] /\ UNCHANGED <<lapsed, acts>>
  <2>1. pending' = [k \in Id |-> IF k \in gone THEN "none" ELSE pending[k]]
    BY <1>1 DEF CommitOAuth, Gone
  <2>2. QED
    BY <1>1, <1>2, <2>1 DEF CommitOAuth, Gone, TypeOK
<1>11. /\ social' \in [Social -> Id \cup {None}] /\ social'[t] = n
       /\ \A s \in Social \ {t} : social'[s] = IF social[s] \in gone THEN None ELSE social[s]
  <2>1. social' = [s \in Social |-> IF s = t THEN n
                                    ELSE IF social[s] \in gone THEN None ELSE social[s]]
    BY <1>1 DEF CommitOAuth, Gone
  <2>2. QED
    BY <1>2, <1>3, <2>1 DEF TypeOK
<1>12. /\ link' \in [Link -> LinkRow]
       /\ \A l \in Link : IF link[l].user \in gone
                          THEN link'[l].state = "gone" /\ link'[l].user = None
                          ELSE link'[l] = link[l]
  <2>1. link' = [l \in Link |-> IF link[l].user \in gone
                                THEN [state |-> "gone", user |-> None] ELSE link[l]]
    BY <1>1 DEF CommitOAuth, Gone
  <2>2. QED
    BY <1>2, <2>1 DEF TypeOK, LinkRow
<1>13. \A k \in Id \ gone : Present(k) => Present(k)' /\ k # n
  BY <1>3, <1>9
<1>14. RowsInv'
  <2>1. ReservedIds' = ReservedIds
    BY DEF ReservedIds
  <2>2. (\A k \in Id : Present(k) => k \in made)'
    BY <1>2, <1>9, <1>10 DEF RowsInv
  <2>3. (\A k \in made \cap ReservedIds : Present(k))'
    BY <1>2, <1>8, <1>9, <1>10, <1>13, <2>1 DEF RowsInv
  <2>4. (\A k \in ReservedIds : Present(k) =>
           user[k].email # None /\ reserved[user[k].email] = k)'
    BY <1>2, <1>3, <1>8, <1>9, <2>1 DEF RowsInv
  <2>5. (\A k, m \in Id : Present(k) /\ Present(m) /\ user[k].email = user[m].email
                            /\ user[k].email # None => k = m)'
    <3>1. \A k \in Id \ {n} : Present(k)' => k \notin gone /\ Present(k) /\ user'[k] = user[k]
      BY <1>9
    <3>2. e # None => \A k \in Id \ {n} : Present(k)' => user'[k].email # e
      BY <1>3, <3>1 DEF OwnersOf
    <3>3. QED
      BY <1>2, <1>9, <3>1, <3>2 DEF RowsInv
  <2>6. (\A k \in password : Present(k))'
    BY <1>2, <1>10, <1>13 DEF RowsInv, TypeOK
  <2>7. (\A s \in Social : social[s] # None => Present(social[s]))'
    <3>1. \A s \in Social : social[s] # None => social[s] \in Id /\ Present(social[s])
      BY <1>2 DEF RowsInv, TypeOK
    <3>2. \A s \in Social : social'[s] # None =>
            social'[s] = n \/ (social'[s] \in Id \ gone /\ Present(social'[s]))
      BY <1>11, <3>1
    <3>3. QED
      BY <1>9, <1>13, <3>2
  <2>8. (\A l \in Link : IF link[l].state \in {"mailed", "used"}
                         THEN link[l].user \in Id /\ Present(link[l].user)
                         ELSE link[l].user = None)'
    <3> SUFFICES ASSUME NEW l \in Link
                 PROVE  (IF link[l].state \in {"mailed", "used"}
                         THEN link[l].user \in Id /\ Present(link[l].user)
                         ELSE link[l].user = None)'
      OBVIOUS
    <3>1. PICK u : u = link[l].user
      OBVIOUS
    <3>2. IF link[l].state \in {"mailed", "used"} THEN u \in Id /\ Present(u) ELSE u = None
      BY <1>2, <3>1 DEF RowsInv
    <3>3. CASE u \in gone
      BY <1>12, <3>1, <3>3
    <3>4. CASE u \notin gone
      <4>1. link'[l] = link[l] /\ link'[l].user = u
        BY <1>12, <3>1, <3>4
      <4>2. u \in Id /\ Present(u) => Present(u)'
        BY <1>13, <3>4
      <4>3. QED
        BY <3>2, <4>1, <4>2
    <3>5. QED
      BY <3>3, <3>4
  <2>9. QED
    BY <2>2, <2>3, <2>4, <2>5, <2>6, <2>7, <2>8 DEF RowsInv
<1>15. PasswordVouched'
  <2>1. \A k \in password' : k \in Id \ ({n} \cup gone)
    BY <1>2, <1>10, <1>13 DEF RowsInv, TypeOK
  <2>2. QED
    BY <1>9, <1>10, <2>1 DEF AccountsInv, PasswordVouched
<1>16. EveryAccountReachable'
  <2> SUFFICES ASSUME NEW k \in Id, Present(k)'
               PROVE  k \in password' \/ \E s \in Social : social'[s] = k
    BY DEF EveryAccountReachable
  <2>1. CASE k = n
    BY <1>2, <1>11, <2>1
  <2>2. CASE k # n
    <3>1. k \notin gone /\ Present(k)
      BY <1>9, <2>2
    <3>2. k \in password \/ \E s \in Social : social[s] = k
      BY <3>1 DEF AccountsInv, EveryAccountReachable
    <3>3. QED
      BY <1>4, <1>10, <1>11, <3>1, <3>2, NoneAssumption
  <2>3. QED
    BY <2>1, <2>2
<1>17. LinkActsOnce'
  <2>1. \A l \in Link : acts[l] \in Nat /\ acts[l] <= 1
    BY <1>2 DEF AccountsInv, LinkActsOnce, TypeOK
  <2>2. QED
    BY <1>10, <1>12, <2>1 DEF AccountsInv, LinkActsOnce
<1>18. ReservedSubject'
  BY <1>3, <1>9 DEF AccountsInv, ReservedSubject
<1>19. Footprint(held[p], {})
  <2>1. UserFootprint(held[p])
    <3> SUFFICES ASSUME NEW k \in Id
                 PROVE  /\ Present(k) /\ user'[k] # user[k] =>
                             {<<"update", k>>, <<"delete", k>>} \cap held[p] # {}
                        /\ Present(k) /\ ~Present(k)' => <<"delete", k>> \in held[p]
                        /\ ~Present(k) /\ Present(k)' =>
                             /\ <<"id", k>> \in held[p] /\ k \notin made
                             /\ user'[k].email # None => <<"email", user'[k].email>> \in held[p]
                        /\ Present(k) /\ Present(k)' =>
                             /\ user'[k].email = user[k].email
                             /\ user[k].emailVerified => user'[k].emailVerified
                        /\ k \in password' \ password =>
                             <<"password", k>> \in held[p] \/ ~Present(k)
                        /\ k \in made => k \in made'
                        /\ k \in made' \ made => <<"id", k>> \in held[p]
      BY DEF UserFootprint
    <3>1. CASE k \in gone
      BY <1>3, <1>5, <1>6, <1>9, <1>10, <3>1
    <3>2. CASE k \notin gone /\ k = n
      BY <1>3, <1>7, <1>9, <1>10, <3>2
    <3>3. CASE k \notin {n} \cup gone
      BY <1>9, <1>10, <3>3
    <3>4. QED
      BY <3>1, <3>2, <3>3
  <2>2. LinkFootprint(held[p], {})
    <3>1. \A l \in Link : link[l].state = "free" => link'[l] = link[l]
      BY <1>2, <1>5, <1>12, NoneAssumption DEF RowsInv
    <3>2. \A l \in Link : link'[l] # link[l] => <<"link", l>> \in held[p] /\ link[l].state # "free"
      BY <1>6, <1>12, <3>1
    <3>3. ASSUME NEW l \in Link, link'[l].state = "mailed"
          PROVE  LET u == link[l].user
                 IN /\ link[l].state = "mailed"
                    /\ user'[u].status = user[u].status
                    /\ u \in vouched => u \in vouched'
      <4>1. link'[l] = link[l] /\ link[l].user \notin gone
        BY <1>12, <3>3
      <4>2. link[l].user \in Id /\ Present(link[l].user)
        BY <1>2, <3>3, <4>1 DEF RowsInv
      <4>3. link[l].user \in Id \ ({n} \cup gone)
        BY <1>3, <4>1, <4>2
      <4>4. QED
        BY <1>9, <1>10, <3>3, <4>1, <4>3
    <3>4. \A l \in Link : /\ link'[l].user \in {None, link[l].user}
                          /\ link[l].state # "free" => link'[l].state # "free"
      BY <1>12
    <3>5. QED
      BY <3>2, <3>3, <3>4 DEF LinkFootprint
  <2>3. SocialFootprint(held[p])
    BY <1>3, <1>4, <1>6, <1>11 DEF SocialFootprint
  <2>4. QED
    BY <2>1, <2>2, <2>3 DEF Footprint
<1>20. PICK label \in PC, s \in Request :
         /\ pc' = [pc EXCEPT ![p] = label] /\ req' = [req EXCEPT ![p] = s] /\ Rollback(p)
         /\ RequestInv(label, s, {}, {})'
  BY <1>1, <1>3, OAuthEndLemma
<1>21. TypeOK'
  <2>1. password' \in SUBSET Id /\ made' \in SUBSET Id /\ vouched' \in SUBSET Id
        /\ acts' \in [Link -> Nat]
    BY <1>2, <1>3, <1>10 DEF TypeOK
  <2>2. QED
    BY <1>2, <1>9, <1>10, <1>11, <1>12, <1>20, <2>1, TypeLemma
<1>22. QED
  BY <1>14, <1>15, <1>16, <1>17, <1>18, <1>19, <1>20, <1>21, CommitLemma

\* set_user_status waits for the locks of those who test the status.
LEMMA AdministerLemma ==
  ASSUME AccountsInv, NEW i \in Id, UNCHANGED reserved, Administer(i)
  PROVE  AccountsInv'
<1>1. TypeOK /\ LockInv /\ RowsInv
  BY DEF AccountsInv
<1>2. PICK s \in {"PENDING", "ACTIVE", "SUSPENDED"} : user' = [user EXCEPT ![i].status = s]
  BY DEF Administer
<1>3. /\ Present(i) /\ vouched' = vouched \cup {i}
      /\ \A q \in Proc : held[q] \cap {<<"update", i>>, <<"delete", i>>} = {}
      /\ UNCHANGED <<password, pending, social, link, lapsed, pc, req, did, held, made, acts>>
  BY DEF Administer
<1>4. /\ user' \in [Id -> Account]
      /\ \A k \in Id : user'[k].email = user[k].email
                       /\ user'[k].emailVerified = user[k].emailVerified
      /\ \A k \in Id \ {i} : user'[k] = user[k]
      /\ user'[i].status = s
  <2>1. user[i] \in Account /\ [user[i] EXCEPT !.status = s] \in Account
    BY <1>1 DEF TypeOK, Account
  <2>2. user' = [user EXCEPT ![i] = [user[i] EXCEPT !.status = s]]
    BY <1>2
  <2>3. QED
    BY <1>1, <2>1, <2>2 DEF TypeOK, Account
<1>5. \A k \in Id : Present(k)' <=> Present(k)
  BY <1>3, <1>4 DEF Present
<1>6. TypeOK'
  BY <1>1, <1>3, <1>4 DEF TypeOK, Reservations
<1>7. LockInv'
  BY <1>1, <1>3 DEF LockInv
<1>8. RowsInv'
  <2>1. ReservedIds' = ReservedIds /\ ReservedIds \subseteq Id
    BY <1>1 DEF ReservedIds, TypeOK, Reservations
  <2>2. /\ (\A k \in Id : Present(k) => k \in made)'
        /\ (\A k \in made \cap ReservedIds : Present(k))'
        /\ (\A k \in ReservedIds : Present(k) =>
              user[k].email # None /\ reserved[user[k].email] = k)'
        /\ (\A k, m \in Id : Present(k) /\ Present(m) /\ user[k].email = user[m].email
                              /\ user[k].email # None => k = m)'
    BY <1>1, <1>3, <1>4, <1>5, <2>1 DEF RowsInv
  <2>3. /\ (\A k \in password : Present(k))'
        /\ (\A t \in Social : social[t] # None => Present(social[t]))'
        /\ (\A l \in Link : IF link[l].state \in {"mailed", "used"}
                            THEN link[l].user \in Id /\ Present(link[l].user)
                            ELSE link[l].user = None)'
    BY <1>1, <1>3, <1>5 DEF RowsInv, TypeOK
  <2>4. QED
    BY <2>2, <2>3 DEF RowsInv
<1>9. PasswordVouched' /\ EveryAccountReachable' /\ LinkActsOnce' /\ ReservedSubject'
  <2>1. PasswordVouched'
    BY <1>1, <1>3, <1>4 DEF AccountsInv, PasswordVouched, TypeOK
  <2>2. EveryAccountReachable' /\ LinkActsOnce'
    BY <1>3, <1>5 DEF AccountsInv, EveryAccountReachable, LinkActsOnce
  <2>3. ReservedSubject'
    BY <1>4, <1>5 DEF AccountsInv, ReservedSubject
  <2>4. QED
    BY <2>1, <2>2, <2>3
<1>10. Footprint({<<"update", i>>}, {})
  <2>1. UserFootprint({<<"update", i>>})
    BY <1>3, <1>4, <1>5 DEF UserFootprint
  <2>2. LinkFootprint({<<"update", i>>}, {}) /\ SocialFootprint({<<"update", i>>})
    <3>1. \A k \in Link : link[k].state = "mailed" => link[k].user \in Id
      BY <1>1 DEF RowsInv
    <3>2. \A k \in Id : /\ user'[k].status # user[k].status => k \in vouched'
                        /\ k \in vouched => k \in vouched'
      BY <1>3, <1>4
    <3>3. QED
      BY <1>3, <3>1, <3>2 DEF LinkFootprint, SocialFootprint
  <2>3. QED
    BY <2>1, <2>2 DEF Footprint
<1>11. ASSUME NEW q \in Proc PROVE RequestInv(pc[q], req[q], did[q], held[q])'
  <2>1. \A a \in {<<"update", i>>}, b \in held[q] : ~Clash(a, b)
    <3> SUFFICES ASSUME NEW b \in held[q] PROVE ~Clash(<<"update", i>>, b)
      OBVIOUS
    <3>1. PICK m, x : b = <<m, x>>
      BY <1>1 DEF TypeOK
    <3>2. QED
      BY <1>3, <3>1 DEF Clash
  <2>2. PICK l, r, D, H : l = pc[q] /\ r = req[q] /\ D = did[q] /\ H = held[q]
    OBVIOUS
  <2>3. RequestInv(l, r, D, H) /\ r \in Request
    BY <2>2, OwnLemma
  <2>4. RequestInv(l, r, D, H)'
    BY <1>1, <1>8, <1>10, <2>1, <2>2, <2>3, OthersLemma
  <2>5. QED
    BY <1>3, <2>2, <2>4
<1>12. QED
  BY <1>6, <1>7, <1>8, <1>9, <1>11 DEF AccountsInv
-----------------------------------------------------------------------------
(* The theorems.                                                           *)

LEMMA InitLemma ==
  ASSUME Init
  PROVE  AccountsInv
<1>1. /\ NoRequest \in Request /\ Absent \in Account /\ Absent.status = "absent"
      /\ NoRequest.kind = "none" /\ NoRequest.social = None
  BY DEF NoRequest, Request, Account, Absent
<1>2. TypeOK
  BY <1>1 DEF Init, TypeOK, LinkRow, PC
<1>3. \A i \in Id : ~Present(i)
  BY <1>1 DEF Init, Present
<1>4. RowsInv
  <2>1. ReservedIds \subseteq Id
    BY <1>2 DEF ReservedIds, TypeOK, Reservations
  <2>2. QED
    BY <1>3, <2>1 DEF Init, RowsInv
<1>5. PasswordVouched /\ EveryAccountReachable /\ LinkActsOnce /\ ReservedSubject
  BY <1>3 DEF Init, PasswordVouched, EveryAccountReachable, LinkActsOnce, ReservedSubject
<1>6. LockInv
  BY DEF Init, LockInv
<1>7. RequestInv("idle", NoRequest, {}, {})
  BY <1>1 DEF RequestInv, PlaceInv, SeenInv, LinkInv, RegisterInv, ConfirmInv, DiscardInv,
              CreateInv, SocialInv
<1>8. QED
  BY <1>2, <1>4, <1>5, <1>6, <1>7 DEF Init, AccountsInv

LEMMA NextLemma ==
  ASSUME AccountsInv, Next
  PROVE  AccountsInv'
<1>1. UNCHANGED reserved
  BY DEF Next
<1>2. ASSUME NEW p \in Proc,
             StartRegister(p) \/ StartMail(p) \/ StartConfirm(p) \/ StartOAuth(p)
      PROVE  AccountsInv'
  BY <1>1, <1>2, RegisterLemma, MailLemma, FindConfirmLemma, FindUserLemma
<1>3. ASSUME NEW p \in Proc, CommitRegister(p) \/ CommitMail(p) \/ CommitConfirm(p) \/ CommitOAuth(p)
      PROVE  AccountsInv'
  BY <1>1, <1>3, CommitRegisterLemma, CommitMailLemma, KeepConfirmLemma, RenameConfirmLemma,
     LinkOAuthLemma, CreateOAuthLemma
<1>4. ASSUME NEW p \in Proc, Handoff(p) \/ Fail(p) \/ Retry(p)
      PROVE  AccountsInv'
  BY <1>1, <1>4, AbortLemma, RetryLemma DEF Handoff, Fail
<1>5. ASSUME NEW p \in Proc, Step(p)
      PROVE  AccountsInv'
  <2>1. CASE FindByEmail(p) \/ FindCredential(p) \/ InsertUser(p) \/ Upsert(p)
    BY <1>1, <2>1, RegisterLemma
  <2>2. CASE LookupEligible(p) \/ InsertLink(p)
    BY <1>1, <2>2, MailLemma
  <2>3. CASE FindLink(p) \/ ReadUser(p) \/ ReadPending(p) \/ ConsumeLink(p)
    BY <1>1, <2>3, FindConfirmLemma
  <2>4. CASE ReadSubject(p) \/ Activate(p) \/ Attach(p)
    BY <1>1, <2>4, UseLinkLemma
  <2>5. CASE FindByProvider(p) \/ FindByVerifiedEmail(p) \/ ResolveLost(p)
    BY <1>1, <2>5, FindUserLemma
  <2>6. CASE Discard(p) \/ LinkSocial(p)
    BY <1>1, <2>6, SocialLemma
  <2>7. CASE FindOwner(p) \/ CreateUser(p) \/ InsertSocial(p)
    BY <1>1, <2>7, NewUserLemma
  <2>8. QED
    BY <1>3, <1>4, <1>5, <2>1, <2>2, <2>3, <2>4, <2>5, <2>6, <2>7 DEF Step
<1>6. ASSUME NEW l \in Link, LapseLink(l)
      PROVE  AccountsInv'
  <2>1. /\ lapsed' = lapsed \cup {l}
        /\ UNCHANGED <<user, password, pending, social, link, history, pc, req, did, held>>
    BY <1>6 DEF LapseLink, tables
  <2>2. TypeOK'
    BY <1>1, <2>1, OwnLemma DEF AccountsInv, TypeOK, Reservations, history
  <2>3. QED
    BY <1>1, <2>1, <2>2, LapseLemma
<1>7. ASSUME NEW i \in Id, LapsePending(i)
      PROVE  AccountsInv'
  <2>1. /\ pending' = [pending EXCEPT ![i] = "lapsed"]
        /\ UNCHANGED <<user, password, social, link, lapsed, history, pc, req, did, held>>
    BY <1>7 DEF LapsePending
  <2>2. TypeOK'
    BY <1>1, <2>1 DEF AccountsInv, TypeOK, Reservations, history
  <2>3. QED
    BY <1>1, <2>1, <2>2, LapseLemma
<1>8. ASSUME NEW i \in Id, Administer(i)
      PROVE  AccountsInv'
  BY <1>1, <1>8, AdministerLemma
<1>9. QED
  BY <1>2, <1>3, <1>4, <1>5, <1>6, <1>7, <1>8 DEF Next

LEMMA StutterLemma ==
  ASSUME AccountsInv, UNCHANGED vars
  PROVE  AccountsInv'
<1>1. /\ UNCHANGED <<reserved, user, password, social, link, history, pc, req, did, held>>
      /\ UNCHANGED <<pending, lapsed>>
  BY DEF vars, tables
<1>2. TypeOK'
  BY <1>1 DEF AccountsInv, TypeOK, Reservations, history
<1>3. QED
  BY <1>1, <1>2, LapseLemma

\* Registrations, confirmations, sign-ins and administrators, in any order:
\* what the requests have read and locked stays true.
THEOREM AccountsInvariant == Spec => []AccountsInv
<1>1. Init => AccountsInv
  BY InitLemma
<1>2. AccountsInv /\ [Next]_vars => AccountsInv'
  BY NextLemma, StutterLemma
<1>3. QED
  BY <1>1, <1>2, PTL DEF Spec

\* create_user_with_password, confirm_email_verification, resolve_or_create: a
\* password opens no ACTIVE account whose address nobody has answered for.
THEOREM VouchedTheorem == Spec => []PasswordVouched
<1>1. AccountsInv => PasswordVouched
  BY DEF AccountsInv
<1>2. QED
  BY <1>1, AccountsInvariant, PTL

\* Whatever links, discards and renames, an account keeps a way to sign in.
THEOREM ReachableTheorem == Spec => []EveryAccountReachable
<1>1. AccountsInv => EveryAccountReachable
  BY DEF AccountsInv
<1>2. QED
  BY <1>1, AccountsInvariant, PTL

\* ConsumeLink: two clicks on a link, or more, act at most once.
THEOREM ActsOnceTheorem == Spec => []LinkActsOnce
<1>1. AccountsInv => LinkActsOnce
  BY DEF AccountsInv
<1>2. QED
  BY <1>1, AccountsInvariant, PTL

\* ReadSubject, CreateUser: a proved address has the subject reserved for it.
THEOREM ReservedSubjectTheorem == Spec => []ReservedSubject
<1>1. AccountsInv => ReservedSubject
  BY DEF AccountsInv
<1>2. QED
  BY <1>1, AccountsInvariant, PTL
-----------------------------------------------------------------------------
(* Action properties.                                                      *)

Commit(p) == CommitRegister(p) \/ CommitMail(p) \/ CommitConfirm(p) \/ CommitOAuth(p)

\* Where a step takes p when it commits nothing.
Move(p) ==
  /\ UNCHANGED tables /\ UNCHANGED history
  /\ \E label : pc' = [pc EXCEPT ![p] = label] /\ (label = "handoff" => SignInKnown(p))

LEMMA MoveLemma ==
  ASSUME NEW p \in Proc
  PROVE  /\ \A r, label : Read(p, r, label) /\ label # "handoff" => Move(p)
         /\ \A r, label : Arrive(p, r, label) /\ label # "handoff" => Move(p)
         /\ \A L, r, w, label : Execute(p, L, r, w, label) /\ label # "handoff" => Move(p)
         /\ Abort(p) => Move(p)
         /\ Conflict(p) => Move(p)
         /\ SignInKnown(p) => Move(p)
<1>1. \A r, label : Read(p, r, label) /\ label # "handoff" => Move(p)
  BY DEF Read, Goto, Move
<1>2. \A r, label : Arrive(p, r, label) /\ label # "handoff" => Move(p)
  BY DEF Arrive, Goto, Move
<1>3. \A L, r, w, label : Execute(p, L, r, w, label) /\ label # "handoff" => Move(p)
  BY DEF Execute, Goto, Move
<1>4. Abort(p) => Move(p)
  BY DEF Abort, End, Goto, Move
<1>5. Conflict(p) => Move(p)
  BY <1>4 DEF Conflict, Goto, Move
<1>6. SignInKnown(p) => Move(p)
  BY <1>4 DEF SignInKnown, Read, Goto, Move
<1>7. QED
  BY <1>1, <1>2, <1>3, <1>4, <1>5, <1>6

LEMMA StepLemma ==
  ASSUME Next
  PROVE  \/ \E p \in Proc : Commit(p) \/ Move(p)
         \/ UNCHANGED <<user, social, link, pc, req, did, held, acts>>
         \/ /\ UNCHANGED <<social, link, pc, req, did, held, acts>>
            /\ \E i \in Id : Administer(i)
<1>1. ASSUME NEW p \in Proc,
             StartRegister(p) \/ StartMail(p) \/ StartConfirm(p) \/ StartOAuth(p)
      PROVE  Move(p)
  BY <1>1, MoveLemma DEF StartRegister, StartMail, StartConfirm, StartOAuth
<1>2. ASSUME NEW p \in Proc, Fail(p) \/ Handoff(p)
      PROVE  Move(p)
  BY <1>2, MoveLemma DEF Fail, Handoff
<1>3. ASSUME NEW p \in Proc, Retry(p)
      PROVE  Move(p)
  <2>1. FirstStatement(req[p]) # "handoff"
    BY DEF FirstStatement
  <2>2. QED
    BY <1>3, <2>1 DEF Retry, Goto, Move
<1>4. ASSUME NEW p \in Proc, Step(p)
      PROVE  Commit(p) \/ Move(p)
  <2>1. CASE FindByEmail(p) \/ FindCredential(p) \/ InsertUser(p) \/ Upsert(p)
    BY <2>1, MoveLemma DEF FindByEmail, FindCredential, InsertUser, Upsert
  <2>2. CASE LookupEligible(p) \/ InsertLink(p)
    BY <2>2, MoveLemma DEF LookupEligible, InsertLink
  <2>3. CASE FindLink(p) \/ ReadUser(p) \/ ReadPending(p)
    BY <2>3, MoveLemma DEF FindLink, ReadUser, ReadPending
  <2>4. CASE ConsumeLink(p)
    <3>1. (IF CanActivate(req[p]) THEN "subject" ELSE "attach") # "handoff"
      OBVIOUS
    <3>2. QED
      BY <2>4, <3>1, MoveLemma DEF ConsumeLink
  <2>5. CASE ReadSubject(p)
    BY <2>5, MoveLemma DEF ReadSubject
  <2>6. CASE Activate(p) \/ Attach(p)
    BY <2>6, MoveLemma DEF Activate, Attach
  <2>7. CASE FindByProvider(p)
    <3>1. (IF req[p].email = None THEN "createUser"
           ELSE IF req[p].verified THEN "byEmail" ELSE "owner") # "handoff"
      OBVIOUS
    <3>2. QED
      BY <2>7, <3>1, MoveLemma DEF FindByProvider
  <2>8. CASE FindByVerifiedEmail(p)
    <3>1. \A i : (IF user[i].status = "PENDING" /\ ~user[i].emailVerified THEN "discard"
                  ELSE IF user[i].status = "ACTIVE" /\ user[i].emailVerified THEN "linkSocial"
                  ELSE "owner") # "handoff"
      OBVIOUS
    <3>2. QED
      BY <2>8, <3>1, MoveLemma DEF FindByVerifiedEmail
  <2>9. CASE ResolveLost(p) \/ Discard(p) \/ LinkSocial(p)
    BY <2>9, MoveLemma DEF ResolveLost, Discard, LinkSocial
  <2>10. CASE FindOwner(p) \/ CreateUser(p) \/ InsertSocial(p)
    BY <2>10, MoveLemma DEF FindOwner, CreateUser, InsertSocial
  <2>11. QED
    BY <1>2, <1>4, <2>1, <2>2, <2>3, <2>4, <2>5, <2>6, <2>7, <2>8, <2>9, <2>10 DEF Step, Commit
<1>5. ASSUME NEW l \in Link, LapseLink(l)
      PROVE  UNCHANGED <<user, social, link, pc, req, did, held, acts>>
  BY <1>5 DEF LapseLink, tables, history
<1>6. ASSUME NEW i \in Id, LapsePending(i)
      PROVE  UNCHANGED <<user, social, link, pc, req, did, held, acts>>
  BY <1>6 DEF LapsePending, history
<1>7. ASSUME NEW i \in Id, Administer(i)
      PROVE  UNCHANGED <<social, link, pc, req, did, held, acts>>
  BY <1>7 DEF Administer
<1>8. QED
  BY <1>1, <1>2, <1>3, <1>4, <1>5, <1>6, <1>7 DEF Next

\* CommitConfirm: a link is used in vain only when somebody had answered for its
\* user before, or when the reserved subject is another's.
THEOREM LinkWastedTheorem == Spec => NoLinkWasted
<1> DEFINE Wasted(l) ==
      /\ link[l].state = "mailed" /\ link'[l].state = "used"
      /\ acts'[l] = acts[l]
      => LET i == link[l].user
         IN \/ i \in vouched
            \/ user[i].email # None /\ reserved[user[i].email] \in made \ {i}
<1>1. ASSUME AccountsInv, Next, NEW l \in Link, link[l].state = "mailed", link'[l].state = "used",
             acts'[l] = acts[l]
      PROVE  Wasted(l)
  <2>1. PICK p \in Proc : Commit(p)
    BY <1>1, StepLemma DEF Move, tables
  <2>2. CASE CommitConfirm(p)
    <3>1. PICK r, i, j : /\ r = req[p] /\ i = r.found
                         /\ j = IF "activate" \in did[p] THEN r.id ELSE i
      OBVIOUS
    <3>2. /\ did[p] \in {{"use"}, {"use", "activate"}, {"use", "attach"}}
          /\ r.link \in Link /\ link[r.link] = [state |-> "mailed", user |-> i]
          /\ user[i].email = r.seen.email
      BY <1>1, <2>2, <3>1, ConfirmFactsLemma
    <3>3. link' = [k \in Link |-> [state |-> IF k = r.link THEN "used" ELSE link[k].state,
                                   user |-> Renamed(i, j, link[k].user)]]
      BY <2>2, <3>1 DEF CommitConfirm
    <3>4. l = r.link
      BY <1>1, <3>3
    <3>5. did[p] = {"use"}
      <4>1. acts[l] \in Nat /\ acts \in [Link -> Nat]
        BY <1>1, OwnLemma DEF TypeOK
      <4>2. {"activate", "attach"} \cap did[p] # {} => acts' = [acts EXCEPT ![l] = @ + 1]
        BY <2>2, <3>1, <3>4 DEF CommitConfirm
      <4>3. {"activate", "attach"} \cap did[p] = {}
        BY <1>1, <4>1, <4>2
      <4>4. QED
        BY <3>2, <4>3
    <3>6. \/ i \in vouched
          \/ r.seen.email # None /\ reserved[r.seen.email] \in made \ {i}
      BY <1>1, <2>2, <3>1, <3>5, OwnLemma DEF RequestInv, LinkInv, CommitConfirm, At
    <3>7. QED
      BY <3>2, <3>4, <3>6
  <2>3. CASE CommitMail(p)
    <3>1. req[p].link \in Link /\ link[req[p].link].state = "free"
      BY <1>1, <2>3, OwnLemma
         DEF RequestInv, PlaceInv, MailPlace, RegisterInv, CommitMail, At
    <3>2. link'[l] = link[l]
      BY <1>1, <2>3, <3>1, OwnLemma DEF CommitMail, TypeOK
    <3>3. QED
      BY <1>1, <3>2
  <2>4. CASE CommitRegister(p)
    BY <1>1, <2>4 DEF CommitRegister
  <2>5. CASE CommitOAuth(p)
    <3>1. PICK gone : link' = [k \in Link |-> IF link[k].user \in gone
                                              THEN [state |-> "gone", user |-> None] ELSE link[k]]
      BY <2>5 DEF CommitOAuth
    <3>2. QED
      BY <1>1, <3>1
  <2>6. QED
    BY <2>1, <2>2, <2>3, <2>4, <2>5 DEF Commit
<1>2. AccountsInv /\ [Next]_vars => [\A l \in Link : Wasted(l)]_vars
  BY <1>1
<1>3. QED
  BY <1>2, AccountsInvariant, PTL DEF Spec, NoLinkWasted

\* A SocialAccount row is written, or renamed, under its lock.
LEMMA SocialLockLemma ==
  ASSUME AccountsInv, NEW q \in Proc, Commit(q), NEW s \in Social, social'[s] # social[s]
  PROVE  /\ <<"social", s>> \in held[q]
         /\ \/ CommitConfirm(q)
            \/ CommitOAuth(q)
<1>1. CommitConfirm(q) \/ CommitOAuth(q)
  BY DEF Commit, CommitRegister, CommitMail, history
<1>2. ASSUME NEW i, Cascade(i) \subseteq held[q], social[s] = i
      PROVE  <<"social", s>> \in held[q]
  BY <1>2 DEF Cascade
<1>3. CASE CommitConfirm(q)
  <2>1. PICK r, i, j : /\ r = req[q] /\ i = r.found
                       /\ j = IF "activate" \in did[q] THEN r.id ELSE i
    OBVIOUS
  <2>2. social'[s] = Renamed(i, j, social[s])
    BY <1>3, <2>1 DEF CommitConfirm
  <2>3. "activate" \in did[q] /\ j # i /\ social[s] = i
    BY <2>1, <2>2 DEF Renamed
  <2>4. Cascade(i) \subseteq held[q]
    BY <2>1, <2>3, OwnLemma DEF RequestInv, ConfirmInv
  <2>5. QED
    BY <1>1, <1>2, <2>3, <2>4
<1>4. CASE CommitOAuth(q)
  <2>1. PICK r, gone : r = req[q] /\ gone = Gone(r, did[q])
    OBVIOUS
  <2>2. s = r.social \/ social[s] \in gone
    BY <1>4, <2>1 DEF CommitOAuth, Gone
  <2>3. DiscardInv("commit", r, did[q], held[q]) /\ SocialInv(r, did[q], held[q])
        /\ "social" \in did[q]
    BY <1>4, <2>1, OAuthFactsLemma
  <2>4. \A i \in gone : Cascade(i) \subseteq held[q]
    BY <2>1, <2>3 DEF Gone, DiscardInv
  <2>5. <<"social", r.social>> \in held[q]
    BY <2>3 DEF SocialInv
  <2>6. QED
    BY <1>1, <1>2, <2>2, <2>4, <2>5
<1>5. QED
  BY <1>1, <1>3, <1>4

\* resolve_or_create: an identity comes to an account that existed only by the
\* proved address of both.
THEOREM ByProofTheorem == Spec => SocialLinkedByProof
<1> DEFINE Linked(p) ==
      LET s == req[p].social
      IN At(p, "commit") /\ s # None /\ social'[s] # social[s] =>
           LET i == social'[s]
           IN \/ ~Present(i)
              \/ "create" \in did[p]
              \/ user[i].emailVerified /\ req[p].verified /\ user[i].email = req[p].email
<1>1. ASSUME AccountsInv, Next, NEW p \in Proc, At(p, "commit"), req[p].social # None,
             social'[req[p].social] # social[req[p].social]
      PROVE  Linked(p)
  <2>1. PICK s : s = req[p].social
    OBVIOUS
  <2>2. /\ req[p].kind = "oauth" /\ s \in Social
        /\ "social" \in did[p] /\ <<"social", s>> \in held[p]
        /\ SocialInv(req[p], did[p], held[p])
    <3>1. req[p].kind = "oauth" /\ PlaceInv(pc[p], req[p], did[p]) /\ SocialInv(req[p], did[p], held[p])
      BY <1>1, OwnLemma DEF RequestInv, PlaceInv
    <3>2. s \in Social /\ "social" \in did[p]
      BY <1>1, <2>1, <3>1 DEF PlaceInv, OAuthPlace, At
    <3>3. QED
      BY <2>1, <3>1, <3>2 DEF SocialInv
  <2>3. PICK q \in Proc : Commit(q)
    BY <1>1, StepLemma DEF Move, tables
  <2>4. <<"social", s>> \in held[q] /\ (CommitConfirm(q) \/ CommitOAuth(q))
    BY <1>1, <2>1, <2>2, <2>3, SocialLockLemma
  <2>5. q = p
    <3>1. Clash(<<"social", s>>, <<"social", s>>)
      BY DEF Clash
    <3>2. QED
      BY <1>1, <2>2, <2>4, <3>1, OwnLemma DEF LockInv
  <2>6. CommitOAuth(p)
    BY <2>2, <2>4, <2>5 DEF CommitConfirm
  <2>7. "create" \notin did[p] => social'[s] = req[p].found
    BY <2>1, <2>2, <2>6 DEF CommitOAuth
  <2>8. QED
    BY <2>1, <2>2, <2>7 DEF SocialInv
<1>2. AccountsInv /\ [Next]_vars => [\A p \in Proc : Linked(p)]_vars
  BY <1>1
<1>3. QED
  BY <1>2, AccountsInvariant, PTL DEF Spec, SocialLinkedByProof

\* oauth_callback: whoever wins the race of first sign-ins, every one that goes
\* on signs in the user who owns the identity.
THEOREM OwnerTheorem == Spec => OwnerSignsIn
<1> DEFINE Owner(p) ==
      req[p].kind = "oauth" /\ pc[p] # "handoff" /\ pc'[p] = "handoff" =>
        /\ social'[req[p].social] = req'[p].found
        /\ user'[req'[p].found].status # "absent"
<1>1. ASSUME AccountsInv, Next, NEW p \in Proc, req[p].kind = "oauth", pc[p] # "handoff",
             pc'[p] = "handoff"
      PROVE  Owner(p)
  <2>1. pc \in [Proc -> PC] /\ req \in [Proc -> Request] /\ req[p] \in Request
    BY <1>1, OwnLemma DEF AccountsInv, TypeOK
  <2>2. ASSUME NEW q \in Proc, Move(q)
        PROVE  Owner(p)
    <3>1. SignInKnown(p) /\ UNCHANGED tables
      BY <1>1, <2>1, <2>2 DEF Move
    <3>2. PICK i : i = social[req[p].social]
      OBVIOUS
    <3>3. ~Abort(p)
      BY <1>1, <2>1 DEF Abort, End, Goto
    <3>4. user[i].status = "ACTIVE" /\ req' = [req EXCEPT ![p] = [req[p] EXCEPT !.found = i]]
      BY <3>1, <3>2, <3>3 DEF SignInKnown, Read
    <3>5. req'[p].found = i
      BY <2>1, <3>4 DEF Request
    <3>6. QED
      BY <3>1, <3>2, <3>4, <3>5 DEF tables
  <2>3. ASSUME NEW q \in Proc, Commit(q)
        PROVE  Owner(p)
    <3>1. q = p /\ (CommitConfirm(q) \/ CommitOAuth(q))
      BY <1>1, <2>1, <2>3
         DEF Commit, CommitRegister, CommitMail, CommitConfirm, CommitOAuth, End, Goto
    <3>2. CommitOAuth(p)
      BY <1>1, <3>1 DEF CommitConfirm
    <3>3. PICK r, s, t, n : /\ r = req[p] /\ s = Fresh(r) /\ t = r.social
                            /\ n = IF "create" \in did[p] THEN r.id ELSE r.found
      OBVIOUS
    <3>4. req' = [req EXCEPT ![p] = [s EXCEPT !.found = n]]
      BY <3>2, <3>3 DEF CommitOAuth
    <3>5. req'[p].found = n
      <4>1. s \in Request
        BY <2>1, <3>3, FreshLemma
      <4>2. QED
        BY <2>1, <3>4, <4>1 DEF Request
    <3>6. social'[t] = n /\ t \in Social
      BY <1>1, <3>2, <3>3, OAuthFactsLemma DEF CommitOAuth
    <3>7. user'[n].status # "absent"
      <4>1. CASE "create" \in did[p]
        <5>1. n \in Id
          BY <1>1, <3>2, <3>3, <4>1, OAuthFactsLemma DEF CreateInv
        <5>2. QED
          BY <3>2, <3>3, <4>1, <5>1 DEF CommitOAuth
      <4>2. CASE "create" \notin did[p]
        <5>1. did[p] = {"social"} /\ n \in Id /\ Present(n)
          BY <1>1, <3>2, <3>3, <4>2, OAuthFactsLemma DEF SocialInv
        <5>2. user'[n] = user[n]
          BY <3>2, <5>1 DEF CommitOAuth
        <5>3. QED
          BY <5>1, <5>2 DEF Present
      <4>3. QED
        BY <4>1, <4>2
    <3>8. QED
      BY <3>3, <3>5, <3>6, <3>7
  <2>4. QED
    BY <1>1, <2>2, <2>3, StepLemma
<1>2. AccountsInv /\ [Next]_vars => [\A p \in Proc : Owner(p)]_vars
  BY <1>1
<1>3. QED
  BY <1>2, AccountsInvariant, PTL DEF Spec, OwnerSignsIn
=============================================================================
