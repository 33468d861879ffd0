------------------------- MODULE OneTimeLinksProofs -------------------------
(***************************************************************************)
(* Proofs about OneTimeLinks: IInv is inductive; under it every step of a  *)
(* request is a step of OneTimeGrant on the request's own grant, or none;  *)
(* and what a spent link was good for.                                     *)
(*                                                                         *)
(* One fact about steps serves both halves: a step of p disturbs nobody    *)
(* else (Frame), spends and redeems only p's own grant, and begins to hold *)
(* a grant only by taking it out of the store (Spends).                    *)
(***************************************************************************)
EXTENDS OneTimeLinks, TLAPS

Frame(p) ==
  /\ \A q \in Proc \ {p} : pc'[q] = pc[q] /\ req'[q] = req[q]
  /\ \A q \in Proc \ {p}, g \in Grant : rowLock[g] = q => rowLock'[g] = q

Spends(p) ==
  /\ used \subseteq used'
  /\ \A g \in used' \ used :
       g = req[p].grant /\ (KindOf[g] \in RowKinds => Marking(p))
  /\ \A g \in Grant : redemptions'[g] # redemptions[g] =>
       /\ g = req[p].grant /\ g \in used'
       /\ Marking(p) \/ Holding(p)
       /\ redemptions'[g] = redemptions[g] + 1
  /\ Holding(p)' => /\ req'[p].grant = req[p].grant
                    /\ Holding(p) \/ req[p].grant \notin used

\* Such a step preserves IInv if p's own part of it holds after it.
LEMMA PreserveLemma ==
  ASSUME IInv, TypeOK', NEW p \in Proc, Frame(p), Spends(p), RequestInv(p)'
  PROVE  IInv'
<1>1. ASSUME NEW q \in Proc \ {p}
      PROVE  RequestInv(q)'
  <2>1. pc'[q] = pc[q] /\ req'[q] = req[q] /\ RequestInv(q) /\ RequestInv(p)
    BY <1>1 DEF Frame, IInv
  <2>2. /\ Marking(q)' <=> Marking(q)
        /\ Holding(q)' <=> Holding(q)
        /\ ~At(q, "idle")' <=> ~At(q, "idle")
    BY <2>1 DEF Marking, Holding, At
  <2>3. Marking(q) \/ Holding(q) => req[q].grant \in Grant
    BY <2>1 DEF RequestInv, Marking, Holding, At
  <2>4. ASSUME Marking(q)
        PROVE  rowLock'[req[q].grant] = q /\ req[q].grant \notin used'
    <3>1. rowLock[req[q].grant] = q /\ req[q].grant \notin used
      BY <2>1, <2>4 DEF RequestInv
    <3>2. rowLock'[req[q].grant] = q
      BY <2>3, <2>4, <3>1, <1>1 DEF Frame
    <3>3. KindOf[req[q].grant] \in RowKinds
      BY <2>1, <2>4 DEF RequestInv
    <3>4. ASSUME req[q].grant \in used' PROVE FALSE
      <4>1. req[q].grant = req[p].grant /\ Marking(p)
        BY <3>1, <3>3, <3>4 DEF Spends
      <4>2. rowLock[req[p].grant] = p
        BY <2>1, <4>1 DEF RequestInv
      <4>3. QED
        BY <3>1, <4>1, <4>2, <1>1
    <3>5. QED
      BY <3>2, <3>4
  <2>5. ASSUME Holding(q)
        PROVE  req[q].grant \in used' /\ redemptions'[req[q].grant] = 0
    <3>1. /\ req[q].grant \in used /\ redemptions[req[q].grant] = 0
          /\ KindOf[req[q].grant] \notin RowKinds
      BY <2>1, <2>5 DEF RequestInv
    <3>2. ASSUME redemptions'[req[q].grant] # redemptions[req[q].grant]
          PROVE  FALSE
      <4>1. req[q].grant = req[p].grant /\ (Marking(p) \/ Holding(p))
        BY <2>3, <2>5, <3>2 DEF Spends
      <4>2. ~Marking(p)
        BY <2>1, <3>1, <4>1 DEF RequestInv
      <4>3. QED
        BY <4>1, <4>2, <2>5, <1>1 DEF IInv
    <3>3. QED
      BY <3>1, <3>2 DEF Spends
  <2>6. QED
    BY <2>1, <2>2, <2>4, <2>5 DEF RequestInv, At, Marking, Holding
<1>2. \A q \in Proc : RequestInv(q)'
  BY <1>1
<1>3. ASSUME NEW q \in Proc, NEW r \in Proc,
             Holding(q)', Holding(r)', req'[q].grant = req'[r].grant
      PROVE  q = r
  <2>1. \A s \in Proc \ {p} : Holding(s)' => Holding(s) /\ req'[s].grant = req[s].grant
    BY DEF Frame, Holding
  <2>2. \A s \in Proc : Holding(s) => req[s].grant \in used
    BY DEF IInv, RequestInv
  <2>3. CASE q # p /\ r # p
    BY <1>3, <2>1, <2>3 DEF IInv
  <2>4. ASSUME NEW s \in Proc \ {p}, Holding(s)', Holding(p)',
               req'[s].grant = req'[p].grant
        PROVE  FALSE
    <3>1. Holding(s) /\ req[s].grant = req[p].grant
      BY <2>1, <2>4 DEF Spends
    <3>2. Holding(p)
      BY <2>2, <2>4, <3>1 DEF Spends
    <3>3. QED
      BY <3>1, <3>2, <2>4 DEF IInv
  <2>5. QED
    BY <1>3, <2>3, <2>4
<1>4. ASSUME NEW g \in Grant
      PROVE  redemptions'[g] \in {0, 1} /\ (g \notin used' => redemptions'[g] = 0)
  <2>1. redemptions[g] \in {0, 1} /\ (g \notin used => redemptions[g] = 0)
    BY DEF IInv
  <2>2. CASE redemptions'[g] = redemptions[g]
    BY <2>1, <2>2 DEF Spends
  <2>3. CASE redemptions'[g] # redemptions[g]
    <3>1. /\ g = req[p].grant /\ g \in used' /\ (Marking(p) \/ Holding(p))
          /\ redemptions'[g] = redemptions[g] + 1
      BY <2>3 DEF Spends
    <3>2. redemptions[g] = 0
      BY <2>1, <3>1, <2>3 DEF IInv, RequestInv, Spends
    <3>3. QED
      BY <3>1, <3>2, <2>3 DEF Spends
  <2>4. QED
    BY <2>2, <2>3
<1>5. QED
  BY <1>2, <1>3, <1>4 DEF IInv
-----------------------------------------------------------------------------
(* Typing.                                                                 *)

\* Assignments to one request's part keep the types.
LEMMA PartLemma ==
  ASSUME TypeOK, NEW p \in Proc
  PROVE  /\ \A l \in PC : Goto(p, l) => pc' \in [Proc -> PC] /\ pc'[p] = l
         /\ \A r \in Request : req' = [req EXCEPT ![p] = r] =>
              req' \in [Proc -> Request] /\ req'[p] = r
         /\ End(p) => /\ pc' \in [Proc -> PC] /\ pc'[p] = "idle"
                      /\ req' \in [Proc -> Request] /\ req'[p] = NoRequest
         /\ Release(p) => /\ rowLock' \in [Grant -> Proc \cup {None}]
                          /\ userLock' \in [User -> Proc \cup {None}]
<1>1. pc \in [Proc -> PC] /\ req \in [Proc -> Request] /\ "idle" \in PC
  BY DEF TypeOK, PC
<1>2. NoRequest \in Request
  BY DEF NoRequest, Request
<1>3. Release(p) => /\ rowLock' \in [Grant -> Proc \cup {None}]
                    /\ userLock' \in [User -> Proc \cup {None}]
  BY DEF Release, TypeOK
<1>4. QED
  BY <1>1, <1>2, <1>3 DEF Goto, End

\* A request's outcome, its path and the id it has read are its own to set.
LEMMA FieldLemma ==
  ASSUME TypeOK, NEW p \in Proc
  PROVE  /\ req[p] \in Request
         /\ \A o \in {"redeemed", "void"} : [req[p] EXCEPT !.outcome = o] \in Request
         /\ \A w \in {"activate", "attach"} : [req[p] EXCEPT !.path = w] \in Request
         /\ \A i \in {"first", "reserved"} : [req[p] EXCEPT !.id = i] \in Request
         /\ \A g \in Grant, f \in {"yes", "no"} :
              [NoRequest EXCEPT !.grant = g, !.fresh = f] \in Request
  BY DEF TypeOK, Request, NoRequest
-----------------------------------------------------------------------------
(* What each action of a request does.                                     *)

StepOK(p) == TypeOK' /\ Frame(p) /\ Spends(p) /\ RequestInv(p)'

LEMMA RefuseLemma ==
  ASSUME IInv, NEW p \in Proc, Refuse(p), UNCHANGED subject
  PROVE  StepOK(p)
<1>1. TypeOK
  BY DEF IInv
<1>2. /\ pc' \in [Proc -> PC] /\ pc'[p] = "idle"
      /\ req' \in [Proc -> Request]
      /\ rowLock' \in [Grant -> Proc \cup {None}]
      /\ userLock' \in [User -> Proc \cup {None}]
  BY <1>1, PartLemma DEF Refuse
<1>3. TypeOK'
  BY <1>1, <1>2 DEF TypeOK, Refuse
<1>4. Frame(p)
  BY <1>1 DEF Refuse, End, Goto, Release, Frame, TypeOK
<1>5. Spends(p) /\ RequestInv(p)'
  BY <1>2 DEF Refuse, Spends, RequestInv, Marking, Holding, At
<1>6. QED
  BY <1>3, <1>4, <1>5 DEF StepOK

\* p goes on without spending or holding anything.
LEMMA MoveLemma ==
  ASSUME IInv, NEW p \in Proc, NEW l \in PC \ {"issue", "resolve"}, NEW r \in Request,
         Goto(p, l), req' = [req EXCEPT ![p] = r],
         UNCHANGED <<used, status, pending, subject, redemptions>>,
         rowLock' \in [Grant -> Proc \cup {None}],
         userLock' \in [User -> Proc \cup {None}],
         \A q \in Proc \ {p}, g \in Grant : rowLock[g] = q => rowLock'[g] = q,
         l # "idle" => r.grant \in Grant,
         l \in {"find", "token", "eligible", "mark", "lockUser", "activate",
                "cascade", "attach", "commit"} => KindOf[r.grant] \in RowKinds,
         l \in {"get", "drop", "take", "consume"} => KindOf[r.grant] \notin RowKinds,
         l \in {"lockUser", "activate", "cascade", "attach", "commit"} =>
           rowLock'[r.grant] = p /\ r.grant \notin used
  PROVE  StepOK(p)
<1>1. TypeOK
  BY DEF IInv
<1>2. /\ pc' \in [Proc -> PC] /\ pc'[p] = l
      /\ req' \in [Proc -> Request] /\ req'[p] = r
  BY <1>1, PartLemma
<1>3. TypeOK'
  BY <1>1, <1>2 DEF TypeOK
<1>4. Frame(p)
  BY <1>1 DEF Goto, Frame, TypeOK
<1>5. Spends(p)
  BY <1>2 DEF Spends, Holding
<1>6. RequestInv(p)'
  BY <1>2 DEF RequestInv, Marking, Holding, At
<1>7. QED
  BY <1>3, <1>4, <1>5, <1>6 DEF StepOK

LEMMA PresentLemma ==
  ASSUME IInv, NEW p \in Proc, Present(p), UNCHANGED subject
  PROVE  StepOK(p)
<1>1. TypeOK
  BY DEF IInv
<1>2. PICK g \in Grant, f \in {"yes", "no"} :
        /\ req' = [req EXCEPT ![p] = [NoRequest EXCEPT !.grant = g, !.fresh = f]]
        /\ Goto(p, FirstStep(KindOf[g]))
  BY DEF Present
<1> DEFINE r == [NoRequest EXCEPT !.grant = g, !.fresh = f]
<1>3. r \in Request /\ r.grant = g
  BY <1>1, FieldLemma DEF NoRequest
<1>4. KindOf[g] \in Kind
  BY GrantAssumption
<1>5. /\ FirstStep(KindOf[g]) \in {"find", "token", "consume", "get"}
      /\ FirstStep(KindOf[g]) \in {"find", "token"} => KindOf[g] \in RowKinds
      /\ FirstStep(KindOf[g]) \in {"consume", "get"} => KindOf[g] \notin RowKinds
  BY <1>4 DEF FirstStep, Kind, RowKinds
<1>6. UNCHANGED <<used, status, pending, subject, redemptions, rowLock, userLock>>
  BY DEF Present, locks
<1> HIDE DEF r
<1>7. QED
  BY <1>1, <1>2, <1>3, <1>5, <1>6, MoveLemma DEF TypeOK, PC, r

\* The steps before a row is marked.
LEMMA FindLemma ==
  ASSUME IInv, NEW p \in Proc, UNCHANGED subject,
         FindRow(p) \/ ReadEligibility(p) \/ MarkRow(p) \/ GetCode(p)
  PROVE  StepOK(p)
<1>1. TypeOK /\ RequestInv(p) /\ req[p] \in Request
  BY DEF IInv, TypeOK
<1>2. IdOf(Owner(p)) \in {"first", "reserved"}
  BY DEF IdOf
<1>3. CASE FindRow(p)
  <2> DEFINE i == IdOf(Owner(p))
             r == [req[p] EXCEPT !.id = i]
  <2>1. r \in Request /\ r.grant = req[p].grant
    <3>1. req[p] \in Request /\ r \in Request
      BY <1>1, <1>2, FieldLemma
    <3> HIDE DEF i
    <3>2. QED
      BY <3>1 DEF Request
  <2>2. req' = [req EXCEPT ![p] = r]
    BY <1>1, <1>3 DEF FindRow, TypeOK
  <2>3. Goto(p, "mark") \/ Goto(p, "eligible")
    BY <1>3 DEF FindRow
  <2>4. req[p].grant \in Grant /\ KindOf[req[p].grant] \in RowKinds
    BY <1>1, <1>3 DEF FindRow, RequestInv, At
  <2>5. UNCHANGED <<used, status, pending, redemptions, rowLock, userLock>>
    BY <1>3 DEF FindRow, locks
  <2> HIDE DEF r
  <2>6. QED
    BY <1>1, <2>1, <2>2, <2>3, <2>4, <2>5, MoveLemma DEF TypeOK, PC
<1>4. CASE ReadEligibility(p)
  <2> DEFINE w == IF status[Owner(p)] = "PENDING" THEN "activate" ELSE "attach"
             r == [req[p] EXCEPT !.path = w]
  <2>1. r \in Request /\ r.grant = req[p].grant
    <3>1. w \in {"activate", "attach"}
      OBVIOUS
    <3>2. req[p] \in Request /\ r \in Request
      BY <1>1, <3>1, FieldLemma
    <3> HIDE DEF w
    <3>3. QED
      BY <3>2 DEF Request
  <2>2. req' = [req EXCEPT ![p] = r] /\ Goto(p, "mark")
    BY <1>1, <1>4 DEF ReadEligibility, TypeOK
  <2>3. req[p].grant \in Grant /\ KindOf[req[p].grant] \in RowKinds
    BY <1>1, <1>4 DEF ReadEligibility, RequestInv, At
  <2>4. UNCHANGED <<used, status, pending, redemptions, rowLock, userLock>>
    BY <1>4 DEF ReadEligibility, locks
  <2> HIDE DEF r
  <2>5. QED
    BY <1>1, <2>1, <2>2, <2>3, <2>4, MoveLemma DEF TypeOK, PC
<1>5. CASE MarkRow(p)
  <2>1. req' = [req EXCEPT ![p] = req[p]]
    BY <1>1, <1>5 DEF MarkRow, TypeOK
  <2>2. AfterMark(p) \in {"lockUser", "activate", "attach"}
    BY <1>1 DEF AfterMark, Request
  <2>3. /\ req[p].grant \in Grant /\ KindOf[req[p].grant] \in RowKinds
        /\ req[p].grant \notin used
    BY <1>1, <1>5 DEF MarkRow, RequestInv, At, Markable, Open
  <2>4. /\ rowLock' = [rowLock EXCEPT ![req[p].grant] = p]
        /\ rowLock[req[p].grant] = None
        /\ Goto(p, AfterMark(p))
        /\ UNCHANGED <<used, status, pending, redemptions, userLock>>
    BY <1>5 DEF MarkRow
  <2>5. /\ rowLock' \in [Grant -> Proc \cup {None}]
        /\ rowLock'[req[p].grant] = p
        /\ \A q \in Proc \ {p}, g \in Grant : rowLock[g] = q => rowLock'[g] = q
    BY <1>1, <2>3, <2>4, GrantAssumption DEF TypeOK
  <2>6. QED
    BY <1>1, <2>1, <2>2, <2>3, <2>4, <2>5, MoveLemma DEF TypeOK, PC
<1>6. CASE GetCode(p)
  <2>1. req' = [req EXCEPT ![p] = req[p]]
    BY <1>1, <1>6 DEF GetCode, TypeOK
  <2>2. Goto(p, "take") \/ Goto(p, "drop")
    BY <1>6 DEF GetCode
  <2>3. req[p].grant \in Grant /\ KindOf[req[p].grant] \notin RowKinds
    BY <1>1, <1>6 DEF GetCode, RequestInv, At
  <2>4. UNCHANGED <<used, status, pending, redemptions, rowLock, userLock>>
    BY <1>6 DEF GetCode, locks
  <2>5. QED
    BY <1>1, <2>1, <2>2, <2>3, <2>4, MoveLemma DEF TypeOK, PC
<1>7. QED
  BY <1>3, <1>4, <1>5, <1>6

\* The steps between the mark and the commit.
LEMMA MarkedLemma ==
  ASSUME IInv, NEW p \in Proc, UNCHANGED subject,
         \/ ResetPassword(p) \/ ResetNobody(p) \/ ActivateUser(p) \/ ActivateNobody(p)
         \/ AttachPassword(p)
  PROVE  StepOK(p)
<1>1. TypeOK /\ RequestInv(p) /\ req[p] \in Request
  BY DEF IInv, TypeOK
<1>2. /\ Marking(p)
      /\ TakeUserLock(p) \/ UNCHANGED userLock
      /\ \E o \in {"redeemed", "void"} : ReadyToCommit(p, o)
  BY DEF ResetPassword, ResetNobody, ActivateUser, Activatable, ActivateNobody,
         AttachPassword, At, Marking
<1>3. PICK o \in {"redeemed", "void"} : ReadyToCommit(p, o)
  BY <1>2
<1> DEFINE r == [req[p] EXCEPT !.outcome = o]
<1>4. r \in Request /\ r.grant = req[p].grant
  <2>1. req[p] \in Request /\ r \in Request
    BY <1>1, <1>3, FieldLemma
  <2>2. QED
    BY <2>1 DEF Request
<1>5. req' = [req EXCEPT ![p] = r] /\ Goto(p, "commit")
  BY <1>1, <1>3 DEF ReadyToCommit, TypeOK
<1>6. /\ req[p].grant \in Grant /\ KindOf[req[p].grant] \in RowKinds
      /\ rowLock[req[p].grant] = p /\ req[p].grant \notin used
  BY <1>1, <1>2 DEF RequestInv, Marking, At
<1>7. UNCHANGED <<used, status, pending, redemptions, rowLock>>
  BY <1>3 DEF ReadyToCommit
<1>8. userLock' \in [User -> Proc \cup {None}]
  BY <1>1, <1>2 DEF TypeOK, TakeUserLock
<1> HIDE DEF r
<1>9. QED
  BY <1>1, <1>4, <1>5, <1>6, <1>7, <1>8, MoveLemma DEF TypeOK, PC

\* A rename takes its user, then the user's token rows.
LEMMA RenameLemma ==
  ASSUME IInv, NEW p \in Proc, UNCHANGED subject, RenameUser(p) \/ CascadeRename(p)
  PROVE  StepOK(p)
<1>1. TypeOK /\ RequestInv(p) /\ req[p] \in Request
  BY DEF IInv, TypeOK
<1>2. Marking(p)
  BY DEF RenameUser, Activatable, CascadeRename, At, Marking
<1>3. /\ req[p].grant \in Grant /\ KindOf[req[p].grant] \in RowKinds
      /\ rowLock[req[p].grant] = p /\ req[p].grant \notin used
  BY <1>1, <1>2 DEF RequestInv, Marking, At
<1>4. CASE RenameUser(p)
  <2>1. req' = [req EXCEPT ![p] = req[p]] /\ Goto(p, "cascade")
    BY <1>1, <1>4 DEF RenameUser, TypeOK
  <2>2. UNCHANGED <<used, status, pending, redemptions, rowLock>>
    BY <1>4 DEF RenameUser
  <2>3. userLock' \in [User -> Proc \cup {None}]
    BY <1>1, <1>4 DEF RenameUser, TypeOK, TakeUserLock
  <2>4. QED
    BY <1>1, <1>3, <2>1, <2>2, <2>3, MoveLemma DEF TypeOK, PC
<1>5. CASE CascadeRename(p)
  <2> DEFINE r == [req[p] EXCEPT !.outcome = "redeemed"]
  <2>1. r \in Request
    BY <1>1, FieldLemma
  <2>2. r.grant = req[p].grant
    BY <1>1 DEF Request
  <2>3. req' = [req EXCEPT ![p] = r] /\ Goto(p, "commit")
    BY <1>1, <1>5 DEF CascadeRename, TypeOK
  <2>4. /\ UNCHANGED <<used, status, pending, redemptions, userLock>>
        /\ \A g \in RowsOf(Owner(p)) : rowLock[g] \in {None, p}
        /\ rowLock' = [g \in Grant |-> IF g \in RowsOf(Owner(p)) THEN p ELSE rowLock[g]]
    BY <1>5 DEF CascadeRename
  <2>5. /\ rowLock' \in [Grant -> Proc \cup {None}]
        /\ rowLock'[req[p].grant] = p
        /\ \A q \in Proc \ {p}, g \in Grant : rowLock[g] = q => rowLock'[g] = q
    BY <1>1, <1>3, <2>4, GrantAssumption DEF TypeOK
  <2> HIDE DEF r
  <2>6. QED
    BY <1>1, <1>3, <2>1, <2>2, <2>3, <2>4, <2>5, MoveLemma DEF TypeOK, PC
<1>6. QED
  BY <1>4, <1>5

LEMMA CommitLemma ==
  ASSUME IInv, NEW p \in Proc, Commit(p)
  PROVE  StepOK(p)
<1> DEFINE g == req[p].grant
<1>1. TypeOK /\ RequestInv(p)
  BY DEF IInv
<1>2. g \in Grant /\ Marking(p) /\ g \notin used
  BY <1>1 DEF Commit, RequestInv, Marking, At
<1>3. /\ pc' \in [Proc -> PC] /\ pc'[p] = "idle"
      /\ req' \in [Proc -> Request]
      /\ rowLock' \in [Grant -> Proc \cup {None}]
      /\ userLock' \in [User -> Proc \cup {None}]
  BY <1>1, PartLemma DEF Commit
<1>4. /\ used' = used \cup {g}
      /\ redemptions' = [redemptions EXCEPT ![g] = @ + 1] \/ redemptions' = redemptions
      /\ status' = [status EXCEPT ![Owner(p)] = "ACTIVE"] \/ status' = status
      /\ pending' \subseteq pending
      /\ subject' = [subject EXCEPT ![Owner(p)] = "moved"] \/ subject' = subject
  BY DEF Commit, Redeemed
<1>5. TypeOK'
  <2>1. redemptions' \in [Grant -> Nat] /\ used' \in SUBSET Grant
    BY <1>1, <1>2, <1>4 DEF TypeOK
  <2>2. /\ status' \in [User -> {"PENDING", "ACTIVE", "SUSPENDED"}]
        /\ pending' \in SUBSET User
        /\ subject' \in [User -> Subject]
    BY <1>1, <1>4 DEF TypeOK, Subject
  <2>3. QED
    BY <1>1, <1>3, <2>1, <2>2 DEF TypeOK
<1>6. Frame(p)
  BY <1>1 DEF Commit, End, Goto, Release, Frame, TypeOK
<1>7. Spends(p)
  <2>1. \A h \in Grant : redemptions'[h] # redemptions[h] =>
          h = g /\ redemptions'[h] = redemptions[h] + 1
    BY <1>1, <1>4 DEF TypeOK
  <2>2. ~Holding(p)'
    BY <1>3 DEF Holding
  <2>3. QED
    BY <1>2, <1>4, <2>1, <2>2 DEF Spends
<1>8. RequestInv(p)'
  BY <1>3 DEF RequestInv, Marking, Holding, At
<1>9. QED
  BY <1>5, <1>6, <1>7, <1>8 DEF StepOK

\* DropExpired, and a script whose reply is lost.
LEMMA DropLemma ==
  ASSUME IInv, NEW p \in Proc, DropExpired(p) \/ ReplyLost(p), UNCHANGED subject
  PROVE  StepOK(p)
<1> DEFINE g == req[p].grant
<1>1. TypeOK /\ RequestInv(p)
  BY DEF IInv
<1>2. /\ pc[p] \in {"drop", "take", "consume"}
      /\ used' = used \cup {g}
      /\ End(p)
      /\ UNCHANGED <<status, pending, redemptions, rowLock, userLock>>
  BY DEF DropExpired, ReplyLost, Remove, At, locks
<1>3. g \in Grant /\ KindOf[g] \notin RowKinds
  BY <1>1, <1>2 DEF RequestInv, At
<1>4. /\ pc' \in [Proc -> PC] /\ pc'[p] = "idle"
      /\ req' \in [Proc -> Request]
  BY <1>1, <1>2, PartLemma
<1>5. TypeOK'
  BY <1>1, <1>2, <1>3, <1>4 DEF TypeOK
<1>6. Frame(p)
  BY <1>1, <1>2 DEF End, Goto, Frame, TypeOK
<1>7. Spends(p) /\ RequestInv(p)'
  BY <1>2, <1>3, <1>4 DEF Spends, RequestInv, Marking, Holding, At
<1>8. QED
  BY <1>5, <1>6, <1>7 DEF StepOK

LEMMA TakeLemma ==
  ASSUME IInv, NEW p \in Proc, TakeCode(p) \/ ConsumeState(p), UNCHANGED subject
  PROVE  StepOK(p)
<1> DEFINE g == req[p].grant
<1>1. TypeOK /\ RequestInv(p)
  BY DEF IInv
<1>2. /\ pc[p] \in {"take", "consume"}
      /\ g \notin used
      /\ used' = used \cup {g}
      /\ Goto(p, "issue") \/ Goto(p, "resolve")
      /\ UNCHANGED <<status, pending, redemptions, req, rowLock, userLock>>
  BY DEF TakeCode, ConsumeState, Remove, At, locks
<1>3. g \in Grant /\ KindOf[g] \notin RowKinds
  BY <1>1, <1>2 DEF RequestInv, At
<1>4. pc' \in [Proc -> PC] /\ pc'[p] \in {"issue", "resolve"}
  BY <1>1, <1>2, PartLemma DEF PC
<1>5. redemptions[g] = 0
  BY <1>2, <1>3 DEF IInv
<1>6. TypeOK'
  BY <1>1, <1>2, <1>3, <1>4 DEF TypeOK
<1>7. Frame(p)
  BY <1>1, <1>2 DEF Goto, Frame, TypeOK
<1>8. Spends(p)
  BY <1>2, <1>3 DEF Spends
<1>9. RequestInv(p)'
  BY <1>2, <1>3, <1>4, <1>5 DEF RequestInv, Marking, Holding, At
<1>10. QED
  BY <1>6, <1>7, <1>8, <1>9 DEF StepOK

LEMMA PayLemma ==
  ASSUME IInv, NEW p \in Proc, Pay(p), UNCHANGED subject
  PROVE  StepOK(p)
<1> DEFINE g == req[p].grant
<1>1. TypeOK /\ RequestInv(p)
  BY DEF IInv
<1>2. /\ Holding(p)
      /\ redemptions' = [redemptions EXCEPT ![g] = @ + 1]
      /\ End(p)
      /\ UNCHANGED <<used, status, pending, rowLock, userLock>>
  BY DEF Pay, Redeemed, Holding, locks
<1>3. g \in Grant /\ g \in used
  BY <1>1, <1>2 DEF RequestInv, Holding, At
<1>4. /\ pc' \in [Proc -> PC] /\ pc'[p] = "idle"
      /\ req' \in [Proc -> Request]
  BY <1>1, <1>2, PartLemma
<1>5. TypeOK'
  BY <1>1, <1>2, <1>3, <1>4 DEF TypeOK
<1>6. Frame(p)
  BY <1>1, <1>2 DEF End, Goto, Frame, TypeOK
<1>7. Spends(p)
  <2>1. \A h \in Grant : redemptions'[h] # redemptions[h] =>
          h = g /\ redemptions'[h] = redemptions[h] + 1
    BY <1>1, <1>2 DEF TypeOK
  <2>2. ~Holding(p)'
    BY <1>4 DEF Holding
  <2>3. QED
    BY <1>2, <1>3, <2>1, <2>2 DEF Spends
<1>8. RequestInv(p)'
  BY <1>4 DEF RequestInv, Marking, Holding, At
<1>9. QED
  BY <1>5, <1>6, <1>7, <1>8 DEF StepOK

\* Every action of a request.
Act(p) == (UNCHANGED subject /\ (Present(p) \/ ReplyLost(p) \/ Fail(p))) \/ Step(p)

LEMMA ActLemma ==
  ASSUME IInv, NEW p \in Proc, Act(p)
  PROVE  StepOK(p)
<1>1. UNCHANGED subject \/ Commit(p)
  BY DEF Act, Step
<1>2. CASE UNCHANGED subject /\ Refuse(p)
  BY <1>1, <1>2, RefuseLemma
<1>3. CASE UNCHANGED subject /\ ~Refuse(p)
  <2>1. \/ Present(p) \/ ReplyLost(p) \/ DropExpired(p)
        \/ FindRow(p) \/ ReadEligibility(p) \/ MarkRow(p) \/ GetCode(p)
        \/ ResetPassword(p) \/ ResetNobody(p) \/ ActivateUser(p) \/ ActivateNobody(p)
        \/ AttachPassword(p) \/ RenameUser(p) \/ CascadeRename(p)
        \/ Commit(p) \/ TakeCode(p) \/ ConsumeState(p) \/ Pay(p)
    BY <1>3 DEF Act, Step, Fail, FindNoRow, NotEligible, MarkNoRow, AttachTwice,
                BreakDeadlock, GetNoCode, TakeNothing, ConsumeNothing, PayNothing
  <2>2. QED
    BY <1>3, <2>1, PresentLemma, DropLemma, FindLemma, MarkedLemma, RenameLemma,
       CommitLemma, TakeLemma, PayLemma
<1>4. CASE Commit(p)
  BY <1>4, CommitLemma
<1>5. QED
  BY <1>1, <1>2, <1>3, <1>4

\* Redis and administrators.
LEMMA OutsideLemma ==
  ASSUME IInv, UNCHANGED subject,
         (\E g \in Grant : Evict(g)) \/ (\E u \in User : Suspend(u))
  PROVE  /\ IInv'
         /\ UNCHANGED <<pc, req, redemptions>>
         /\ \/ used' = used
            \/ \E g \in Grant : used' = used \cup {g}
<1>1. TypeOK
  BY DEF IInv
<1>2. /\ UNCHANGED <<pc, req, redemptions, pending, rowLock, userLock>>
      /\ \/ used' = used
         \/ \E g \in Grant : used' = used \cup {g} /\ KindOf[g] \notin RowKinds
      /\ status' \in [User -> {"PENDING", "ACTIVE", "SUSPENDED"}]
  BY <1>1 DEF Evict, Suspend, Remove, RowKinds, TypeOK, locks
<1>3. TypeOK'
  BY <1>1, <1>2 DEF TypeOK
<1>4. \A q \in Proc : RequestInv(q)'
  BY <1>2 DEF IInv, RequestInv, Marking, Holding, At
<1>5. QED
  BY <1>2, <1>3, <1>4 DEF IInv, Holding

LEMMA InitLemma == Init => IInv
  BY GrantAssumption DEF Init, IInv, TypeOK, PC, Request, NoRequest, RequestInv,
     Marking, Holding, At, RowKinds

LEMMA NextCases ==
  ASSUME [Next]_vars
  PROVE  \/ UNCHANGED vars
         \/ \E p \in Proc : Act(p)
         \/ /\ UNCHANGED subject
            /\ (\E g \in Grant : Evict(g)) \/ (\E u \in User : Suspend(u))
  BY DEF Next, Event, Act

LEMMA StepLemma == IInv /\ [Next]_vars => IInv'
<1> SUFFICES ASSUME IInv, [Next]_vars PROVE IInv'
  OBVIOUS
<1>1. CASE UNCHANGED vars
  BY <1>1 DEF vars, locks, IInv, TypeOK, RequestInv, Marking, Holding, At
<1>2. ASSUME NEW p \in Proc, Act(p) PROVE IInv'
  BY <1>2, ActLemma, PreserveLemma DEF StepOK
<1>3. QED
  BY <1>1, <1>2, NextCases, OutsideLemma

\* What a request has found, marked and taken, and what the store says of it,
\* agree in every state.
THEOREM LinksInvariant == Spec => []IInv
  BY InitLemma, StepLemma, PTL DEF Spec
-----------------------------------------------------------------------------
(* The refinement.                                                         *)

Held(g) == \E p \in Proc : Holding(p) /\ req[p].grant = g

\* The state of a grant depends on three facts about it alone.
LEMMA StateLemma ==
  ASSUME NEW g \in Grant
  PROVE  /\ GrantStates[g] = IF redemptions[g] > 0 THEN "redeemed"
                             ELSE IF g \notin used THEN "open"
                             ELSE IF Held(g) THEN "taken" ELSE "void"
         /\ GrantStates'[g] = IF redemptions'[g] > 0 THEN "redeemed"
                              ELSE IF g \notin used' THEN "open"
                              ELSE IF Held(g)' THEN "taken" ELSE "void"
  BY DEF GrantStates, Held

LEMMA SameLemma ==
  ASSUME NEW g \in Grant, redemptions'[g] = redemptions[g],
         g \in used' <=> g \in used, Held(g)' <=> Held(g)
  PROVE  GrantStates'[g] = GrantStates[g]
  BY StateLemma

LEMMA OnlyLemma ==
  ASSUME NEW g \in Grant,
         \A h \in Grant \ {g} : GrantStates'[h] = GrantStates[h]
  PROVE  GrantStates' = [GrantStates EXCEPT ![g] = GrantStates'[g]]
<1>1. GrantStates = [h \in Grant |-> GrantStates[h]]
  BY DEF GrantStates
<1>2. GrantStates' = [h \in Grant |-> GrantStates'[h]]
  BY DEF GrantStates
<1>3. QED
  BY <1>1, <1>2

\* A step that changes g's state at most is a step of g or none.
LEMMA MoveOneLemma ==
  ASSUME IInv, IInv', NEW g \in Grant,
         \A h \in Grant \ {g} : GrantStates'[h] = GrantStates[h],
         redemptions' = redemptions,
         \/ GrantStates'[g] = GrantStates[g]
         \/ GrantStates[g] = "open" /\ GrantStates'[g] \in {"taken", "void"}
         \/ GrantStates[g] = "taken" /\ GrantStates'[g] = "void"
  PROVE  Grants!Next \/ UNCHANGED <<GrantStates, redemptions>>
<1>1. GrantStates' = [GrantStates EXCEPT ![g] = GrantStates'[g]]
  BY OnlyLemma
<1>2. CASE GrantStates'[g] = GrantStates[g]
  <2>1. GrantStates' = GrantStates
    BY <1>1, <1>2 DEF GrantStates
  <2>2. QED
    BY <2>1
<1>3. CASE GrantStates[g] = "open" /\ GrantStates'[g] = "taken"
  <2>1. Grants!Take(g)
    BY <1>1, <1>3 DEF Grants!Take, Grants!Become
  <2>2. QED
    BY <2>1 DEF Grants!Next
<1>4. CASE GrantStates[g] \in {"open", "taken"} /\ GrantStates'[g] = "void"
  <2>1. Grants!Lose(g)
    BY <1>1, <1>4 DEF Grants!Lose, Grants!Become
  <2>2. QED
    BY <2>1 DEF Grants!Next
<1>5. QED
  BY <1>2, <1>3, <1>4

\* An action of a request.
LEMMA ActRefines ==
  ASSUME IInv, IInv', NEW p \in Proc, Frame(p), Spends(p)
  PROVE  Grants!Next \/ UNCHANGED <<GrantStates, redemptions>>
<1> SUFFICES ASSUME NEW g, g = req[p].grant
             PROVE  Grants!Next \/ UNCHANGED <<GrantStates, redemptions>>
  OBVIOUS
<1>1. redemptions \in [Grant -> Nat] /\ redemptions' \in [Grant -> Nat]
  BY DEF IInv, TypeOK
<1>2. Holding(p) => g \in Grant /\ g \in used
  BY DEF IInv, RequestInv, Holding, At
<1>3. ASSUME NEW h \in Grant, h # g
      PROVE  GrantStates'[h] = GrantStates[h]
  <2>1. redemptions'[h] = redemptions[h] /\ (h \in used' <=> h \in used)
    BY <1>3 DEF Spends
  <2>2. Held(h)' <=> Held(h)
    <3>1. \A q \in Proc \ {p} : /\ Holding(q)' <=> Holding(q)
                                /\ req'[q].grant = req[q].grant
      BY DEF Frame, Holding
    <3>2. Holding(p)' => req'[p].grant # h
      BY <1>3 DEF Spends
    <3>3. QED
      BY <1>3, <3>1, <3>2 DEF Held
  <2>3. QED
    BY <2>1, <2>2, SameLemma
<1>4. CASE g \notin Grant
  <2>1. \A h \in Grant : GrantStates'[h] = GrantStates[h]
    BY <1>3, <1>4
  <2>2. GrantStates' = GrantStates
    BY <2>1 DEF GrantStates
  <2>3. redemptions' = redemptions
    BY <1>1, <1>4 DEF Spends
  <2>4. QED
    BY <2>2, <2>3
<1>5. CASE g \in Grant /\ redemptions'[g] # redemptions[g]
  <2>1. /\ g \in used' /\ (Marking(p) \/ Holding(p))
        /\ redemptions'[g] = redemptions[g] + 1
    BY <1>5 DEF Spends
  <2>2. redemptions[g] = 0
    BY <2>1, <1>5 DEF IInv, RequestInv
  <2>3. GrantStates[g] \in {"open", "taken"}
    <3>1. CASE Marking(p)
      <4>1. g \notin used
        BY <3>1 DEF IInv, RequestInv
      <4>2. QED
        BY <1>5, <2>2, <4>1, StateLemma
    <3>2. CASE Holding(p)
      <4>1. Held(g)
        BY <3>2 DEF Held
      <4>2. QED
        BY <1>5, <2>2, <4>1, StateLemma
    <3>3. QED
      BY <2>1, <3>1, <3>2
  <2>4. GrantStates'[g] = "redeemed"
    BY <1>5, <2>1, <2>2, StateLemma
  <2>5. GrantStates' = [GrantStates EXCEPT ![g] = "redeemed"]
    BY <1>3, <1>5, <2>4, OnlyLemma
  <2>6. redemptions' = [redemptions EXCEPT ![g] = @ + 1]
    <3>1. \A h \in Grant : h # g => redemptions'[h] = redemptions[h]
      BY DEF Spends
    <3>2. QED
      BY <1>1, <1>5, <2>1, <3>1
  <2>7. Grants!Redeem(g)
    BY <2>3, <2>5, <2>6 DEF Grants!Redeem, Grants!Become
  <2>8. QED
    BY <1>5, <2>7 DEF Grants!Next
<1>6. CASE g \in Grant /\ redemptions'[g] = redemptions[g]
  <2>1. redemptions' = redemptions
    <3>1. \A h \in Grant : redemptions'[h] = redemptions[h]
      BY <1>6 DEF Spends
    <3>2. QED
      BY <1>1, <3>1
  <2>2. \/ GrantStates'[g] = GrantStates[g]
        \/ GrantStates[g] = "open" /\ GrantStates'[g] \in {"taken", "void"}
        \/ GrantStates[g] = "taken" /\ GrantStates'[g] = "void"
    <3>1. CASE redemptions[g] > 0 \/ g \notin used
      <4>1. g \notin used => redemptions[g] = 0 /\ GrantStates[g] = "open"
        BY <1>1, <1>6, StateLemma DEF IInv
      <4>2. redemptions[g] > 0 => GrantStates'[g] = GrantStates[g]
        BY <1>6, StateLemma
      <4>3. redemptions[g] = 0 => GrantStates'[g] \in {"open", "taken", "void"}
        BY <1>6, StateLemma
      <4>4. QED
        BY <3>1, <4>1, <4>2, <4>3
    <3>2. CASE redemptions[g] = 0 /\ g \in used
      <4>1. g \in used'
        BY <3>2 DEF Spends
      <4>2. Held(g)' => Held(g)
        <5>1. \A q \in Proc \ {p} : Holding(q)' => Holding(q) /\ req'[q].grant = req[q].grant
          BY DEF Frame, Holding
        <5>2. Holding(p)' => req'[p].grant = g /\ Holding(p)
          BY <3>2 DEF Spends
        <5>3. ASSUME Held(g)' PROVE Held(g)
          <6>1. PICK q \in Proc : Holding(q)' /\ req'[q].grant = g
            BY <5>3 DEF Held
          <6>2. Holding(q) /\ req[q].grant = g
            BY <5>1, <5>2, <6>1
          <6>3. QED
            BY <6>2 DEF Held
        <5>4. QED
          BY <5>3
      <4>3. redemptions'[g] = 0 /\ g \in used /\ g \in Grant
        BY <1>6, <3>2
      <4>4. GrantStates[g] = IF Held(g) THEN "taken" ELSE "void"
        BY <4>3, <3>2, StateLemma
      <4>5. GrantStates'[g] = IF Held(g)' THEN "taken" ELSE "void"
        BY <4>1, <4>3, StateLemma
      <4>6. QED
        BY <4>2, <4>4, <4>5
    <3>3. QED
      BY <1>1, <1>6, <3>1, <3>2
  <2>3. QED
    BY <1>3, <1>6, <2>1, <2>2, MoveOneLemma
<1>7. QED
  BY <1>4, <1>5, <1>6

LEMMA OutsideRefines ==
  ASSUME IInv, IInv', UNCHANGED <<pc, req, redemptions>>,
         used' = used \/ \E g \in Grant : used' = used \cup {g}
  PROVE  Grants!Next \/ UNCHANGED <<GrantStates, redemptions>>
<1>1. \A g \in Grant : Held(g)' <=> Held(g)
  BY DEF Held, Holding
<1>2. CASE used' = used
  <2>1. \A g \in Grant : GrantStates'[g] = GrantStates[g]
    BY <1>1, <1>2, SameLemma
  <2>2. GrantStates' = GrantStates
    BY <2>1 DEF GrantStates
  <2>3. QED
    BY <2>2
<1>3. ASSUME NEW g \in Grant, used' = used \cup {g}, g \notin used
      PROVE  Grants!Next \/ UNCHANGED <<GrantStates, redemptions>>
  <2>1. \A h \in Grant \ {g} : GrantStates'[h] = GrantStates[h]
    BY <1>1, <1>3, SameLemma
  <2>2. redemptions[g] = 0 /\ ~Held(g)
    BY <1>3 DEF IInv, RequestInv, Held
  <2>3. GrantStates[g] = "open" /\ GrantStates'[g] = "void"
    BY <1>1, <1>3, <2>2, StateLemma
  <2>4. QED
    BY <2>1, <2>3, MoveOneLemma
<1>4. QED
  BY <1>2, <1>3

LEMMA InitRefines == Init => Grants!Init
<1> SUFFICES ASSUME Init PROVE Grants!Init
  OBVIOUS
<1>1. \A g \in Grant : GrantStates[g] = "open"
  BY StateLemma DEF Init
<1>2. GrantStates = [g \in Grant |-> "open"]
  BY <1>1 DEF GrantStates
<1>3. QED
  BY <1>2 DEF Init, Grants!Init

LEMMA NextRefines ==
  IInv /\ IInv' /\ [Next]_vars => [Grants!Next]_<<GrantStates, redemptions>>
<1> SUFFICES ASSUME IInv, IInv', [Next]_vars
             PROVE  Grants!Next \/ UNCHANGED <<GrantStates, redemptions>>
  OBVIOUS
<1>1. CASE UNCHANGED vars
  <2>1. UNCHANGED <<pc, req, redemptions>> /\ used' = used
    BY <1>1 DEF vars
  <2>2. QED
    BY <2>1, OutsideRefines
<1>2. ASSUME NEW p \in Proc, Act(p)
      PROVE  Grants!Next \/ UNCHANGED <<GrantStates, redemptions>>
  BY <1>2, ActLemma, ActRefines DEF StepOK
<1>3. QED
  BY <1>1, <1>2, NextCases, OutsideLemma, OutsideRefines

\* Two servers' handling of links, codes and states, statement by statement,
\* implements "good once": every step is one of OneTimeGrant or none.
THEOREM LinksAreOneTime == Spec => EveryGrantIsOneTime
<1>1. Spec => []IInv
  BY LinksInvariant
<1>2. QED
  BY <1>1, InitRefines, NextRefines, PTL DEF Spec, EveryGrantIsOneTime, Grants!Spec

\* However it is redeemed, and raced for, a grant pays once and says so.
THEOREM GoodOnceTheorem == Spec => []Grants!GoodOnce
<1>1. IInv => Grants!GoodOnce
  <2> SUFFICES ASSUME IInv, NEW g \in Grant
               PROVE  redemptions[g] = IF GrantStates[g] = "redeemed" THEN 1 ELSE 0
    BY DEF Grants!GoodOnce
  <2>1. redemptions[g] \in {0, 1}
    BY DEF IInv
  <2>2. QED
    BY <2>1, StateLemma
<1>2. QED
  BY <1>1, LinksInvariant, PTL
-----------------------------------------------------------------------------
(* What a spent link was good for.                                         *)

Needless(u) == status[u] # "PENDING" \/ subject[u] = "taken"

\* p has read an id that its user has no more.
Outdated(p) == req[p].id = "first" /\ subject[Owner(p)] = "moved"

PurposeInv(p) ==
  /\ pc[p] \in {"find", "lockUser"} => KindOf[req[p].grant] = "reset"
  /\ pc[p] \in {"token", "eligible", "activate", "cascade", "attach"} =>
       KindOf[req[p].grant] = "verify"
  /\ ~At(p, "idle") /\ req[p].id = "reserved" => subject[Owner(p)] = "moved"
  /\ At(p, "commit") =>
       \/ req[p].outcome = "redeemed"
       \/ KindOf[req[p].grant] = "verify" /\ Needless(Owner(p))
       \/ KindOf[req[p].grant] = "reset" /\ Outdated(p)

SpentInv ==
  /\ IInv
  /\ \A p \in Proc : PurposeInv(p)
  /\ \A u \in User : subject[u] = "moved" => status[u] # "PENDING"
  /\ VerifySpentOrNeedless

\* Nobody becomes pending again, an id that is somebody's stays so, and a user
\* is given another one once.
LEMMA NeedlessLemma ==
  ASSUME IInv, NEW u \in User, [Next]_vars
  PROVE  /\ Needless(u) => Needless(u)'
         /\ subject[u] = "moved" => subject'[u] = "moved"
         /\ subject'[u] = "moved" => subject[u] = "moved" \/ status'[u] # "PENDING"
         /\ status[u] # "PENDING" => status'[u] # "PENDING"
<1>1. /\ status \in [User -> {"PENDING", "ACTIVE", "SUSPENDED"}]
      /\ subject \in [User -> Subject]
  BY DEF IInv, TypeOK
<1>2. CASE UNCHANGED <<status, subject>>
  BY <1>2 DEF Needless
<1>3. ASSUME NEW v \in User, Suspend(v), UNCHANGED subject
      PROVE  /\ Needless(u) => Needless(u)'
             /\ UNCHANGED subject
             /\ status[u] # "PENDING" => status'[u] # "PENDING"
  BY <1>1, <1>3 DEF Suspend, Needless
<1>4. ASSUME NEW p \in Proc, Commit(p)
      PROVE  /\ Needless(u) => Needless(u)'
             /\ subject[u] = "moved" => subject'[u] = "moved"
             /\ subject'[u] = "moved" => subject[u] = "moved" \/ status'[u] # "PENDING"
             /\ status[u] # "PENDING" => status'[u] # "PENDING"
  <2>1. \/ UNCHANGED subject
        \/ /\ subject[Owner(p)] = "free"
           /\ subject' = [subject EXCEPT ![Owner(p)] = "moved"]
           /\ status' = [status EXCEPT ![Owner(p)] = "ACTIVE"]
    BY <1>4 DEF Commit
  <2>2. UNCHANGED status \/ status' = [status EXCEPT ![Owner(p)] = "ACTIVE"]
    BY <1>4 DEF Commit
  <2>3. QED
    BY <1>1, <2>1, <2>2 DEF Needless
<1>5. \/ UNCHANGED <<status, subject>>
      \/ \E v \in User : Suspend(v) /\ UNCHANGED subject
      \/ \E p \in Proc : Commit(p)
  BY DEF vars, Next, Event, Step, Present, ReplyLost, Fail, Refuse, Evict, FindRow,
         FindNoRow, ReadEligibility, NotEligible, MarkRow, MarkNoRow, ResetPassword,
         ResetNobody, ReadyToCommit, ActivateUser, RenameUser, CascadeRename,
         ActivateNobody, AttachPassword, AttachTwice, BreakDeadlock, GetCode, GetNoCode,
         DropExpired, TakeCode, TakeNothing, ConsumeState, ConsumeNothing, Pay, PayNothing
<1>6. QED
  BY <1>2, <1>3, <1>4, <1>5

\* Where an action of p leads.
LEMMA PurposeLemma ==
  ASSUME SpentInv, NEW p \in Proc, Act(p), StepOK(p)
  PROVE  PurposeInv(p)'
<1>1. /\ TypeOK /\ RequestInv(p) /\ PurposeInv(p)
      /\ pc \in [Proc -> PC] /\ req \in [Proc -> Request] /\ req[p] \in Request
  BY DEF SpentInv, IInv, TypeOK
<1>2. CASE End(p) \/ Refuse(p)
  <2>1. pc'[p] = "idle"
    BY <1>1, <1>2 DEF End, Refuse, Goto
  <2>2. QED
    BY <2>1 DEF PurposeInv, At
<1>3. CASE Present(p)
  <2>1. PICK g \in Grant, f \in {"yes", "no"} :
          /\ req' = [req EXCEPT ![p] = [NoRequest EXCEPT !.grant = g, !.fresh = f]]
          /\ Goto(p, FirstStep(KindOf[g]))
    BY <1>3 DEF Present
  <2>2. req'[p].grant = g /\ req'[p].id = "first" /\ pc'[p] = FirstStep(KindOf[g])
    BY <1>1, <2>1 DEF Goto, NoRequest
  <2>3. KindOf[g] \in Kind
    BY GrantAssumption
  <2>4. QED
    BY <2>2, <2>3 DEF PurposeInv, At, FirstStep, Kind
<1>4. CASE UNCHANGED subject /\ (GetCode(p) \/ TakeCode(p) \/ ConsumeState(p))
  <2>1. /\ req' = req
        /\ pc[p] # "idle"
        /\ pc'[p] \in {"take", "drop", "issue", "resolve"}
    BY <1>1, <1>4 DEF GetCode, TakeCode, ConsumeState, Goto, At
  <2>2. QED
    BY <1>1, <1>4, <2>1 DEF PurposeInv, At, Owner
<1>5. CASE UNCHANGED subject /\ FindRow(p)
  <2>1. /\ pc'[p] \in {"mark", "eligible"}
        /\ pc'[p] = "eligible" => pc[p] = "token"
        /\ req'[p].grant = req[p].grant
        /\ req'[p].id = IdOf(Owner(p))
    BY <1>1, <1>5 DEF FindRow, Goto, At, Request
  <2>2. QED
    BY <1>1, <1>5, <2>1 DEF PurposeInv, At, IdOf, Owner
<1>6. CASE UNCHANGED subject /\ ReadEligibility(p)
  <2>1. /\ pc'[p] = "mark" /\ pc[p] # "idle"
        /\ req'[p].grant = req[p].grant /\ req'[p].id = req[p].id
    BY <1>1, <1>6 DEF ReadEligibility, Goto, At, Request
  <2>2. QED
    BY <1>1, <1>6, <2>1 DEF PurposeInv, At, Owner
<1>7. CASE UNCHANGED subject /\ MarkRow(p)
  <2>1. /\ req' = req /\ pc'[p] = AfterMark(p) /\ pc[p] # "idle"
        /\ KindOf[req[p].grant] \in {"reset", "verify"}
    BY <1>1, <1>7 DEF MarkRow, Goto, RequestInv, At, RowKinds
  <2>2. /\ AfterMark(p) = "lockUser" => KindOf[req[p].grant] = "reset"
        /\ AfterMark(p) \in {"activate", "attach"} => KindOf[req[p].grant] = "verify"
        /\ AfterMark(p) \in {"lockUser", "activate", "attach"}
    BY <1>1, <2>1 DEF AfterMark, Request
  <2>3. QED
    BY <1>1, <1>7, <2>1, <2>2 DEF PurposeInv, At, Owner
<1>8. CASE UNCHANGED subject /\ RenameUser(p)
  <2>1. req' = req /\ pc'[p] = "cascade" /\ pc[p] = "activate"
    BY <1>1, <1>8 DEF RenameUser, Activatable, Goto, At
  <2>2. QED
    BY <1>1, <1>8, <2>1 DEF PurposeInv, At, Owner
<1>9. CASE /\ UNCHANGED subject
           /\ \/ ResetPassword(p) \/ ActivateUser(p) \/ AttachPassword(p)
              \/ CascadeRename(p)
  <2>1. /\ pc'[p] = "commit" /\ pc[p] # "idle"
        /\ req'[p].outcome = "redeemed"
        /\ req'[p].grant = req[p].grant /\ req'[p].id = req[p].id
    BY <1>1, <1>9 DEF ResetPassword, ActivateUser, Activatable, AttachPassword,
                      CascadeRename, ReadyToCommit, Goto, Request, At
  <2>2. QED
    BY <1>1, <1>9, <2>1 DEF PurposeInv, At, Owner
<1>10. CASE UNCHANGED subject /\ (ActivateNobody(p) \/ ResetNobody(p))
  <2>1. /\ ReadyToCommit(p, "void")
        /\ \/ At(p, "activate") /\ (Needless(Owner(p)) \/ ~KnowsUser(p))
           \/ At(p, "lockUser") /\ ~KnowsUser(p)
    BY <1>10 DEF ActivateNobody, ResetNobody, Needless
  <2>2. /\ pc'[p] = "commit" /\ status' = status
        /\ req'[p].grant = req[p].grant /\ req'[p].id = req[p].id
    BY <1>1, <2>1 DEF ReadyToCommit, Goto, Request
  <2>3. Owner(p) \in User /\ req[p].id \in {"first", "reserved"}
    BY <1>1, <2>1, GrantAssumption DEF RequestInv, At, Owner, Request
  <2>4. ~KnowsUser(p) => Outdated(p)
    BY <1>1, <2>1, <2>3 DEF KnowsUser, Outdated, IdOf, PurposeInv, At
  <2>5. Outdated(p) => Needless(Owner(p))
    BY <2>3 DEF Outdated, Needless, SpentInv
  <2>6. \/ KindOf[req[p].grant] = "verify" /\ Needless(Owner(p))
        \/ KindOf[req[p].grant] = "reset" /\ Outdated(p)
    BY <1>1, <2>1, <2>4, <2>5 DEF PurposeInv, At
  <2>7. /\ Owner(p)' = Owner(p)
        /\ Needless(Owner(p))' <=> Needless(Owner(p))
        /\ Outdated(p)' <=> Outdated(p)
    BY <1>10, <2>2 DEF Needless, Outdated, Owner
  <2>8. ~At(p, "idle")
    BY <2>1 DEF At
  <2>9. QED
    BY <1>1, <1>10, <2>2, <2>6, <2>7, <2>8 DEF PurposeInv, At
<1>11. QED
  BY <1>2, <1>3, <1>4, <1>5, <1>6, <1>7, <1>8, <1>9, <1>10
     DEF Act, Step, Fail, FindNoRow, NotEligible, MarkNoRow, AttachTwice, BreakDeadlock,
         Commit, GetNoCode, TakeNothing, ConsumeNothing, PayNothing, Pay, DropExpired,
         ReplyLost

\* A row is spent by the commit of the transaction that marked it.
LEMMA SpentByCommit ==
  ASSUME SpentInv, NEW p \in Proc, Act(p), StepOK(p),
         NEW g \in Grant, g \in used', g \notin used, KindOf[g] \in RowKinds
  PROVE  /\ g = req[p].grant /\ At(p, "commit")
         /\ \/ redemptions'[g] = 1
            \/ KindOf[g] = "verify" /\ Needless(OwnerOf[g])
            \/ KindOf[g] = "reset" /\ Outdated(p)
<1>1. g = req[p].grant /\ Marking(p)
  BY DEF StepOK, Spends
<1>2. used' # used
  OBVIOUS
<1>3. Commit(p)
  BY <1>1, <1>2
     DEF Act, Step, Marking, Present, ReplyLost, Fail, Refuse, FindRow,
         FindNoRow, ReadEligibility, NotEligible, MarkRow, MarkNoRow, ResetPassword,
         ResetNobody, ReadyToCommit, ActivateUser, RenameUser, CascadeRename,
         ActivateNobody, AttachPassword, AttachTwice, BreakDeadlock, GetCode, GetNoCode,
         DropExpired, TakeCode, TakeNothing, ConsumeState, ConsumeNothing, Pay,
         PayNothing, At
<1>4. redemptions[g] = 0 /\ redemptions \in [Grant -> Nat]
  BY DEF SpentInv, IInv, TypeOK
<1>5. CASE req[p].outcome = "redeemed"
  BY <1>1, <1>3, <1>4, <1>5 DEF Commit, Redeemed
<1>6. CASE req[p].outcome # "redeemed"
  BY <1>1, <1>3, <1>6 DEF SpentInv, PurposeInv, Commit, Owner
<1>7. At(p, "commit")
  BY <1>3 DEF Commit
<1>8. QED
  BY <1>1, <1>5, <1>6, <1>7

\* What another step leaves of q's purpose.
LEMMA KeptLemma ==
  ASSUME SpentInv, [Next]_vars, NEW q \in Proc, pc'[q] = pc[q], req'[q] = req[q]
  PROVE  PurposeInv(q)'
<1>1. IInv /\ PurposeInv(q) /\ RequestInv(q)
  BY DEF SpentInv, IInv
<1>2. CASE At(q, "idle")
  BY <1>2 DEF PurposeInv, At
<1>3. CASE ~At(q, "idle")
  <2>1. Owner(q) \in User /\ Owner(q)' = Owner(q)
    BY <1>1, <1>3, GrantAssumption DEF RequestInv, Owner
  <2>2. /\ Needless(Owner(q)) => Needless(Owner(q))'
        /\ subject[Owner(q)] = "moved" => (subject[Owner(q)])' = "moved"
    BY <1>1, <2>1, NeedlessLemma
  <2>3. Outdated(q) => Outdated(q)'
    BY <2>2 DEF Outdated
  <2>4. QED
    BY <1>1, <2>2, <2>3 DEF PurposeInv, At
<1>4. QED
  BY <1>2, <1>3

LEMMA MovedLemma ==
  ASSUME SpentInv, [Next]_vars
  PROVE  \A u \in User : subject'[u] = "moved" => status'[u] # "PENDING"
<1> SUFFICES ASSUME NEW u \in User, subject'[u] = "moved"
             PROVE  status'[u] # "PENDING"
  OBVIOUS
<1>1. IInv /\ (subject[u] = "moved" => status[u] # "PENDING")
  BY DEF SpentInv
<1>2. QED
  BY <1>1, NeedlessLemma

LEMMA SpentActLemma ==
  ASSUME SpentInv, [Next]_vars, NEW p \in Proc, Act(p)
  PROVE  SpentInv'
<1>1. IInv /\ StepOK(p)
  BY ActLemma DEF SpentInv
<1>2. IInv'
  BY <1>1, PreserveLemma DEF StepOK
<1>3. ASSUME NEW q \in Proc PROVE PurposeInv(q)'
  <2>1. CASE q = p
    BY <1>1, <2>1, PurposeLemma
  <2>2. CASE q # p
    <3>1. pc'[q] = pc[q] /\ req'[q] = req[q]
      BY <1>1, <2>2 DEF StepOK, Frame
    <3>2. QED
      BY <3>1, KeptLemma
  <2>3. QED
    BY <2>1, <2>2
<1>4. \A g \in used : g \in Grant /\ (KindOf[g] \in RowKinds => redemptions'[g] = redemptions[g])
  <2> SUFFICES ASSUME NEW g \in used, KindOf[g] \in RowKinds, g \in Grant,
                      redemptions'[g] # redemptions[g]
               PROVE  FALSE
    BY <1>1 DEF IInv, TypeOK
  <2>1. g = req[p].grant /\ (Marking(p) \/ Holding(p))
    BY <1>1 DEF StepOK, Spends
  <2>2. QED
    BY <1>1, <2>1 DEF IInv, RequestInv
<1>5. used' \subseteq Grant
  BY <1>2 DEF IInv, TypeOK
<1>6. VerifySpentOrNeedless'
  <2> SUFFICES ASSUME NEW g \in used', KindOf[g] = "verify", redemptions'[g] = 0
               PROVE  Needless(OwnerOf[g])'
    BY DEF VerifySpentOrNeedless, Needless
  <2>1. Needless(OwnerOf[g])
    <3>1. CASE g \in used
      BY <1>4, <3>1 DEF SpentInv, VerifySpentOrNeedless, RowKinds, Needless
    <3>2. CASE g \notin used
      BY <1>1, <1>5, <3>2, SpentByCommit DEF RowKinds
    <3>3. QED
      BY <3>1, <3>2
  <2>2. QED
    BY <1>1, <1>5, <2>1, NeedlessLemma, GrantAssumption
<1>7. QED
  BY <1>2, <1>3, <1>6, MovedLemma DEF SpentInv

LEMMA SpentOutsideLemma ==
  ASSUME SpentInv, [Next]_vars, UNCHANGED subject,
         (\E g \in Grant : Evict(g)) \/ (\E u \in User : Suspend(u))
  PROVE  SpentInv'
<1>1. IInv
  BY DEF SpentInv
<1>2. IInv' /\ UNCHANGED <<pc, req, redemptions>>
  BY <1>1, OutsideLemma
<1>3. \A g \in used' \ used : KindOf[g] \notin RowKinds
  BY DEF Evict, Suspend, Remove, RowKinds
<1>4. \A q \in Proc : PurposeInv(q)'
  BY <1>2, KeptLemma
<1>5. VerifySpentOrNeedless'
  <2> SUFFICES ASSUME NEW g \in used', KindOf[g] = "verify", redemptions'[g] = 0
               PROVE  Needless(OwnerOf[g])'
    BY DEF VerifySpentOrNeedless, Needless
  <2>1. g \in used /\ g \in Grant
    BY <1>2, <1>3 DEF RowKinds, IInv, TypeOK
  <2>2. Needless(OwnerOf[g])
    BY <1>2, <2>1 DEF SpentInv, VerifySpentOrNeedless, Needless
  <2>3. QED
    BY <1>1, <2>1, <2>2, NeedlessLemma, GrantAssumption
<1>6. QED
  BY <1>2, <1>4, <1>5, MovedLemma DEF SpentInv

LEMMA SpentInitLemma == Init => SpentInv
<1> SUFFICES ASSUME Init PROVE SpentInv
  OBVIOUS
<1>1. \A p \in Proc : PurposeInv(p)
  BY DEF Init, PurposeInv, At
<1>2. \A u \in User : subject[u] # "moved"
  BY DEF Init
<1>3. QED
  BY <1>1, <1>2, InitLemma DEF Init, SpentInv, VerifySpentOrNeedless

LEMMA SpentStepLemma == SpentInv /\ [Next]_vars => SpentInv'
<1> SUFFICES ASSUME SpentInv, [Next]_vars PROVE SpentInv'
  OBVIOUS
<1>1. CASE UNCHANGED vars
  <2>1. IInv'
    BY StepLemma DEF SpentInv
  <2>2. QED
    BY <1>1, <2>1, MovedLemma DEF vars, SpentInv, PurposeInv, Needless, Outdated, Owner,
       At, VerifySpentOrNeedless
<1>2. QED
  BY <1>1, NextCases, SpentActLemma, SpentOutsideLemma

LEMMA SpentInvariant == Spec => []SpentInv
  BY SpentInitLemma, SpentStepLemma, PTL DEF Spec

\* A step that spends a reset link gives its user the new password, or is the
\* commit of a request whose user got another id after it had read the token:
\* no failure between mark and commit, and no other request, loses a link.
THEOREM ResetLostTheorem == Spec => ResetLostOnlyToRename
<1>1. SpentInv /\ [Next]_vars =>
        [\A g \in used' \ used : KindOf[g] = "reset" =>
           \/ redemptions'[g] = 1
           \/ \E p \in Proc : req[p].grant = g /\ At(p, "commit") /\ ~KnowsUser(p)]_vars
  <2> SUFFICES ASSUME SpentInv, [Next]_vars, NEW g \in used' \ used, KindOf[g] = "reset"
               PROVE  \/ redemptions'[g] = 1
                      \/ \E p \in Proc : req[p].grant = g /\ At(p, "commit") /\ ~KnowsUser(p)
    OBVIOUS
  <2>1. g \in Grant /\ KindOf[g] \in RowKinds
    BY StepLemma DEF SpentInv, IInv, TypeOK, RowKinds
  <2>2. \E p \in Proc : Act(p)
    <3>1. ~UNCHANGED vars
      BY DEF vars
    <3>2. ASSUME \/ \E h \in Grant : Evict(h)
                 \/ \E u \in User : Suspend(u)
          PROVE  FALSE
      BY <2>1, <3>2 DEF Evict, Suspend, Remove, RowKinds
    <3>3. QED
      BY <3>1, <3>2, NextCases
  <2>3. PICK p \in Proc : Act(p)
    BY <2>2
  <2>4. StepOK(p)
    BY <2>3, ActLemma DEF SpentInv
  <2>5. /\ g = req[p].grant /\ At(p, "commit")
        /\ redemptions'[g] = 1 \/ Outdated(p)
    BY <2>1, <2>3, <2>4, SpentByCommit
  <2>6. Outdated(p) => ~KnowsUser(p)
    BY DEF Outdated, KnowsUser, IdOf
  <2>7. QED
    BY <2>5, <2>6
<1>2. QED
  BY <1>1, SpentInvariant, PTL DEF Spec, ResetLostOnlyToRename

\* A verification link is spent without effect only on a user who is no longer
\* pending, or cannot be activated, although eligibility is read before its mark.
THEOREM VerifySpentTheorem == Spec => []VerifySpentOrNeedless
<1>1. SpentInv => VerifySpentOrNeedless
  BY DEF SpentInv
<1>2. QED
  BY <1>1, SpentInvariant, PTL
=============================================================================
