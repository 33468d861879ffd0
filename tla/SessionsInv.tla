----------------------------- MODULE SessionsInv -----------------------------
(***************************************************************************)
(* What holds of every request of module Sessions between two of its       *)
(* statements: the inductive invariant IInv the proofs stand on, in named  *)
(* parts, each about one request p, and WaitInv, about who waits for whom. *)
(***************************************************************************)
EXTENDS Sessions

\* What each kind of request carries, and the statements it consists of.
RequestInv(p) ==
  LET r == req[p]
  IN \/ r = NoRequest /\ pc[p] = "idle"
     \/ /\ r.kind = "issue"
        /\ pc[p] \in {"lockActive", "insert", "commit"}
        /\ r.user \in User /\ r.token = None /\ r.status = None /\ ~r.fresh
     \/ /\ r.kind = "rotate"
        /\ pc[p] \in {"read", "lockActive", "revoke", "insert", "commit"}
        /\ r.token \in Token /\ r.status = None
        /\ row[r.token].state # "unused"
        /\ pc[p] # "read" => r.user = row[r.token].user
     \/ /\ r.kind = "logout"
        /\ pc[p] = "logout"
        /\ r.token \in Token /\ r.status = None /\ ~r.fresh
     \/ /\ r.kind = "setStatus"
        /\ pc[p] \in {"update", "lockAny", "snapshot", "rows", "audit", "commit"}
        /\ r.user \in User /\ r.actor \in User /\ r.token = None
        /\ r.status \in Status /\ ~r.fresh
        /\ pc[p] \in {"lockAny", "snapshot", "rows"} => r.status \in Barred
     \/ /\ r.kind = "revokeSessions"
        /\ pc[p] \in {"lockAny", "snapshot", "rows", "audit", "commit"}
        /\ r.user \in User /\ r.actor \in User /\ r.token = None
        /\ r.status = None /\ ~r.fresh
     \/ /\ r.kind = "cleanup"
        /\ pc[p] \in {"snapshot", "rows", "commit"}
        /\ r.user = None /\ r.token = None /\ r.status = None /\ ~r.fresh

\* The user row is locked from the first statement that locks it on, and an
\* inserting request holds it with the user ACTIVE.
LockInv(p) ==
  /\ \/ pc[p] \in {"revoke", "insert"}
     \/ pc[p] = "commit" /\ req[p].kind \in {"issue", "rotate"}
     => writer[req[p].user] = p /\ status[req[p].user] = "ACTIVE"
  /\ \/ req[p].kind = "setStatus" /\ pc[p] # "update"
     \/ req[p].kind = "revokeSessions" /\ pc[p] # "lockAny"
     => writer[req[p].user] = p

WriteInv(p) ==
  /\ ws[p].status = IF req[p].kind = "setStatus" /\ pc[p] # "update"
                    THEN req[p].status ELSE None
  /\ \A n \in ws[p].inserted :
       /\ pc[p] = "commit" /\ req[p].kind \in {"issue", "rotate"}
       /\ row[n].state = "unused"
       /\ ws[p].inserted = {n}
       /\ \A q \in Proc \ {p} : n \notin ws[q].inserted
  /\ pc[p] = "commit" /\ req[p].kind \in {"issue", "rotate"} => ws[p].inserted # {}
  /\ \A t \in ws[p].ended :
       /\ rowLock[t] = p
       /\ req[p].kind = "cleanup" => t \in Retired
       /\ req[p].kind # "cleanup" => row[t].state = "live" /\ row[t].user = req[p].user
  /\ req[p].kind = "rotate" =>
       ws[p].ended = IF pc[p] \in {"insert", "commit"} THEN {req[p].token} ELSE {}
  /\ ws[p].ended # {} => req[p].kind = "rotate" \/ pc[p] \in {"rows", "audit", "commit"}
  /\ req[p].kind = "issue" => ws[p].ended = {}
  /\ req[p].kind = "setStatus" /\ ~Revoking(p) => ws[p].ended = {}
  /\ pc[p] # "rows" => todo[p] = {}
  /\ req[p].kind = "cleanup" => \A t \in todo[p] : t \in Retired \/ row[t].state = "deleted"
  /\ req[p].kind # "cleanup" =>
       \A t \in todo[p] : row[t].state # "unused" /\ row[t].user = req[p].user
  /\ Revoking(p) /\ pc[p] = "rows" => LiveOf(req[p].user) \subseteq todo[p] \cup ws[p].ended
  /\ Revoking(p) /\ pc[p] \in {"audit", "commit"} => LiveOf(req[p].user) \subseteq ws[p].ended

\* Every row that was ever inserted belongs to a user and keeps its parent.
RowInv ==
  /\ \A t \in Token : row[t].state # "unused" => row[t].user \in User
  /\ \A t \in Token : row[t].state = "unused" => row[t].parent = None

IInv ==
  /\ TypeOK
  /\ RowInv
  /\ \A p \in Proc : RequestInv(p) /\ LockInv(p) /\ WriteInv(p)

\* A request that has not passed its first lock on a user holds nothing.
HoldsNothing(p) ==
  pc[p] \in {"idle", "read", "lockActive", "logout"} =>
    /\ \A u \in User : writer[u] # p /\ p \notin share[u]
    /\ \A t \in Token : rowLock[t] # p

\* Token rows are locked by those who end them.
LocksEndRows == \A t \in Token : rowLock[t] # None => t \in ws[rowLock[t]].ended

\* The retention job holds no row that a refresh under way could still redeem.
SparesFresh(p) ==
  req[p].kind = "cleanup" =>
    \A t \in todo[p] \cup ws[p].ended, q \in Proc :
      req[q].fresh /\ req[q].token = t => row[t].state # "live"

\* Who can wait for whom: what SessionRequestsNeverDeadlock rests on.
WaitInv ==
  /\ LocksEndRows
  /\ \A p \in Proc : HoldsNothing(p) /\ SparesFresh(p)
=============================================================================
