---------------------------- MODULE SessionStore ----------------------------
(***************************************************************************)
(* What the refresh-token sessions of the SSO server promise, with every   *)
(* request atomic.  A session is one row of the RefreshToken table; a row  *)
(* is "unused" before its INSERT commits and "deleted" once the retention  *)
(* job has removed it.  `parent' is the row a rotation replaced.           *)
(*                                                                         *)
(* The statement-by-statement behaviour, with its locks, interleavings and *)
(* failures, is module Sessions, which implements this one.  Components    *)
(* that only use sessions (login, account changes) are built on this one.  *)
(***************************************************************************)

CONSTANTS User,     \* rows of the User table
          Token,    \* rows the RefreshToken table may ever hold
          None      \* no user, no token, no status: Python's None

VARIABLES status,   \* status[u]: the committed "User".status
          row,      \* row[t]: the committed RefreshToken row
          expired   \* tokens whose expiresAt has passed

storeVars == <<status, row, expired>>

Status == {"ACTIVE", "PENDING_EMAIL_VERIFICATION", "SUSPENDED", "DELETED"}

\* should_revoke_for_status: the statuses whose arrival ends every session.
Barred == {"SUSPENDED", "DELETED"}

ASSUME StoreAssumption == None \notin User \cup Token \cup Status

Row == [state: {"unused", "live", "revoked", "deleted"},
        user: User \cup {None}, parent: Token \cup {None}]

Unused == [state |-> "unused", user |-> None, parent |-> None]

\* Tokens of u with revokedAt null.  An expired token may be among them.
LiveOf(u) == {t \in Token : row[t].state = "live" /\ row[t].user = u}

\* Rows the retention job may delete: revoked, or past their expiry.
Retired == {t \in Token : \/ row[t].state = "revoked"
                          \/ row[t].state = "live" /\ t \in expired}

\* The row table with the tokens of S moved to state s.
Moved(S, s) == [t \in Token |-> IF t \in S THEN [row[t] EXCEPT !.state = s]
                                           ELSE row[t]]

StoreTypeOK ==
  /\ status \in [User -> Status]
  /\ row \in [Token -> Row]
  /\ expired \in SUBSET Token
-----------------------------------------------------------------------------
StoreInit ==
  /\ status \in [User -> Status]
  /\ row = [t \in Token |-> Unused]
  /\ expired = {}

\* Login, code exchange and e-mail confirmation end in one new session.
Issue(u, n) ==
  /\ status[u] = "ACTIVE"
  /\ row[n].state = "unused"
  /\ row' = [row EXCEPT ![n] = [state |-> "live", user |-> u, parent |-> None]]
  /\ UNCHANGED <<status, expired>>

\* A refresh: the presented token is revoked and replaced in one step.
Rotate(t, n) ==
  /\ row[t].state = "live"
  /\ row[t].user \in User
  /\ status[row[t].user] = "ACTIVE"
  /\ row[n].state = "unused"
  /\ row' = [Moved({t}, "revoked") EXCEPT ![n] =
               [state |-> "live", user |-> row[t].user, parent |-> t]]
  /\ UNCHANGED <<status, expired>>

Revoke(t) ==
  /\ row[t].state = "live"
  /\ row' = Moved({t}, "revoked")
  /\ UNCHANGED <<status, expired>>

RevokeAll(u) ==
  /\ row' = Moved(LiveOf(u), "revoked")
  /\ UNCHANGED <<status, expired>>

SetStatus(u, s) ==
  /\ status' = [status EXCEPT ![u] = s]
  /\ row' = IF s \in Barred THEN Moved(LiveOf(u), "revoked") ELSE row
  /\ UNCHANGED expired

Purge(S) ==
  /\ S \subseteq Retired
  /\ row' = Moved(S, "deleted")
  /\ UNCHANGED <<status, expired>>

Expire(t) ==
  /\ row[t].state # "unused"
  /\ t \notin expired
  /\ expired' = expired \cup {t}
  /\ UNCHANGED <<status, row>>

StoreNext ==
  \/ \E u \in User, n \in Token : Issue(u, n)
  \/ \E t, n \in Token : Rotate(t, n)
  \/ \E t \in Token : Revoke(t)
  \/ \E u \in User : RevokeAll(u)
  \/ \E u \in User, s \in Status : SetStatus(u, s)
  \/ \E S \in SUBSET Token : Purge(S)
  \/ \E t \in Token : Expire(t)

StoreSpec == StoreInit /\ [][StoreNext]_storeVars
-----------------------------------------------------------------------------
\* A suspended or deleted user holds no live refresh token: the status change
\* and the revocation are one transaction and no new session slips past it.
BarredUserHasNoLiveSession ==
  \A t \in Token : row[t].state = "live" => status[row[t].user] \notin Barred

\* A refresh token is redeemed at most once: no two rows replace the same one,
\* and a row that has been replaced is itself no longer live.
OneSuccessorPerToken ==
  /\ \A t, n \in Token :
       row[t].parent # None /\ row[t].parent = row[n].parent => t = n
  /\ \A t, n \in Token : row[n].parent = t => row[t].state # "live"

\* Revocation and deletion are final: no later request makes a dead session
\* usable again or moves a session to another user.
DeadSessionsStayDead ==
  [][\A t \in Token :
       /\ row[t].state = "revoked" => row'[t].state \in {"revoked", "deleted"}
       /\ row[t].state = "deleted" => row'[t].state = "deleted"
       /\ row[t].state # "unused" => row'[t].user = row[t].user]_storeVars
=============================================================================
