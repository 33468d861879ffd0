---------------------------- MODULE AuthHandoff ----------------------------
(***************************************************************************)
(* Signing in by redirect: one-time keys in Redis that carry a sign-in     *)
(* from the browser's redirect to the client's session.                    *)
(*                                                                         *)
(*   oauth_start --state--> provider --> oauth_callback --code--> exchange *)
(*   login with a handoff -----------------------------code--> exchange    *)
(*                                                                         *)
(* A sign-in is one attempt: its client, redirect URI and PKCE verifier    *)
(* are the binding that its state and its code are stored with, and no two *)
(* attempts share it.  A key is a random string a server draws; Redis maps *)
(* it to the sign-in whose record it holds.  Servers run requests          *)
(* concurrently, every Redis command is one step, and a command whose      *)
(* reply is lost has had its effect all the same.                          *)
(*                                                                         *)
(* The session an exchange ends in is an atomic step of SessionStore, as   *)
(* module Sessions justifies.  Out of the model: losing Redis's data, and  *)
(* a provider that answers for a different person than the one it was      *)
(* asked about.                                                            *)
(***************************************************************************)
EXTENDS SessionStore, Naturals

CONSTANTS Key,      \* strings _random_base64url may draw
          SignIn,   \* sign-in attempts
          Proc,     \* requests in flight at the same time
          Server,   \* server processes, each with its own Redis client
          MaxDraws, \* _MAX_GENERATION_ATTEMPTS
          Statuses  \* bound: the statuses administrators give users

ASSUME HandoffAssumption ==
  /\ None \notin Key \cup SignIn \cup Proc \cup Server
  /\ MaxDraws \in Nat \ {0}
  /\ Statuses \subseteq Status

VARIABLES states,  \* Redis: the record of each OAuth state key
          codes,   \* Redis: the record of each handoff code key
          stale,   \* sign-ins whose code has outlived expiresAtEpochMs
          begun,   \* sign-ins that have started
          who,     \* the user each sign-in was resolved to: record.userId
          sent,    \* keys a browser has been redirected with
          pc, req, draws,
          ready,   \* each server's RedisStateStore._ready
          by       \* history: the sign-in each session was exchanged for

redis == <<states, codes>>
vars == <<storeVars, redis, stale, begun, who, sent, pc, req, draws, ready, by>>

PC == {"idle", "setState", "consumeState", "resolve", "setCode",
       "get", "drop", "take", "issue"}

\* signIn: whose binding the request carries.  found: the record it has read.
Request == [server: Server \cup {None}, signIn: SignIn \cup {None},
            key: Key \cup {None}, found: SignIn \cup {None},
            sameProvider: BOOLEAN]

NoRequest == [server |-> None, signIn |-> None, key |-> None, found |-> None,
              sameProvider |-> TRUE]

TypeOK ==
  /\ StoreTypeOK
  /\ states \in [Key -> SignIn \cup {None}]
  /\ codes \in [Key -> SignIn \cup {None}]
  /\ stale \in SUBSET SignIn
  /\ begun \in SUBSET SignIn
  /\ who \in [SignIn -> User \cup {None}]
  /\ sent \in [state: SUBSET Key, code: SUBSET Key]
  /\ pc \in [Proc -> PC]
  /\ req \in [Proc -> Request]
  /\ draws \in [Proc -> 0..MaxDraws]
  /\ ready \in [Server -> BOOLEAN]
  /\ by \in [Token -> SignIn \cup {None}]

Init ==
  /\ StoreInit
  /\ status = [u \in User |-> "ACTIVE"]
  /\ states = [k \in Key |-> None]
  /\ codes = [k \in Key |-> None]
  /\ stale = {}
  /\ begun = {}
  /\ who = [i \in SignIn |-> None]
  /\ sent = [state |-> {}, code |-> {}]
  /\ pc = [p \in Proc |-> "idle"]
  /\ req = [p \in Proc |-> NoRequest]
  /\ draws = [p \in Proc |-> 0]
  /\ ready = [s \in Server |-> TRUE]
  /\ by = [n \in Token |-> None]
-----------------------------------------------------------------------------
(* What the Redis commands and scripts do to a table of records.           *)

\* SET key value NX EX ttl
SetIfAbsent(table, k, i) == [table EXCEPT ![k] = IF @ = None THEN i ELSE @]

\* Mutant: the script reads and does not delete.
ReadOnly(table, k) == table

\* _CONSUME_SCRIPT: GET, then DEL.
Consume(table, k) == [table EXCEPT ![k] = None]

\* Mutant: the script deletes whatever the key holds by now.
ConsumeAny(table, k, raw) == Consume(table, k)

\* _CONSUME_IF_EXACT_SCRIPT: DEL only the value that was read before.
ConsumeIfExact(table, k, raw) == [table EXCEPT ![k] = IF @ = raw THEN None ELSE @]
-----------------------------------------------------------------------------
At(p, label) == pc[p] = label
Goto(p, label) == pc' = [pc EXCEPT ![p] = label]

End(p) ==
  /\ Goto(p, "idle")
  /\ req' = [req EXCEPT ![p] = NoRequest]
  /\ draws' = [draws EXCEPT ![p] = 0]

Arrive(p, r, label) ==
  /\ At(p, "idle")
  /\ \E s \in Server : req' = [req EXCEPT ![p] = [r EXCEPT !.server = s]]
  /\ Goto(p, label)
  /\ UNCHANGED <<storeVars, redis, stale, sent, draws, ready, by>>

\* oauth_start, after its checks of client, redirect URI and challenge.
StartOAuth(p) ==
  \E i \in SignIn \ begun :
    /\ begun' = begun \cup {i}
    /\ Arrive(p, [NoRequest EXCEPT !.signIn = i], "setState")
    /\ UNCHANGED who

\* login with a handoff, once the password is verified; the confirmation of an
\* e-mail address for a client ends the same way.
StartPasswordSignIn(p) ==
  \E i \in SignIn \ begun, u \in User :
    /\ status[u] = "ACTIVE"
    /\ begun' = begun \cup {i}
    /\ who' = [who EXCEPT ![i] = u]
    /\ Arrive(p, [NoRequest EXCEPT !.signIn = i], "setCode")

\* The provider sends the browser back; it may do so again, and the state may
\* be presented at another provider's callback.
StartCallback(p) ==
  \E k \in sent.state, same \in BOOLEAN :
    /\ Arrive(p, [NoRequest EXCEPT !.key = k, !.sameProvider = same], "consumeState")
    /\ UNCHANGED <<begun, who>>

\* POST /auth/exchange: any client presents any code it was sent.
StartExchange(p) ==
  \E k \in sent.code, i \in begun :
    /\ Arrive(p, [NoRequest EXCEPT !.key = k, !.signIn = i], "get")
    /\ UNCHANGED <<begun, who>>
-----------------------------------------------------------------------------
(* Redis steps whose reply arrives.                                        *)

Ready(p) == ready[req[p].server]

\* The drawn key was taken: draw another, up to MaxDraws in all.
Redraw(p) ==
  IF draws[p] + 1 < MaxDraws
  THEN /\ draws' = [draws EXCEPT ![p] = @ + 1]
       /\ UNCHANGED <<pc, req>>
  ELSE End(p)

CreateState(p) ==
  /\ At(p, "setState")
  /\ Ready(p)
  /\ \E k \in Key :
       /\ states' = SetIfAbsent(states, k, req[p].signIn)
       /\ \/ /\ states[k] = None
             /\ sent' = [sent EXCEPT !.state = @ \cup {k}]
             /\ End(p)
          \/ /\ states[k] # None
             /\ Redraw(p)
             /\ UNCHANGED sent
  /\ UNCHANGED <<storeVars, codes, stale, begun, who, ready, by>>

\* OAuthStateStore.consume: a record of another provider is lost with it.
ConsumeState(p) ==
  /\ At(p, "consumeState")
  /\ Ready(p)
  /\ states' = Consume(states, req[p].key)
  /\ LET raw == states[req[p].key]
     IN \/ /\ raw # None /\ req[p].sameProvider
           /\ req' = [req EXCEPT ![p].signIn = raw]
           /\ Goto(p, "resolve")
           /\ UNCHANGED draws
        \/ /\ raw = None \/ ~req[p].sameProvider
           /\ End(p)
  /\ UNCHANGED <<storeVars, codes, stale, begun, who, sent, ready, by>>

CreateCode(p) ==
  /\ At(p, "setCode")
  /\ Ready(p)
  /\ \E k \in Key :
       /\ codes' = SetIfAbsent(codes, k, req[p].signIn)
       /\ \/ /\ codes[k] = None
             /\ sent' = [sent EXCEPT !.code = @ \cup {k}]
             /\ End(p)
          \/ /\ codes[k] # None
             /\ Redraw(p)
             /\ UNCHANGED sent
  /\ UNCHANGED <<storeVars, states, stale, begun, who, ready, by>>

\* Mutant: the challenge is not compared.
BindsAnyone(p, i) == TRUE

\* AuthHandoffStore.consume: the binding is checked before anything is spent.
Binds(p, i) == i = req[p].signIn

GetCode(p) ==
  /\ At(p, "get")
  /\ Ready(p)
  /\ LET raw == codes[req[p].key]
     IN \/ /\ raw # None
           /\ (raw \in stale \/ Binds(p, raw))
           /\ req' = [req EXCEPT ![p].found = raw]
           /\ Goto(p, IF raw \in stale THEN "drop" ELSE "take")
           /\ UNCHANGED draws
        \/ /\ raw = None \/ (raw \notin stale /\ ~Binds(p, raw))
           /\ End(p)
  /\ UNCHANGED <<storeVars, redis, stale, begun, who, sent, ready, by>>

DropExpired(p) ==
  /\ At(p, "drop")
  /\ Ready(p)
  /\ codes' = ConsumeIfExact(codes, req[p].key, req[p].found)
  /\ End(p)
  /\ UNCHANGED <<storeVars, states, stale, begun, who, sent, ready, by>>

\* Mutant: the record read before is used whether or not the script deleted it.
TakeCodeUnchecked(p) ==
  /\ At(p, "take")
  /\ Ready(p)
  /\ codes' = ConsumeIfExact(codes, req[p].key, req[p].found)
  /\ Goto(p, "issue")
  /\ UNCHANGED <<storeVars, states, stale, begun, who, sent, req, draws, ready, by>>

TakeCode(p) ==
  /\ At(p, "take")
  /\ Ready(p)
  /\ codes' = ConsumeIfExact(codes, req[p].key, req[p].found)
  /\ \/ /\ codes[req[p].key] = req[p].found
        /\ Goto(p, "issue")
        /\ UNCHANGED <<req, draws>>
     \/ /\ codes[req[p].key] # req[p].found
        /\ End(p)
  /\ UNCHANGED <<storeVars, states, stale, begun, who, sent, ready, by>>
-----------------------------------------------------------------------------
(* Redis steps that fail.                                                  *)

\* The effect of p's command when no reply tells p of it.
Unanswered(p) ==
  \/ /\ At(p, "setState")
     /\ \E k \in Key : states' = SetIfAbsent(states, k, req[p].signIn)
     /\ UNCHANGED codes
  \/ /\ At(p, "setCode")
     /\ \E k \in Key : codes' = SetIfAbsent(codes, k, req[p].signIn)
     /\ UNCHANGED states
  \/ /\ At(p, "consumeState")
     /\ states' = Consume(states, req[p].key)
     /\ UNCHANGED codes
  \/ /\ pc[p] \in {"drop", "take"}
     /\ codes' = ConsumeIfExact(codes, req[p].key, req[p].found)
     /\ UNCHANGED states

\* _execute: a timeout or a broken connection, after the command or before it,
\* closes this server's client until a probe reopens it.
LostReply(p) ==
  /\ pc[p] \in PC \ {"idle", "resolve", "issue"}
  /\ Ready(p)
  /\ ready' = [ready EXCEPT ![req[p].server] = FALSE]
  /\ Unanswered(p) \/ UNCHANGED redis
  /\ End(p)
  /\ UNCHANGED <<storeVars, stale, begun, who, sent, by>>

NotReady(p) ==
  /\ pc[p] \in PC \ {"idle", "resolve", "issue"}
  /\ ~Ready(p)
  /\ End(p)
  /\ UNCHANGED <<storeVars, redis, stale, begun, who, sent, ready, by>>

\* The readiness route pings Redis and believes the answer.
Probe(s) ==
  /\ \E answer \in BOOLEAN : ready' = [ready EXCEPT ![s] = answer]
  /\ UNCHANGED <<storeVars, redis, stale, begun, who, sent, pc, req, draws, by>>
-----------------------------------------------------------------------------
(* PostgreSQL steps.                                                       *)

\* The provider's profile names an ACTIVE user, existing or new.
ResolveUser(p) ==
  /\ At(p, "resolve")
  /\ \E u \in User :
       /\ status[u] = "ACTIVE"
       /\ who' = [who EXCEPT ![req[p].signIn] = u]
  /\ Goto(p, "setCode")
  /\ UNCHANGED <<storeVars, redis, stale, begun, sent, req, draws, ready, by>>

\* _issue_pair for the user of the record, under the client's eyes only.
IssueSession(p) ==
  /\ At(p, "issue")
  /\ \E n \in Token :
       /\ Issue(who[req[p].found], n)
       /\ by' = [by EXCEPT ![n] = req[p].signIn]
  /\ End(p)
  /\ UNCHANGED <<redis, stale, begun, who, sent, ready>>

\* Mutant: a code whose exchange was refused is put back.
ReturnCode(p) ==
  /\ At(p, "issue")
  /\ status[who[req[p].found]] # "ACTIVE"
  /\ codes' = SetIfAbsent(codes, req[p].key, req[p].found)
  /\ End(p)
  /\ UNCHANGED <<storeVars, states, stale, begun, who, sent, ready, by>>

\* The user is no longer ACTIVE: the request fails and the code stays spent.
RefuseSession(p) ==
  /\ At(p, "issue")
  /\ status[who[req[p].found]] # "ACTIVE"
  /\ End(p)
  /\ UNCHANGED <<storeVars, redis, stale, begun, who, sent, ready, by>>

\* A provider or database error, or the loss of the server process.
Fail(p) ==
  /\ ~At(p, "idle")
  /\ End(p)
  /\ UNCHANGED <<storeVars, redis, stale, begun, who, sent, ready, by>>
-----------------------------------------------------------------------------
(* Time, and the administrators.                                           *)

\* expiresAtEpochMs is taken before the SET: it comes before Redis's own TTL.
Lapse(i) ==
  /\ \E k \in Key : codes[k] = i
  /\ stale' = stale \cup {i}
  /\ UNCHANGED <<storeVars, redis, begun, who, sent, pc, req, draws, ready, by>>

Evict(k) ==
  /\ \/ /\ states' = [states EXCEPT ![k] = None]
        /\ UNCHANGED codes
     \/ /\ codes[k] \in stale
        /\ codes' = [codes EXCEPT ![k] = None]
        /\ UNCHANGED states
  /\ UNCHANGED <<storeVars, stale, begun, who, sent, pc, req, draws, ready, by>>

Administer ==
  /\ \E u \in User, s \in Statuses : SetStatus(u, s)
  /\ UNCHANGED <<redis, stale, begun, who, sent, pc, req, draws, ready, by>>

Start(p) ==
  \/ StartOAuth(p)
  \/ StartPasswordSignIn(p)
  \/ StartCallback(p)
  \/ StartExchange(p)

Step(p) ==
  \/ CreateState(p)
  \/ ConsumeState(p)
  \/ CreateCode(p)
  \/ GetCode(p)
  \/ DropExpired(p)
  \/ TakeCode(p)
  \/ NotReady(p)
  \/ ResolveUser(p)
  \/ IssueSession(p)
  \/ RefuseSession(p)

Next ==
  \/ \E p \in Proc : Start(p) \/ Step(p) \/ LostReply(p) \/ Fail(p)
  \/ \E s \in Server : Probe(s)
  \/ \E i \in SignIn : Lapse(i)
  \/ \E k \in Key : Evict(k)
  \/ Administer

Spec == Init /\ [][Next]_vars
-----------------------------------------------------------------------------
(* Where a sign-in is: the one thing that carries it on, while there is one. *)

StateKeys(i) == {k \in Key : states[k] = i}
Doing(i, labels) == {p \in Proc : pc[p] \in labels /\ req[p].signIn = i}
CodeKeys(i) == {k \in Key : codes[k] = i}
Claims(i) == {p \in Proc : At(p, "issue") /\ req[p].found = i}
SessionsOf(i) == {n \in Token : by[n] = i}

Stage(i) ==
  IF i \notin begun THEN 0
  ELSE IF Doing(i, {"setState"}) # {} THEN 1
  ELSE IF StateKeys(i) # {} THEN 2
  ELSE IF Doing(i, {"resolve"}) # {} THEN 3
  ELSE IF Doing(i, {"setCode"}) # {} THEN 4
  ELSE IF CodeKeys(i) # {} THEN 5
  ELSE IF Claims(i) # {} THEN 6
  ELSE IF SessionsOf(i) # {} THEN 7
  ELSE 8

\* The requests that carry i on: a redirect being made, a code being redeemed.
Requests(i) == Doing(i, {"setState", "resolve", "setCode"}) \cup Claims(i)

AtMostOne(S) == \A x, y \in S : x = y

OneCarrier(i) ==
  /\ AtMostOne(StateKeys(i))
  /\ AtMostOne(Requests(i))
  /\ AtMostOne(CodeKeys(i))
  /\ AtMostOne(SessionsOf(i))
  /\ StateKeys(i) # {} => Requests(i) \cup CodeKeys(i) \cup SessionsOf(i) = {}
  /\ Requests(i) # {} => CodeKeys(i) \cup SessionsOf(i) = {}
  /\ CodeKeys(i) # {} => SessionsOf(i) = {}

NoCarrier(i) == StateKeys(i) \cup Requests(i) \cup CodeKeys(i) \cup SessionsOf(i) = {}

\* A code, and what comes of it, knows the user of its sign-in.
UserKnown(i) ==
  Doing(i, {"setCode"}) \cup CodeKeys(i) \cup Claims(i) # {} => who[i] \in User

\* What a request still has to act on.
RequestInv(p) ==
  /\ pc[p] \in {"consumeState", "get", "drop", "take"} => req[p].key \in Key
  /\ pc[p] \in {"setState", "resolve", "setCode", "get"} => req[p].signIn \in begun
  /\ pc[p] \in {"drop", "take", "issue"} => req[p].found \in begun
  /\ At(p, "drop") => req[p].found \in stale
  /\ pc[p] \in {"take", "issue"} => req[p].signIn = req[p].found

SessionInv(n) ==
  by[n] # None => row[n].state # "unused" /\ row[n].user = who[by[n]]

IInv ==
  /\ TypeOK
  /\ \A i \in SignIn : OneCarrier(i) /\ UserKnown(i)
  /\ \A i \in SignIn \ begun : NoCarrier(i)
  /\ \A p \in Proc : RequestInv(p)
  /\ \A n \in Token : SessionInv(n)

\* A sign-in ends in at most one session, however often its state or code is
\* presented, at whichever server, with whatever replies lost on the way.
OneSessionPerSignIn ==
  \A m, n \in Token : by[m] # None /\ by[m] = by[n] => m = n

\* PKCE: whoever holds the verifier of a sign-in gets the session of the user
\* who signed in there, never one opened by another sign-in.
SessionOfOwnSignIn ==
  \A n \in Token : by[n] # None => row[n].user = who[by[n]]

\* A live code leaves Redis only by the exchange of its own client: a wrong
\* binding, a late cleanup or a colliding draw does not spend it.
LiveCodeSpentOnlyByItsClient ==
  [][\A k \in Key :
       codes[k] # None /\ codes'[k] # codes[k] =>
         \/ codes[k] \in stale
         \/ \E p \in Proc : /\ At(p, "take")
                            /\ req[p].key = k
                            /\ req[p].signIn = codes[k]]_vars

\* A sign-in never goes back: a consumed state or code is not usable again,
\* whatever fails after it was consumed, and a sign-in that was lost is over.
SignInNeverGoesBack == [][\A i \in SignIn : Stage(i)' >= Stage(i)]_vars
=============================================================================
