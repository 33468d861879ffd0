--------------------------- MODULE OidcFlowProofs ---------------------------
(***************************************************************************)
(* Proofs about OidcFlow: IInv is an inductive invariant, so a transaction *)
(* buys one code and a code one token, every decision holds when it is     *)
(* committed, nobody is given what no audit records, and only two failures *)
(* leave a usable code or token behind.                                    *)
(*                                                                         *)
(* A step of request p preserves IInv in three parts (StepLemma): what it  *)
(* does to the records, to p, and that no other request is disturbed,      *)
(* which is where the locks and the consumed records are used.             *)
(***************************************************************************)
EXTENDS OidcFlow, TLAPS

\* What a step of another actor may do around request q.
Undisturbed(q) ==
  /\ pc'[q] = pc[q]
  /\ req'[q] = req[q]
  /\ \A f \in Flow : txn[f] = "gone" => txn'[f] = "gone"
  /\ \A c \in Code : code[c].in = "gone" => code'[c].in = "gone"
  /\ SignsIn(q) => \A c \in Code : code'[c].flow # req[q].flow
  /\ Exchanges(q) => \A t \in Token : token'[t].code # req[q].code
  /\ \A u \in User : lockedBy[u] = q => /\ lockedBy'[u] = q
                                        /\ u \in active => u \in active'
                                        /\ u \in member => u \in member'
  /\ audited \subseteq audited'

LEMMA OthersLemma ==
  ASSUME IInv, NEW q \in Proc, Undisturbed(q)
  PROVE  RequestInv(q)'
<1> DEFINE r == req[q]
<1>1. RequestInv(q) /\ TypeOK
  BY DEF IInv
<1>2. (SignsIn(q)' <=> SignsIn(q)) /\ (Exchanges(q)' <=> Exchanges(q))
  BY DEF Undisturbed, SignsIn, Exchanges, Deciding
<1>3. RequestShape(q)'
  BY <1>1, <1>2 DEF RequestInv, RequestShape, Undisturbed, Deciding
<1>4. Locks(q)'
  BY <1>1 DEF RequestInv, Locks, Undisturbed
<1>5. Pays(q)'
  <2>1. SignsIn(q) => r.flow \in Flow
    BY <1>1 DEF RequestInv, RequestShape
  <2>2. Exchanges(q) => r.code \in Code
    BY <1>1 DEF RequestInv, RequestShape
  <2>3. QED
    BY <1>1, <1>2, <2>1, <2>2 DEF RequestInv, Pays, Undisturbed
<1>6. RepliesAudited(q)'
  BY <1>1 DEF RequestInv, RepliesAudited, Undisturbed
<1>7. QED
  BY <1>3, <1>4, <1>5, <1>6 DEF RequestInv

\* A request that is not about to decide, commit, reply or clean up needs only
\* what its next statement reads.
LEMMA WaitingLemma ==
  ASSUME NEW p \in Proc,
         pc'[p] \in {"idle", "takeState", "get", "take", "setState", "takeCode",
                     "getToken", "revoke"},
         RequestShape(p)'
  PROVE  RequestInv(p)'
  BY DEF RequestInv, Locks, Pays, SignsIn, Exchanges, Deciding, RepliesAudited

\* p either goes on paying with what it paid with, or with what was live.
PaysFresh(p) ==
  /\ SignsIn(p)' => \/ SignsIn(p) /\ req'[p].flow = req[p].flow
                    \/ txn[req'[p].flow] = "live"
  /\ Exchanges(p)' => \/ Exchanges(p) /\ req'[p].code = req[p].code
                      \/ code[req'[p].code].in = "live"

\* What p made is still p's, or has an audit, or a second failure, or is gone.
Accounts(p) ==
  /\ audited \subseteq audited' /\ broken \subseteq broken'
  /\ \A x \in Code \cup Token :
       /\ InStore(x)' = "live" => InStore(x) = "live" \/ req'[p].made = x
       /\ req[p].made = x => \/ req'[p].made = x
                             \/ x \in audited' \cup broken'
                             \/ InStore(x)' # "live"

LEMMA StepLemma ==
  ASSUME IInv, TypeOK', RecordInv', NEW p \in Proc, RequestInv(p)',
         \A q \in Proc \ {p} : Undisturbed(q),
         PaysFresh(p), Accounts(p)
  PROVE  IInv'
<1>1. \A q \in Proc : RequestInv(q)'
  BY OthersLemma
<1>2. ASSUME NEW q \in Proc \ {p}, SignsIn(p)', SignsIn(q)', req'[p].flow = req'[q].flow
      PROVE  FALSE
  <2>1. SignsIn(q) /\ req'[q].flow = req[q].flow
    BY <1>2 DEF Undisturbed, SignsIn, Deciding
  <2>2. txn[req[q].flow] = "gone"
    BY <2>1 DEF IInv, RequestInv, Pays
  <2>3. SignsIn(p) /\ req[p].flow = req[q].flow
    BY <1>2, <2>1, <2>2 DEF PaysFresh
  <2>4. QED
    BY <2>1, <2>3 DEF IInv, PaysAlone
<1>3. ASSUME NEW q \in Proc \ {p}, Exchanges(p)', Exchanges(q)', req'[p].code = req'[q].code
      PROVE  FALSE
  <2>1. Exchanges(q) /\ req'[q].code = req[q].code
    BY <1>3 DEF Undisturbed, Exchanges, Deciding
  <2>2. code[req[q].code].in = "gone"
    BY <2>1 DEF IInv, RequestInv, Pays
  <2>3. Exchanges(p) /\ req[p].code = req[q].code
    BY <1>3, <2>1, <2>2 DEF PaysFresh
  <2>4. QED
    BY <2>1, <2>3 DEF IInv, PaysAlone
<1>4. ASSUME NEW q \in Proc \ {p}, NEW s \in Proc \ {p}
      PROVE  /\ SignsIn(q)' /\ SignsIn(s)' /\ req'[q].flow = req'[s].flow => q = s
             /\ Exchanges(q)' /\ Exchanges(s)' /\ req'[q].code = req'[s].code => q = s
  BY <1>4 DEF IInv, PaysAlone, Undisturbed, SignsIn, Exchanges, Deciding
<1>5. PaysAlone'
  BY <1>2, <1>3, <1>4 DEF PaysAlone
<1>6. OrphanTakesTwoFailures'
  <2> SUFFICES ASSUME NEW x \in Code \cup Token, InStore(x)' = "live",
                      x \notin audited' \cup broken'
               PROVE  \E q \in Proc : req'[q].made = x
    BY DEF OrphanTakesTwoFailures
  <2>1. CASE req'[p].made = x
    BY <2>1
  <2>2. CASE req'[p].made # x
    <3>1. InStore(x) = "live" /\ x \notin audited \cup broken /\ req[p].made # x
      BY <2>2 DEF Accounts
    <3>2. PICK q \in Proc : req[q].made = x
      BY <3>1 DEF IInv, OrphanTakesTwoFailures
    <3>3. q # p /\ req'[q] = req[q]
      BY <3>1, <3>2 DEF Undisturbed
    <3>4. QED
      BY <3>2, <3>3
  <2>3. QED
    BY <2>1, <2>2
<1>7. QED
  BY <1>1, <1>5, <1>6 DEF IInv
-----------------------------------------------------------------------------
(* Steps that spend records, or leave them alone.                          *)

\* Redis, apart from the provider states, only loses records.
Spends ==
  /\ \A f \in Flow : txn'[f] \in {txn[f], "gone"}
  /\ \A c \in Code : /\ code'[c].flow = code[c].flow
                     /\ code'[c].user = code[c].user
                     /\ code'[c].in \in {code[c].in, "gone"}
  /\ \A t \in Token : /\ token'[t].code = token[t].code
                      /\ token'[t].user = token[t].user
                      /\ token'[t].in \in {token[t].in, "gone"}
  /\ \A s \in State : state'[s].in = "live" => state'[s].flow \in Flow

LEMMA SpendLemma ==
  ASSUME IInv, Spends, given' \subseteq audited'
  PROVE  /\ RecordInv'
         /\ \A x \in Code \cup Token : InStore(x)' = "live" => InStore(x) = "live"
<1>1. RecordInv
  BY DEF IInv
<1>2. RecordsComplete'
  BY <1>1 DEF RecordInv, RecordsComplete, Spends
<1>3. RecordsPaid'
  BY <1>1 DEF RecordInv, RecordsPaid, Spends
<1>4. OneCodeOneToken'
  BY <1>1 DEF RecordInv, OneCodeOneToken, Spends
<1>5. \A x \in Code \cup Token : InStore(x)' = "live" => InStore(x) = "live"
  BY DEF InStore, Spends
<1>6. QED
  BY <1>2, <1>3, <1>4, <1>5 DEF RecordInv, GivenIsAudited

\* A step of p that spends records and releases no lock but p's.
LEMMA SpenderLemma ==
  ASSUME IInv, NEW p \in Proc, Spends, UNCHANGED database,
         \A q \in Proc \ {p} : pc'[q] = pc[q] /\ req'[q] = req[q],
         \A u \in User : lockedBy[u] \in Proc \ {p} => lockedBy'[u] = lockedBy[u],
         audited \subseteq audited'
  PROVE  \A q \in Proc \ {p} : Undisturbed(q)
<1> SUFFICES ASSUME NEW q \in Proc \ {p}
             PROVE  Undisturbed(q)
  OBVIOUS
<1>1. RequestInv(q)
  BY DEF IInv
<1>2. SignsIn(q) => \A c \in Code : code'[c].flow # req[q].flow
  BY <1>1 DEF RequestInv, Pays, Spends
<1>3. Exchanges(q) => \A t \in Token : token'[t].code # req[q].code
  BY <1>1 DEF RequestInv, Pays, Spends
<1>4. QED
  BY <1>2, <1>3 DEF Undisturbed, Spends, database

\* The types of what every step of the protocol may change.
RedisTyped ==
  /\ txn' \in [Flow -> InRedis]
  /\ state' \in [State -> [in: InRedis, flow: Flow \cup {None}]]
  /\ code' \in [Code -> [in: InRedis, flow: Flow \cup {None}, user: User \cup {None}]]
  /\ token' \in [Token -> [in: InRedis, code: Code \cup {None}, user: User \cup {None}]]

HistoryTyped ==
  /\ given' \in SUBSET (Code \cup Token)
  /\ audited' \in SUBSET (Code \cup Token)
  /\ broken' \in SUBSET (Code \cup Token)

\* A request ends, and accounts for what it made.
LEMMA EndLemma ==
  ASSUME IInv, NEW p \in Proc, End(p), RedisTyped, HistoryTyped, Spends,
         UNCHANGED database,
         given' \subseteq audited', audited \subseteq audited', broken \subseteq broken',
         \A x \in Code \cup Token :
           req[p].made = x => x \in audited' \cup broken' \/ InStore(x)' # "live"
  PROVE  IInv'
<1>1. TypeOK
  BY DEF IInv
<1>2. NoRequest \in Request
  BY DEF NoRequest, Request
<1>3. /\ pc' = [pc EXCEPT ![p] = "idle"]
      /\ req' = [req EXCEPT ![p] = NoRequest]
      /\ lockedBy' = [u \in User |-> IF lockedBy[u] = p THEN None ELSE lockedBy[u]]
  BY DEF End, Goto, Unlock
<1>4. /\ pc' \in [Proc -> PC] /\ pc'[p] = "idle"
      /\ req' \in [Proc -> Request] /\ req'[p] = NoRequest
      /\ \A q \in Proc \ {p} : pc'[q] = pc[q] /\ req'[q] = req[q]
  BY <1>1, <1>2, <1>3 DEF TypeOK, PC
<1>5. /\ lockedBy' \in [User -> Proc \cup {Admin, None}]
      /\ \A u \in User : lockedBy[u] \in Proc \ {p} => lockedBy'[u] = lockedBy[u]
  BY <1>1, <1>3 DEF TypeOK
<1>6. TypeOK'
  BY <1>1, <1>4, <1>5 DEF TypeOK, RedisTyped, HistoryTyped, database
<1>7. RequestInv(p)'
  <2>1. RequestShape(p)'
    BY <1>4 DEF RequestShape, NoRequest, SignsIn, Exchanges, Deciding
  <2>2. QED
    BY <1>4, <2>1, WaitingLemma
<1>8. /\ RecordInv'
      /\ \A x \in Code \cup Token : InStore(x)' = "live" => InStore(x) = "live"
  BY SpendLemma
<1>9. \A q \in Proc \ {p} : Undisturbed(q)
  BY <1>4, <1>5, SpenderLemma
<1>10. PaysFresh(p)
  BY <1>4 DEF PaysFresh, SignsIn, Exchanges, Deciding
<1>11. Accounts(p)
  BY <1>8 DEF Accounts
<1>12. QED
  BY <1>6, <1>7, <1>8, <1>9, <1>10, <1>11, StepLemma

\* A request goes on to its next statement, keeping what it made.
LEMMA AdvanceLemma ==
  ASSUME IInv, NEW p \in Proc, NEW r \in Request, NEW label \in PC,
         req' = [req EXCEPT ![p] = r], pc' = [pc EXCEPT ![p] = label],
         RedisTyped, Spends,
         given' = given, audited' = audited, broken' = broken, UNCHANGED database,
         lockedBy' \in [User -> Proc \cup {Admin, None}],
         \A u \in User : lockedBy[u] \in Proc \ {p} => lockedBy'[u] = lockedBy[u],
         r.made = req[p].made, RequestInv(p)', PaysFresh(p)
  PROVE  IInv'
<1>1. TypeOK
  BY DEF IInv
<1>2. /\ pc' \in [Proc -> PC] /\ pc'[p] = label
      /\ req' \in [Proc -> Request] /\ req'[p] = r
      /\ \A q \in Proc \ {p} : pc'[q] = pc[q] /\ req'[q] = req[q]
  BY <1>1 DEF TypeOK
<1>3. TypeOK'
  BY <1>1, <1>2 DEF TypeOK, RedisTyped, database
<1>4. given' \subseteq audited'
  BY DEF IInv, RecordInv, GivenIsAudited
<1>5. /\ RecordInv'
      /\ \A x \in Code \cup Token : InStore(x)' = "live" => InStore(x) = "live"
  BY <1>4, SpendLemma
<1>6. \A q \in Proc \ {p} : Undisturbed(q)
  BY <1>2, SpenderLemma
<1>7. Accounts(p)
  BY <1>2, <1>5 DEF Accounts
<1>8. QED
  BY <1>2, <1>3, <1>5, <1>6, <1>7, StepLemma

\* Redis as it was is typed and has spent nothing.
LEMMA SameLemma ==
  ASSUME IInv, UNCHANGED redis
  PROVE  RedisTyped /\ Spends
  BY DEF IInv, TypeOK, redis, RedisTyped, Spends, RecordInv, RecordsComplete, InRedis
-----------------------------------------------------------------------------
(* One lemma per action, or per group that differs in its guard only.      *)

\* A request that ends without having made anything.
LEMMA RefuseLemma ==
  ASSUME IInv, NEW p \in Proc, Refuse(p), req[p].made = None
  PROVE  IInv'
<1>1. RedisTyped /\ Spends
  BY SameLemma DEF Refuse
<1>2. HistoryTyped /\ given' \subseteq audited' /\ audited' = audited /\ broken' = broken
  BY DEF Refuse, history, HistoryTyped, IInv, TypeOK, RecordInv, GivenIsAudited
<1>3. \A x \in Code \cup Token : x # None
  BY NoneAssumption
<1>4. End(p) /\ UNCHANGED database
  BY DEF Refuse
<1>5. QED
  BY <1>1, <1>2, <1>3, <1>4, EndLemma

LEMMA ArriveLemma ==
  ASSUME IInv, NEW p \in Proc,
         \/ StartPassword(p) \/ StartProvider(p) \/ StartCallback(p)
         \/ StartExchange(p) \/ StartUserinfo(p)
  PROVE  IInv'
<1>1. PICK r \in Request, label \in {"get", "takeState", "takeCode", "getToken"} :
        /\ Arrive(p, r, label)
        /\ r.made = None
        /\ label = "takeState" => r.kind \in {"provider", "denied"} /\ r.state \in State
        /\ label = "get" => r.flow \in Flow /\ r.kind \in {"password", "start"}
        /\ label = "takeCode" => r.kind = "exchange" /\ r.code \in Code
        /\ label = "getToken" => r.kind = "userinfo" /\ r.token \in Token
  <2>1. CASE StartPassword(p)
    BY <2>1 DEF StartPassword, NoRequest, Request
  <2>2. CASE StartProvider(p)
    BY <2>2 DEF StartProvider, NoRequest, Request
  <2>3. CASE StartCallback(p)
    BY <2>3 DEF StartCallback, NoRequest, Request
  <2>4. CASE StartExchange(p)
    BY <2>4 DEF StartExchange, NoRequest, Request
  <2>5. CASE StartUserinfo(p)
    <3>1. PICK t \in Token :
            Arrive(p, [NoRequest EXCEPT !.kind = "userinfo", !.token = t], "getToken")
      BY <2>5 DEF StartUserinfo
    <3>2. [NoRequest EXCEPT !.kind = "userinfo", !.token = t] \in Request
      BY DEF NoRequest, Request
    <3>3. QED
      BY <3>1, <3>2 DEF NoRequest
  <2>6. QED
    BY <2>1, <2>2, <2>3, <2>4, <2>5
<1>2. /\ pc[p] = "idle" /\ label \in PC
      /\ req' = [req EXCEPT ![p] = r] /\ pc' = [pc EXCEPT ![p] = label]
      /\ UNCHANGED <<redis, given, database, lockedBy, history>>
  BY <1>1 DEF Arrive, At, Goto, PC
<1>3. TypeOK /\ RequestInv(p)
  BY DEF IInv
<1>4. pc'[p] = label /\ req'[p] = r /\ req[p].made = None
  BY <1>2, <1>3 DEF TypeOK, RequestInv, RequestShape
<1>5. RequestInv(p)'
  <2>1. RequestShape(p)'
    BY <1>1, <1>4 DEF RequestShape, SignsIn, Exchanges, Deciding
  <2>2. QED
    BY <1>4, <2>1, WaitingLemma
<1>6. PaysFresh(p)
  BY <1>4 DEF PaysFresh, SignsIn, Exchanges, Deciding
<1>7. RedisTyped /\ Spends
  BY <1>2, SameLemma
<1>8. lockedBy' \in [User -> Proc \cup {Admin, None}]
  BY <1>2, <1>3 DEF TypeOK
<1>9. QED
  BY <1>1, <1>2, <1>4, <1>5, <1>6, <1>7, <1>8, AdvanceLemma DEF history

\* consume_for_provider.
LEMMA TakeStateLemma ==
  ASSUME IInv, NEW p \in Proc, TakeState(p)
  PROVE  IInv'
<1> DEFINE s == req[p].state
<1>1. TypeOK /\ RequestInv(p) /\ pc[p] = "takeState"
  BY DEF TakeState, At, IInv
<1>2. /\ s \in State /\ req[p] \in Request /\ req[p].made = None
      /\ req[p].kind \in {"provider", "denied"}
  BY <1>1 DEF RequestInv, RequestShape, TypeOK
<1>3. CASE state[s].in = "live" /\ req[p].shows # "nothing"
  <2> DEFINE r == [req[p] EXCEPT !.flow = state[s].flow]
             label == IF req[p].kind = "denied" THEN "take" ELSE "get"
  <2>1. /\ state' = [state EXCEPT ![s].in = "gone"]
        /\ UNCHANGED <<txn, code, token>>
        /\ Advance(p, r, label)
    BY <1>3 DEF TakeState
  <2>2. state[s].flow \in Flow
    BY <1>2, <1>3 DEF IInv, RecordInv, RecordsComplete
  <2>3. r \in Request /\ label \in PC /\ r.made = None /\ r.flow \in Flow /\ r.kind = req[p].kind
    BY <1>2, <2>2 DEF Request, PC
  <2>4. /\ req' = [req EXCEPT ![p] = r] /\ pc' = [pc EXCEPT ![p] = label]
        /\ UNCHANGED <<given, database, lockedBy, history>>
    BY <2>1 DEF Advance, Goto
  <2>5. pc'[p] = label /\ req'[p] = r
    BY <1>1, <2>4 DEF TypeOK
  <2>6. RedisTyped /\ Spends
    <3>1. state' \in [State -> [in: InRedis, flow: Flow \cup {None}]]
      <4>1. state[s] \in [in: InRedis, flow: Flow \cup {None}]
        BY <1>1, <1>2 DEF TypeOK
      <4>2. [state[s] EXCEPT !.in = "gone"] \in [in: InRedis, flow: Flow \cup {None}]
        BY <4>1 DEF InRedis
      <4>3. state' = [state EXCEPT ![s] = [state[s] EXCEPT !.in = "gone"]]
        BY <1>1, <1>2, <2>1 DEF TypeOK
      <4>4. QED
        BY <1>1, <4>2, <4>3 DEF TypeOK
    <3>2. \A x \in State : state'[x].in = "live" => state'[x] = state[x]
      BY <1>1, <2>1 DEF TypeOK
    <3>3. QED
      BY <1>1, <2>1, <3>1, <3>2 DEF TypeOK, RedisTyped, Spends, IInv, RecordInv, RecordsComplete
  <2>7. RequestInv(p)'
    <3>1. RequestShape(p)'
      BY <1>2, <2>3, <2>5 DEF RequestShape, SignsIn, Exchanges, Deciding
    <3>2. QED
      BY <2>5, <3>1, WaitingLemma
  <2>8. PaysFresh(p)
    BY <2>5 DEF PaysFresh, SignsIn, Exchanges, Deciding
  <2>9. lockedBy' \in [User -> Proc \cup {Admin, None}]
    BY <1>1, <2>4 DEF TypeOK
  <2> HIDE DEF r, label
  <2>10. QED
    BY <1>2, <2>3, <2>4, <2>6, <2>7, <2>8, <2>9, AdvanceLemma DEF history
<1>4. CASE ~(state[s].in = "live" /\ req[p].shows # "nothing")
  BY <1>2, <1>4, RefuseLemma DEF TakeState
<1>5. QED
  BY <1>3, <1>4

\* _bound_transaction and what is checked against it.
LEMMA GetTransactionLemma ==
  ASSUME IInv, NEW p \in Proc, GetTransaction(p)
  PROVE  IInv'
<1> DEFINE r == req[p]
           label == IF r.kind = "start" THEN "setState" ELSE "take"
<1>1. TypeOK /\ RequestInv(p) /\ pc[p] = "get"
  BY DEF GetTransaction, At, IInv
<1>2. /\ r \in Request /\ r.made = None /\ r.flow \in Flow /\ label \in PC
      /\ r.kind \in {"password", "start", "provider", "denied"}
  BY <1>1 DEF RequestInv, RequestShape, TypeOK, PC
<1>3. CASE Refuse(p)
  BY <1>2, <1>3, RefuseLemma
<1>4. CASE UNCHANGED redis /\ Advance(p, r, label)
  <2>1. /\ req' = [req EXCEPT ![p] = r] /\ pc' = [pc EXCEPT ![p] = label]
        /\ UNCHANGED <<given, database, lockedBy, history>>
    BY <1>4 DEF Advance, Goto
  <2>2. pc'[p] = label /\ req'[p] = r
    BY <1>1, <2>1 DEF TypeOK
  <2>3. RedisTyped /\ Spends
    BY <1>4, SameLemma
  <2>4. RequestInv(p)'
    <3>1. RequestShape(p)'
      BY <1>2, <2>2 DEF RequestShape, SignsIn, Exchanges, Deciding
    <3>2. QED
      BY <2>2, <3>1, WaitingLemma
  <2>5. PaysFresh(p)
    BY <2>2 DEF PaysFresh, SignsIn, Exchanges, Deciding
  <2>6. lockedBy' \in [User -> Proc \cup {Admin, None}]
    BY <1>1, <2>1 DEF TypeOK
  <2> HIDE DEF r, label
  <2>7. r.made = req[p].made
    BY DEF r
  <2>8. QED
    BY <1>2, <2>1, <2>3, <2>4, <2>5, <2>6, <2>7, AdvanceLemma DEF history
<1>5. QED
  BY <1>3, <1>4 DEF GetTransaction

\* provider_start.
LEMMA SetStateLemma ==
  ASSUME IInv, NEW p \in Proc, SetState(p)
  PROVE  IInv'
<1>1. TypeOK /\ RequestInv(p) /\ pc[p] = "setState"
  BY DEF SetState, At, IInv
<1>2. req[p].flow \in Flow /\ req[p].made = None
  BY <1>1 DEF RequestInv, RequestShape
<1>3. PICK s \in State : state' = [state EXCEPT ![s] = [in |-> "live", flow |-> req[p].flow]]
  BY DEF SetState
<1>4. RedisTyped
  BY <1>1, <1>2, <1>3 DEF SetState, TypeOK, RedisTyped, InRedis
<1>5. Spends
  <2>1. \A x \in State : state'[x].in = "live" => state'[x].flow \in Flow
    BY <1>1, <1>2, <1>3 DEF TypeOK, IInv, RecordInv, RecordsComplete
  <2>2. QED
    BY <1>1, <2>1 DEF SetState, Spends, TypeOK
<1>6. /\ HistoryTyped /\ given' \subseteq audited' /\ audited' = audited /\ broken' = broken
      /\ End(p) /\ UNCHANGED database
  BY DEF SetState, history, HistoryTyped, IInv, TypeOK, RecordInv, GivenIsAudited
<1>7. \A x \in Code \cup Token : req[p].made # x
  BY <1>2, NoneAssumption
<1>8. QED
  BY <1>4, <1>5, <1>6, <1>7, EndLemma

\* consume: the transaction is spent.
LEMMA TakeTransactionLemma ==
  ASSUME IInv, NEW p \in Proc, TakeTransaction(p)
  PROVE  IInv'
<1> DEFINE r == req[p]
<1>1. TypeOK /\ RequestInv(p) /\ pc[p] = "take"
  BY DEF TakeTransaction, At, IInv
<1>2. /\ r \in Request /\ r.made = None /\ r.flow \in Flow
      /\ r.kind \in {"password", "provider", "denied"}
  BY <1>1 DEF RequestInv, RequestShape, TypeOK
<1>3. CASE txn[r.flow] = "live" /\ r.kind # "denied" /\ r.user # None
  <2>1. /\ txn' = [txn EXCEPT ![r.flow] = "gone"]
        /\ UNCHANGED <<state, code, token>>
        /\ Advance(p, r, "lock")
    BY <1>3 DEF TakeTransaction
  <2>2. /\ req' = [req EXCEPT ![p] = r] /\ pc' = [pc EXCEPT ![p] = "lock"]
        /\ UNCHANGED <<given, database, lockedBy, history>>
    BY <2>1 DEF Advance, Goto
  <2>3. pc'[p] = "lock" /\ req'[p] = r
    BY <1>1, <2>2 DEF TypeOK
  <2>4. RedisTyped /\ Spends
    BY <1>1, <2>1 DEF TypeOK, RedisTyped, Spends, InRedis, IInv, RecordInv, RecordsComplete
  <2>5. r.user \in User
    BY <1>2, <1>3 DEF Request
  <2>6. RequestInv(p)'
    <3>1. RequestShape(p)'
      BY <1>2, <1>3, <2>3, <2>5 DEF RequestShape, SignsIn, Exchanges, Deciding
    <3>2. \A c \in Code : code[c].flow # r.flow
      BY <1>2, <1>3 DEF IInv, RecordInv, RecordsPaid
    <3>3. Pays(p)'
      BY <1>1, <1>2, <1>3, <2>1, <2>3, <3>2 DEF Pays, SignsIn, Exchanges, Deciding, TypeOK
    <3>4. QED
      BY <2>3, <3>1, <3>3 DEF RequestInv, Locks, RepliesAudited
  <2>7. PaysFresh(p)
    BY <1>2, <1>3, <2>3 DEF PaysFresh, SignsIn, Exchanges, Deciding
  <2>8. lockedBy' \in [User -> Proc \cup {Admin, None}] /\ "lock" \in PC
    BY <1>1, <2>2 DEF TypeOK, PC
  <2> HIDE DEF r
  <2>9. r.made = req[p].made
    BY DEF r
  <2>10. QED
    BY <1>2, <2>2, <2>4, <2>6, <2>7, <2>8, <2>9, AdvanceLemma DEF history
<1>4. CASE ~(txn[r.flow] = "live" /\ r.kind # "denied" /\ r.user # None)
  <2>1. /\ txn' = [txn EXCEPT ![r.flow] = IF @ = "live" THEN "gone" ELSE @]
        /\ End(p)
        /\ UNCHANGED <<state, code, token, given, database, history>>
    BY <1>4 DEF TakeTransaction
  <2>2. RedisTyped /\ Spends
    BY <1>1, <2>1 DEF TypeOK, RedisTyped, Spends, InRedis, IInv, RecordInv, RecordsComplete
  <2>3. HistoryTyped /\ given' \subseteq audited' /\ audited' = audited /\ broken' = broken
    BY <2>1 DEF history, HistoryTyped, IInv, TypeOK, RecordInv, GivenIsAudited
  <2>4. \A x \in Code \cup Token : req[p].made # x
    BY <1>2, NoneAssumption
  <2>5. QED
    BY <2>1, <2>2, <2>3, <2>4, EndLemma
<1>5. QED
  BY <1>3, <1>4

\* consume_for_client: a code is spent by its client, whatever else is wrong.
LEMMA TakeCodeLemma ==
  ASSUME IInv, NEW p \in Proc, TakeCode(p)
  PROVE  IInv'
<1> DEFINE c == req[p].code
           mine == code[c].in = "live" /\ req[p].shows # "nothing"
<1>1. TypeOK /\ RequestInv(p) /\ pc[p] = "takeCode"
  BY DEF TakeCode, At, IInv
<1>2. /\ req[p] \in Request /\ req[p].made = None /\ c \in Code
      /\ req[p].kind = "exchange"
  BY <1>1 DEF RequestInv, RequestShape, TypeOK
<1>3. /\ code' = [code EXCEPT ![c].in = IF mine THEN "gone" ELSE @]
      /\ UNCHANGED <<txn, state, token>>
  BY DEF TakeCode
<1>4. RedisTyped /\ Spends
  <2>1. \A x \in Code : /\ code'[x].flow = code[x].flow
                        /\ code'[x].user = code[x].user
                        /\ code'[x].in \in {code[x].in, "gone"}
    BY <1>1, <1>3 DEF TypeOK
  <2>2. code' \in [Code -> [in: InRedis, flow: Flow \cup {None}, user: User \cup {None}]]
    <3>1. code[c] \in [in: InRedis, flow: Flow \cup {None}, user: User \cup {None}]
      BY <1>1, <1>2 DEF TypeOK
    <3>2. /\ code[c].in \in InRedis /\ code[c].flow \in Flow \cup {None}
          /\ code[c].user \in User \cup {None}
      BY <3>1
    <3>3. PICK y \in InRedis : code' = [code EXCEPT ![c].in = y]
      <4>1. CASE mine
        BY <1>3, <4>1 DEF InRedis
      <4>2. CASE ~mine
        BY <1>3, <3>2, <4>2
      <4>3. QED
        BY <4>1, <4>2
    <3>4. [code[c] EXCEPT !.in = y]
            \in [in: InRedis, flow: Flow \cup {None}, user: User \cup {None}]
      BY <3>1
    <3>5. code' = [code EXCEPT ![c] = [code[c] EXCEPT !.in = y]]
      BY <1>1, <1>2, <3>3 DEF TypeOK
    <3>6. QED
      BY <1>1, <3>4, <3>5 DEF TypeOK
  <2>3. QED
    BY <1>1, <1>3, <2>1, <2>2 DEF TypeOK, RedisTyped, Spends, IInv, RecordInv, RecordsComplete
<1>5. CASE mine /\ req[p].shows = "all"
  <2> DEFINE r == [req[p] EXCEPT !.user = code[c].user]
  <2>1. Advance(p, r, "lock")
    BY <1>5 DEF TakeCode
  <2>2. /\ req' = [req EXCEPT ![p] = r] /\ pc' = [pc EXCEPT ![p] = "lock"]
        /\ UNCHANGED <<given, database, lockedBy, history>>
    BY <2>1 DEF Advance, Goto
  <2>3. pc'[p] = "lock" /\ req'[p] = r
    BY <1>1, <2>2 DEF TypeOK
  <2>4. code[c].user \in User
    BY <1>2, <1>5 DEF IInv, RecordInv, RecordsComplete
  <2>5. /\ r \in Request /\ r.made = None /\ r.user \in User
        /\ r.kind = "exchange" /\ r.code = c
    BY <1>2, <2>4 DEF Request
  <2> HIDE DEF r
  <2>6. RequestInv(p)'
    <3>1. RequestShape(p)'
      BY <1>2, <2>3, <2>5 DEF RequestShape, SignsIn, Exchanges, Deciding
    <3>2. \A t \in Token : token[t].code # c
      BY <1>2, <1>5 DEF IInv, RecordInv, RecordsPaid
    <3>3. code'[c].in = "gone"
      BY <1>1, <1>2, <1>3, <1>5 DEF TypeOK
    <3>4. Pays(p)'
      BY <1>3, <2>3, <2>5, <3>2, <3>3 DEF Pays, SignsIn, Exchanges, Deciding
    <3>5. QED
      BY <2>3, <3>1, <3>4 DEF RequestInv, Locks, RepliesAudited
  <2>7. PaysFresh(p)
    BY <1>5, <2>3, <2>5 DEF PaysFresh, SignsIn, Exchanges, Deciding
  <2>8. lockedBy' \in [User -> Proc \cup {Admin, None}] /\ "lock" \in PC
    BY <1>1, <2>2 DEF TypeOK, PC
  <2>9. QED
    BY <1>2, <1>4, <2>2, <2>5, <2>6, <2>7, <2>8, AdvanceLemma DEF history
<1>6. CASE ~(mine /\ req[p].shows = "all")
  <2>1. End(p) /\ UNCHANGED <<given, database, history>>
    BY <1>6 DEF TakeCode
  <2>2. HistoryTyped /\ given' \subseteq audited' /\ audited' = audited /\ broken' = broken
    BY <2>1 DEF history, HistoryTyped, IInv, TypeOK, RecordInv, GivenIsAudited
  <2>3. \A x \in Code \cup Token : req[p].made # x
    BY <1>2, NoneAssumption
  <2>4. QED
    BY <1>4, <2>1, <2>2, <2>3, EndLemma
<1>7. QED
  BY <1>5, <1>6

LEMMA GetTokenLemma ==
  ASSUME IInv, NEW p \in Proc, GetToken(p)
  PROVE  IInv'
<1> DEFINE t == req[p].token
<1>1. TypeOK /\ RequestInv(p) /\ pc[p] = "getToken"
  BY DEF GetToken, At, IInv
<1>2. /\ req[p] \in Request /\ req[p].made = None /\ t \in Token
      /\ req[p].kind = "userinfo"
  BY <1>1 DEF RequestInv, RequestShape, TypeOK
<1>3. CASE token[t].in = "live"
  <2> DEFINE r == [req[p] EXCEPT !.user = token[t].user]
  <2>1. UNCHANGED redis /\ Advance(p, r, "lock")
    BY <1>3 DEF GetToken
  <2>2. /\ req' = [req EXCEPT ![p] = r] /\ pc' = [pc EXCEPT ![p] = "lock"]
        /\ UNCHANGED <<given, database, lockedBy, history>>
    BY <2>1 DEF Advance, Goto
  <2>3. pc'[p] = "lock" /\ req'[p] = r
    BY <1>1, <2>2 DEF TypeOK
  <2>4. token[t].user \in User
    BY <1>2, <1>3 DEF IInv, RecordInv, RecordsComplete
  <2>5. r \in Request /\ r.made = None /\ r.user \in User /\ r.kind = "userinfo"
    BY <1>2, <2>4 DEF Request
  <2> HIDE DEF r
  <2>6. RequestInv(p)'
    BY <2>3, <2>5 DEF RequestInv, RequestShape, Pays, Locks, RepliesAudited,
       SignsIn, Exchanges, Deciding
  <2>7. PaysFresh(p)
    BY <2>3, <2>5 DEF PaysFresh, SignsIn, Exchanges, Deciding
  <2>8. lockedBy' \in [User -> Proc \cup {Admin, None}] /\ "lock" \in PC
    BY <1>1, <2>2 DEF TypeOK, PC
  <2>9. RedisTyped /\ Spends
    BY <2>1, SameLemma
  <2>10. QED
    BY <1>2, <2>2, <2>5, <2>6, <2>7, <2>8, <2>9, AdvanceLemma DEF history
<1>4. CASE token[t].in # "live"
  BY <1>2, <1>4, RefuseLemma DEF GetToken
<1>5. QED
  BY <1>3, <1>4
-----------------------------------------------------------------------------
(* The decision.                                                           *)

\* lock_user.
LEMMA LockUserLemma ==
  ASSUME IInv, NEW p \in Proc, LockUser(p)
  PROVE  IInv'
<1> DEFINE r == req[p]
           label == IF r.user \in active THEN "roles" ELSE "revoke"
<1>1. TypeOK /\ RequestInv(p) /\ pc[p] = "lock"
  BY DEF LockUser, At, IInv
<1>2. r \in Request /\ r.made = None /\ r.user \in User /\ label \in PC
  BY <1>1 DEF RequestInv, RequestShape, Deciding, TypeOK, PC
<1>3. /\ lockedBy[r.user] = None
      /\ lockedBy' = [lockedBy EXCEPT ![r.user] = p]
      /\ pc' = [pc EXCEPT ![p] = label] /\ req' = req
      /\ UNCHANGED <<redis, given, database, history>>
  BY DEF LockUser, Goto
<1>4. pc'[p] = label /\ req'[p] = r /\ req' = [req EXCEPT ![p] = r]
  BY <1>1, <1>3 DEF TypeOK
<1>5. RedisTyped /\ Spends
  BY <1>3, SameLemma
<1>6. /\ lockedBy' \in [User -> Proc \cup {Admin, None}] /\ lockedBy'[r.user] = p
      /\ \A u \in User : lockedBy[u] \in Proc \ {p} => lockedBy'[u] = lockedBy[u]
  BY <1>1, <1>2, <1>3, NoneAssumption DEF TypeOK
<1>7. RequestInv(p)'
  <2>1. RequestShape(p)'
    BY <1>1, <1>2, <1>4 DEF RequestInv, RequestShape, SignsIn, Exchanges, Deciding
  <2>2. Locks(p)'
    BY <1>2, <1>3, <1>4, <1>6 DEF Locks, database
  <2>3. Pays(p)'
    BY <1>1, <1>3, <1>4 DEF RequestInv, Pays, SignsIn, Exchanges, Deciding, redis
  <2>4. QED
    BY <1>4, <2>1, <2>2, <2>3 DEF RequestInv, RepliesAudited
<1>8. PaysFresh(p)
  BY <1>1, <1>4 DEF PaysFresh, SignsIn, Exchanges, Deciding
<1> HIDE DEF r, label
<1>9. r.made = req[p].made
  BY DEF r
<1>10. QED
  BY <1>2, <1>3, <1>4, <1>5, <1>6, <1>7, <1>8, <1>9, AdvanceLemma DEF history

\* _with_roles.
LEMMA ReadRolesLemma ==
  ASSUME IInv, NEW p \in Proc, ReadRoles(p)
  PROVE  IInv'
<1> DEFINE r == req[p]
           label == IF r.user \notin member THEN "revoke"
                    ELSE IF r.kind = "userinfo" THEN "commit" ELSE "create"
<1>1. TypeOK /\ RequestInv(p) /\ pc[p] = "roles"
  BY DEF ReadRoles, At, IInv
<1>2. r \in Request /\ r.made = None /\ label \in PC
  BY <1>1 DEF RequestInv, RequestShape, TypeOK, PC
<1>3. /\ pc' = [pc EXCEPT ![p] = label] /\ req' = req
      /\ UNCHANGED <<redis, given, database, lockedBy, history>>
  BY DEF ReadRoles, Goto
<1>4. pc'[p] = label /\ req'[p] = r /\ req' = [req EXCEPT ![p] = r]
  BY <1>1, <1>3 DEF TypeOK
<1>5. RedisTyped /\ Spends
  BY <1>3, SameLemma
<1>6. lockedBy' \in [User -> Proc \cup {Admin, None}]
  BY <1>1, <1>3 DEF TypeOK
<1>7. RequestInv(p)'
  <2>1. RequestShape(p)'
    BY <1>1, <1>2, <1>4 DEF RequestInv, RequestShape, SignsIn, Exchanges, Deciding
  <2>2. Locks(p)'
    BY <1>1, <1>3, <1>4 DEF RequestInv, Locks, database
  <2>3. Pays(p)'
    BY <1>1, <1>3, <1>4 DEF RequestInv, Pays, SignsIn, Exchanges, Deciding, redis
  <2>4. QED
    BY <1>4, <2>1, <2>2, <2>3 DEF RequestInv, RepliesAudited
<1>8. PaysFresh(p)
  BY <1>1, <1>4 DEF PaysFresh, SignsIn, Exchanges, Deciding
<1> HIDE DEF r, label
<1>9. r.made = req[p].made
  BY DEF r
<1>10. QED
  BY <1>2, <1>3, <1>4, <1>5, <1>6, <1>7, <1>8, <1>9, AdvanceLemma DEF history

\* Losing a code or a token.
LEMMA DropLemma ==
  ASSUME IInv, NEW x \in Code \cup Token, Drop(x), txn' = txn, state' = state
  PROVE  RedisTyped /\ Spends /\ InStore(x)' # "live"
<1>1. TypeOK
  BY DEF IInv
<1>2. CASE x \in Code
  <2>1. code' = [code EXCEPT ![x].in = "gone"] /\ token' = token
    BY <1>2 DEF Drop
  <2>2. code[x] \in [in: InRedis, flow: Flow \cup {None}, user: User \cup {None}]
    BY <1>1, <1>2 DEF TypeOK
  <2>3. [code[x] EXCEPT !.in = "gone"]
          \in [in: InRedis, flow: Flow \cup {None}, user: User \cup {None}]
    BY <2>2 DEF InRedis
  <2>4. code' = [code EXCEPT ![x] = [code[x] EXCEPT !.in = "gone"]]
    BY <1>1, <1>2, <2>1 DEF TypeOK
  <2>5. code' \in [Code -> [in: InRedis, flow: Flow \cup {None}, user: User \cup {None}]]
    BY <1>1, <2>3, <2>4 DEF TypeOK
  <2>6. \A c \in Code : /\ code'[c].flow = code[c].flow
                        /\ code'[c].user = code[c].user
                        /\ code'[c].in \in {code[c].in, "gone"}
    BY <1>1, <2>1 DEF TypeOK
  <2>7. InStore(x)' # "live"
    BY <1>1, <1>2, <2>1 DEF TypeOK, InStore
  <2>8. QED
    BY <1>1, <2>1, <2>5, <2>6, <2>7
       DEF TypeOK, RedisTyped, Spends, IInv, RecordInv, RecordsComplete
<1>3. CASE x \notin Code
  <2>1. token' = [token EXCEPT ![x].in = "gone"] /\ code' = code /\ x \in Token
    BY <1>3 DEF Drop
  <2>2. token[x] \in [in: InRedis, code: Code \cup {None}, user: User \cup {None}]
    BY <1>1, <2>1 DEF TypeOK
  <2>3. [token[x] EXCEPT !.in = "gone"]
          \in [in: InRedis, code: Code \cup {None}, user: User \cup {None}]
    BY <2>2 DEF InRedis
  <2>4. token' = [token EXCEPT ![x] = [token[x] EXCEPT !.in = "gone"]]
    BY <1>1, <2>1 DEF TypeOK
  <2>5. token' \in [Token -> [in: InRedis, code: Code \cup {None}, user: User \cup {None}]]
    BY <1>1, <2>3, <2>4 DEF TypeOK
  <2>6. \A t \in Token : /\ token'[t].code = token[t].code
                         /\ token'[t].user = token[t].user
                         /\ token'[t].in \in {token[t].in, "gone"}
    BY <1>1, <2>1 DEF TypeOK
  <2>7. InStore(x)' # "live"
    BY <1>1, <1>3, <2>1 DEF TypeOK, InStore
  <2>8. QED
    BY <1>1, <2>1, <2>5, <2>6, <2>7
       DEF TypeOK, RedisTyped, Spends, IInv, RecordInv, RecordsComplete
<1>4. QED
  BY <1>2, <1>3

\* The user is refused.
LEMMA DenyLemma ==
  ASSUME IInv, NEW p \in Proc, Deny(p)
  PROVE  IInv'
<1>1. TypeOK /\ RequestInv(p) /\ pc[p] = "revoke"
  BY DEF Deny, At, IInv
<1>2. req[p] \in Request /\ req[p].made = None
  BY <1>1 DEF RequestInv, RequestShape, TypeOK
<1>3. End(p) /\ UNCHANGED <<given, database, history>>
  BY DEF Deny
<1>4. RedisTyped /\ Spends
  <2>1. CASE UNCHANGED redis
    BY <2>1, SameLemma
  <2>2. CASE /\ token' = [token EXCEPT ![req[p].token].in = "gone"]
             /\ UNCHANGED <<txn, state, code>>
    <3>1. CASE req[p].token \in Token
      <4>1. Drop(req[p].token)
        BY <2>2, <3>1, TokenAssumption DEF Drop
      <4>2. QED
        BY <2>2, <3>1, <4>1, DropLemma
    <3>2. CASE req[p].token \notin Token
      <4>1. token' = token
        BY <1>1, <2>2, <3>2 DEF TypeOK
      <4>2. QED
        BY <2>2, <4>1, SameLemma DEF redis
    <3>3. QED
      BY <3>1, <3>2
  <2>3. QED
    BY <2>1, <2>2 DEF Deny
<1>5. HistoryTyped /\ given' \subseteq audited' /\ audited' = audited /\ broken' = broken
  BY <1>3 DEF history, HistoryTyped, IInv, TypeOK, RecordInv, GivenIsAudited
<1>6. \A x \in Code \cup Token : req[p].made # x
  BY <1>2, NoneAssumption
<1>7. QED
  BY <1>3, <1>4, <1>5, <1>6, EndLemma

\* A request whose code or token has been created has yet to commit.
LEMMA CreatedLemma ==
  ASSUME IInv, NEW p \in Proc, pc[p] = "create",
         NEW x \in Code \cup Token,
         req' = [req EXCEPT ![p].made = x], pc' = [pc EXCEPT ![p] = "commit"],
         UNCHANGED <<txn, state, given, database, lockedBy, history>>
  PROVE  /\ req' \in [Proc -> Request] /\ pc' \in [Proc -> PC]
         /\ pc'[p] = "commit" /\ req'[p].made = x
         /\ \A q \in Proc \ {p} : pc'[q] = pc[q] /\ req'[q] = req[q]
         /\ RequestInv(p)' /\ PaysFresh(p)
<1> DEFINE r == [req[p] EXCEPT !.made = x]
<1>1. TypeOK /\ RequestInv(p)
  BY DEF IInv
<1>2. req[p] \in Request
  BY <1>1 DEF TypeOK
<1>3. r \in Request /\ r.made = x /\ r.user = req[p].user
  BY <1>2 DEF Request
<1>4. req' = [req EXCEPT ![p] = r]
  BY <1>1 DEF TypeOK
<1> HIDE DEF r
<1>5. /\ req' \in [Proc -> Request] /\ pc' \in [Proc -> PC]
      /\ pc'[p] = "commit" /\ req'[p] = r
      /\ \A q \in Proc \ {p} : pc'[q] = pc[q] /\ req'[q] = req[q]
  BY <1>1, <1>3, <1>4 DEF TypeOK, PC
<1>6. Locks(p)'
  BY <1>1, <1>3, <1>5 DEF RequestInv, Locks, database
<1>7. RequestInv(p)' /\ PaysFresh(p)
  BY <1>5, <1>6 DEF RequestInv, RequestShape, Pays, PaysFresh, SignsIn, Exchanges, Deciding,
     RepliesAudited
<1>8. QED
  BY <1>3, <1>5, <1>7

LEMMA CreateLemma ==
  ASSUME IInv, NEW p \in Proc, Create(p)
  PROVE  IInv'
<1> DEFINE r == req[p]
<1>1. TypeOK /\ RequestInv(p) /\ RecordInv /\ pc[p] = "create"
  BY DEF Create, At, IInv
<1>2. /\ r \in Request /\ r.made = None /\ r.user \in User
      /\ r.kind \in {"password", "provider", "exchange"}
      /\ SignsIn(p) \/ Exchanges(p)
  BY <1>1 DEF RequestInv, RequestShape, Deciding, SignsIn, Exchanges, TypeOK
<1>3. /\ pc' = [pc EXCEPT ![p] = "commit"]
      /\ UNCHANGED <<txn, state, given, database, lockedBy, history>>
  BY DEF Create, Goto
<1>4. GivenIsAudited' /\ audited' = audited /\ broken' = broken
  BY <1>1, <1>3 DEF RecordInv, GivenIsAudited, history
<1>5. ASSUME r.kind # "exchange", NEW c \in Code, code[c].in = "none",
             code' = [code EXCEPT ![c] = [in |-> "live", flow |-> r.flow, user |-> r.user]],
             req' = [req EXCEPT ![p].made = c], token' = token
      PROVE  IInv'
  <2>1. /\ req' \in [Proc -> Request] /\ pc' \in [Proc -> PC]
        /\ pc'[p] = "commit" /\ req'[p].made = c
        /\ \A q \in Proc \ {p} : pc'[q] = pc[q] /\ req'[q] = req[q]
        /\ RequestInv(p)' /\ PaysFresh(p)
    BY <1>1, <1>3, <1>5, CreatedLemma
  <2>2. SignsIn(p)
    BY <1>2, <1>5 DEF Exchanges
  <2>3. r.flow \in Flow /\ txn[r.flow] = "gone" /\ \A d \in Code : code[d].flow # r.flow
    BY <1>1, <2>2 DEF RequestInv, RequestShape, Pays
  <2>4. /\ code'[c] = [in |-> "live", flow |-> r.flow, user |-> r.user]
        /\ \A d \in Code \ {c} : code'[d] = code[d]
    BY <1>1, <1>5 DEF TypeOK
  <2>5. code' \in [Code -> [in: InRedis, flow: Flow \cup {None}, user: User \cup {None}]]
    BY <1>1, <1>2, <1>5, <2>3 DEF TypeOK, InRedis
  <2>6. TypeOK'
    BY <1>1, <1>3, <1>5, <2>1, <2>5 DEF TypeOK, database, history
  <2>7. RecordInv'
    <3>1. RecordsComplete'
      BY <1>1, <1>2, <1>3, <1>5, <2>4 DEF RecordInv, RecordsComplete
    <3>2. RecordsPaid'
      BY <1>1, <1>3, <1>5, <2>3, <2>4 DEF RecordInv, RecordsPaid
    <3>3. OneCodeOneToken'
      BY <1>1, <1>5, <2>3, <2>4 DEF RecordInv, OneCodeOneToken
    <3>4. QED
      BY <1>4, <3>1, <3>2, <3>3 DEF RecordInv
  <2>8. ASSUME NEW q \in Proc \ {p}
        PROVE  Undisturbed(q)
    <3>1. SignsIn(q) => r.flow # req[q].flow
      BY <2>2 DEF IInv, PaysAlone
    <3>2. SignsIn(q) => \A d \in Code : code'[d].flow # req[q].flow
      BY <2>4, <3>1 DEF IInv, RequestInv, Pays
    <3>3. Exchanges(q) => \A t \in Token : token'[t].code # req[q].code
      BY <1>5 DEF IInv, RequestInv, Pays
    <3>4. QED
      BY <1>3, <1>4, <1>5, <2>1, <2>4, <3>2, <3>3 DEF Undisturbed, database
  <2>9. Accounts(p)
    <3>1. \A x \in Code \cup Token : InStore(x)' = "live" => InStore(x) = "live" \/ x = c
      BY <1>5, <2>4 DEF InStore
    <3>2. \A x \in Code \cup Token : req[p].made # x
      BY <1>2, NoneAssumption
    <3>3. QED
      BY <1>4, <2>1, <3>1, <3>2 DEF Accounts
  <2>10. QED
    BY <2>1, <2>6, <2>7, <2>8, <2>9, StepLemma
<1>6. ASSUME r.kind = "exchange", NEW t \in Token, token[t].in = "none",
             token' = [token EXCEPT ![t] = [in |-> "live", code |-> r.code, user |-> r.user]],
             req' = [req EXCEPT ![p].made = t], code' = code
      PROVE  IInv'
  <2>1. /\ req' \in [Proc -> Request] /\ pc' \in [Proc -> PC]
        /\ pc'[p] = "commit" /\ req'[p].made = t
        /\ \A q \in Proc \ {p} : pc'[q] = pc[q] /\ req'[q] = req[q]
        /\ RequestInv(p)' /\ PaysFresh(p)
    BY <1>1, <1>3, <1>6, CreatedLemma
  <2>2. Exchanges(p)
    BY <1>2, <1>6 DEF SignsIn
  <2>3. r.code \in Code /\ code[r.code].in = "gone" /\ \A d \in Token : token[d].code # r.code
    BY <1>1, <2>2 DEF RequestInv, RequestShape, Pays
  <2>4. /\ token'[t] = [in |-> "live", code |-> r.code, user |-> r.user]
        /\ \A d \in Token \ {t} : token'[d] = token[d]
    BY <1>1, <1>6 DEF TypeOK
  <2>5. token' \in [Token -> [in: InRedis, code: Code \cup {None}, user: User \cup {None}]]
    BY <1>1, <1>2, <1>6, <2>3 DEF TypeOK, InRedis
  <2>6. TypeOK'
    BY <1>1, <1>3, <1>6, <2>1, <2>5 DEF TypeOK, database, history
  <2>7. RecordInv'
    <3>1. RecordsComplete'
      BY <1>1, <1>2, <1>3, <1>6, <2>4 DEF RecordInv, RecordsComplete
    <3>2. RecordsPaid'
      BY <1>1, <1>3, <1>6, <2>3, <2>4 DEF RecordInv, RecordsPaid
    <3>3. OneCodeOneToken'
      BY <1>1, <1>6, <2>3, <2>4 DEF RecordInv, OneCodeOneToken
    <3>4. QED
      BY <1>4, <3>1, <3>2, <3>3 DEF RecordInv
  <2>8. ASSUME NEW q \in Proc \ {p}
        PROVE  Undisturbed(q)
    <3>1. Exchanges(q) => r.code # req[q].code
      BY <2>2 DEF IInv, PaysAlone
    <3>2. Exchanges(q) => \A d \in Token : token'[d].code # req[q].code
      BY <2>4, <3>1 DEF IInv, RequestInv, Pays
    <3>3. SignsIn(q) => \A c \in Code : code'[c].flow # req[q].flow
      BY <1>6 DEF IInv, RequestInv, Pays
    <3>4. QED
      BY <1>3, <1>4, <1>6, <2>1, <3>2, <3>3 DEF Undisturbed, database
  <2>9. Accounts(p)
    <3>1. \A x \in Code \cup Token : InStore(x)' = "live" => InStore(x) = "live" \/ x = t
      BY <1>6, <2>4 DEF InStore
    <3>2. \A x \in Code \cup Token : req[p].made # x
      BY <1>2, NoneAssumption
    <3>3. QED
      BY <1>4, <2>1, <3>1, <3>2 DEF Accounts
  <2>10. QED
    BY <2>1, <2>6, <2>7, <2>8, <2>9, StepLemma
<1>7. QED
  BY <1>5, <1>6 DEF Create

\* Redis refuses to create.
LEMMA CreateFailsLemma ==
  ASSUME IInv, NEW p \in Proc, CreateFails(p)
  PROVE  IInv'
<1>1. req[p].made = None
  BY DEF CreateFails, IInv, RequestInv, RequestShape
<1>2. QED
  BY <1>1, RefuseLemma DEF CreateFails

\* The transaction of a decision ends, for better or worse.
LEMMA CommittedLemma ==
  ASSUME IInv, NEW p \in Proc, pc[p] = "commit", NEW label \in {"reply", "cleanup"},
         Unlock(p), Goto(p, label), UNCHANGED <<redis, given, database, broken, req>>,
         audited' \in SUBSET (Code \cup Token), audited \subseteq audited',
         label = "reply" => req[p].made \in audited' \cup {None},
         label = "cleanup" => req[p].made # None
  PROVE  IInv'
<1>1. TypeOK /\ RequestInv(p)
  BY DEF IInv
<1>2. /\ pc' \in [Proc -> PC] /\ pc'[p] = label
      /\ \A q \in Proc \ {p} : pc'[q] = pc[q] /\ req'[q] = req[q]
  BY <1>1 DEF Goto, TypeOK, PC
<1>3. /\ lockedBy' \in [User -> Proc \cup {Admin, None}]
      /\ \A u \in User : lockedBy[u] \in Proc \ {p} => lockedBy'[u] = lockedBy[u]
  BY <1>1 DEF TypeOK, Unlock
<1>4. TypeOK'
  BY <1>1, <1>2, <1>3 DEF TypeOK, redis, database
<1>5. RedisTyped /\ Spends
  BY SameLemma
<1>6. given' \subseteq audited'
  BY DEF IInv, RecordInv, GivenIsAudited
<1>7. /\ RecordInv'
      /\ \A x \in Code \cup Token : InStore(x)' = "live" => InStore(x) = "live"
  BY <1>5, <1>6, SpendLemma
<1>8. \A q \in Proc \ {p} : Undisturbed(q)
  BY <1>2, <1>3, <1>5, SpenderLemma
<1>9. RequestInv(p)'
  BY <1>1, <1>2 DEF RequestInv, RequestShape, Locks, Pays, RepliesAudited,
     SignsIn, Exchanges, Deciding
<1>10. PaysFresh(p)
  BY <1>2 DEF PaysFresh, SignsIn, Exchanges, Deciding
<1>11. Accounts(p)
  BY <1>7 DEF Accounts
<1>12. QED
  BY <1>4, <1>7, <1>8, <1>9, <1>10, <1>11, StepLemma

LEMMA CommitLemma ==
  ASSUME IInv, NEW p \in Proc, Commit(p)
  PROVE  IInv'
<1>1. audited \in SUBSET (Code \cup Token) /\ req[p].made \in Code \cup Token \cup {None}
  BY DEF IInv, TypeOK, Request
<1>2. /\ pc[p] = "commit" /\ Unlock(p) /\ Goto(p, "reply")
      /\ UNCHANGED <<redis, given, database, broken, req>>
      /\ audited' = audited \cup ({req[p].made} \ {None})
  BY DEF Commit, At
<1>3. /\ audited' \in SUBSET (Code \cup Token) /\ audited \subseteq audited'
      /\ req[p].made \in audited' \cup {None}
  BY <1>1, <1>2
<1>4. QED
  BY <1>2, <1>3, CommittedLemma

LEMMA CommitFailsLemma ==
  ASSUME IInv, NEW p \in Proc, CommitFails(p)
  PROVE  IInv'
<1>1. audited \in SUBSET (Code \cup Token) /\ req[p].made \in Code \cup Token \cup {None}
  BY DEF IInv, TypeOK, Request
<1>2. /\ pc[p] = "commit"
      /\ UNCHANGED <<redis, given, database, broken>>
      /\ audited' \in {audited, audited \cup ({req[p].made} \ {None})}
  BY DEF CommitFails, At
<1>3. audited' \in SUBSET (Code \cup Token) /\ audited \subseteq audited'
  BY <1>1, <1>2
<1>4. CASE req[p].made = None
  <2>1. End(p)
    BY <1>4 DEF CommitFails
  <2>2. HistoryTyped /\ given' \subseteq audited' /\ broken' = broken
    BY <1>2, <1>3 DEF HistoryTyped, IInv, TypeOK, RecordInv, GivenIsAudited
  <2>3. \A x \in Code \cup Token : req[p].made # x
    BY <1>4, NoneAssumption
  <2>4. RedisTyped /\ Spends
    BY <1>2, SameLemma
  <2>5. QED
    BY <1>2, <1>3, <2>1, <2>2, <2>3, <2>4, EndLemma
<1>5. CASE req[p].made # None
  <2>1. Unlock(p) /\ Goto(p, "cleanup") /\ UNCHANGED req
    BY <1>5 DEF CommitFails
  <2>2. UNCHANGED <<redis, given, database, broken, req>>
    BY <1>2, <2>1
  <2>3. QED
    BY <1>2, <1>3, <1>5, <2>1, <2>2, CommittedLemma
<1>6. QED
  BY <1>4, <1>5

\* _best_effort_consume_code, _best_effort_revoke_access.
LEMMA CleanupLemma ==
  ASSUME IInv, NEW p \in Proc, Cleanup(p)
  PROVE  IInv'
<1> DEFINE x == req[p].made
<1>1. x \in Code \cup Token /\ TypeOK
  BY DEF Cleanup, At, IInv, TypeOK, Request, RequestInv, RequestShape
<1>2. End(p) /\ UNCHANGED <<txn, state, given, database, audited>>
  BY DEF Cleanup
<1>3. broken' \in SUBSET (Code \cup Token) /\ broken \subseteq broken'
  BY <1>1 DEF Cleanup, TypeOK
<1>4. HistoryTyped /\ given' \subseteq audited' /\ audited' = audited
  BY <1>2, <1>3 DEF HistoryTyped, IInv, TypeOK, RecordInv, GivenIsAudited
<1>5. CASE Drop(x)
  <2>1. ASSUME NEW y \in Code \cup Token, x = y
        PROVE  RedisTyped /\ Spends /\ InStore(y)' # "live"
    BY <1>2, <1>5, <2>1, DropLemma
  <2>2. RedisTyped /\ Spends
    BY <1>1, <2>1
  <2>3. QED
    BY <1>2, <1>3, <1>4, <2>1, <2>2, EndLemma
<1>6. CASE broken' = broken \cup {x} /\ UNCHANGED <<code, token>>
  <2>1. RedisTyped /\ Spends
    BY <1>2, <1>6, SameLemma DEF redis
  <2>2. QED
    BY <1>2, <1>3, <1>4, <1>6, <2>1, EndLemma
<1>7. QED
  BY <1>5, <1>6 DEF Cleanup

LEMMA ReplyLemma ==
  ASSUME IInv, NEW p \in Proc, Reply(p)
  PROVE  IInv'
<1>1. /\ End(p) /\ UNCHANGED <<redis, database, history>>
      /\ given' = given \cup ({req[p].made} \ {None})
  BY DEF Reply
<1>2. req[p].made \in audited \cup {None}
  BY DEF Reply, At, IInv, RequestInv, RepliesAudited
<1>3. HistoryTyped /\ given' \subseteq audited' /\ audited' = audited /\ broken' = broken
  BY <1>1, <1>2 DEF history, HistoryTyped, IInv, TypeOK, RecordInv, GivenIsAudited
<1>4. \A x \in Code \cup Token : req[p].made = x => x \in audited' \cup broken'
  BY <1>2, <1>3, NoneAssumption
<1>5. RedisTyped /\ Spends
  BY <1>1, SameLemma
<1>6. QED
  BY <1>1, <1>3, <1>4, <1>5, EndLemma

LEMMA VanishLemma ==
  ASSUME IInv, NEW p \in Proc, Vanish(p)
  PROVE  IInv'
<1>1. /\ End(p) /\ UNCHANGED <<redis, given, database, audited>>
      /\ broken' = broken \cup ({req[p].made} \ {None})
  BY DEF Vanish
<1>2. req[p].made \in Code \cup Token \cup {None}
  BY DEF IInv, TypeOK, Request
<1>3. HistoryTyped /\ given' \subseteq audited' /\ audited' = audited
  BY <1>1, <1>2 DEF HistoryTyped, IInv, TypeOK, RecordInv, GivenIsAudited
<1>4. \A x \in Code \cup Token : req[p].made = x => x \in audited' \cup broken'
  BY <1>1, NoneAssumption
<1>5. RedisTyped /\ Spends
  BY <1>1, SameLemma
<1>6. QED
  BY <1>1, <1>3, <1>4, <1>5, EndLemma
-----------------------------------------------------------------------------
(* Steps of nobody's request.                                              *)

LEMMA OutsideLemma ==
  ASSUME IInv, TypeOK', RecordInv', pc' = pc, req' = req,
         audited' = audited, broken' = broken,
         \A q \in Proc : Undisturbed(q),
         \A x \in Code \cup Token : InStore(x)' = "live" => InStore(x) = "live"
  PROVE  IInv'
<1>1. \A q \in Proc : RequestInv(q)'
  BY OthersLemma
<1>2. PaysAlone'
  BY DEF IInv, PaysAlone, SignsIn, Exchanges, Deciding
<1>3. OrphanTakesTwoFailures'
  BY DEF IInv, OrphanTakesTwoFailures
<1>4. QED
  BY <1>1, <1>2, <1>3 DEF IInv

LEMMA BeginLemma ==
  ASSUME IInv, NEW f \in Flow, Begin(f)
  PROVE  IInv'
<1>1. /\ TypeOK /\ RecordInv
      /\ txn[f] = "none" /\ txn' = [txn EXCEPT ![f] = "live"]
      /\ UNCHANGED <<state, code, token, given, database, lockedBy, pc, req, history>>
  BY DEF Begin, IInv
<1>2. TypeOK'
  BY <1>1 DEF TypeOK, InRedis, database, history
<1>3. \A g \in Flow : txn[g] = "gone" => txn'[g] = "gone"
  BY <1>1 DEF TypeOK
<1>4. RecordInv'
  BY <1>1, <1>3 DEF RecordInv, RecordsComplete, RecordsPaid, OneCodeOneToken, GivenIsAudited,
     history
<1>5. ASSUME NEW q \in Proc
      PROVE  Undisturbed(q)
  BY <1>1, <1>3 DEF Undisturbed, IInv, RequestInv, Pays, database, history
<1>6. \A x \in Code \cup Token : InStore(x)' = InStore(x)
  BY <1>1 DEF InStore
<1>7. QED
  BY <1>1, <1>2, <1>4, <1>5, <1>6, OutsideLemma DEF history

LEMMA ExpireLemma ==
  ASSUME IInv, Expire
  PROVE  IInv'
<1>1. TypeOK /\ UNCHANGED <<given, database, lockedBy, pc, req, history>>
  BY DEF Expire, IInv
<1>2. RedisTyped /\ Spends
  <2>1. ASSUME NEW f \in Flow, txn' = [txn EXCEPT ![f] = "gone"],
               UNCHANGED <<state, code, token>>
        PROVE  RedisTyped /\ Spends
    BY <1>1, <2>1 DEF TypeOK, RedisTyped, Spends, InRedis, IInv, RecordInv, RecordsComplete
  <2>2. ASSUME NEW s \in State, state' = [state EXCEPT ![s].in = "gone"],
               UNCHANGED <<txn, code, token>>
        PROVE  RedisTyped /\ Spends
    <3>1. state[s] \in [in: InRedis, flow: Flow \cup {None}]
      BY <1>1 DEF TypeOK
    <3>2. [state[s] EXCEPT !.in = "gone"] \in [in: InRedis, flow: Flow \cup {None}]
      BY <3>1 DEF InRedis
    <3>3. state' = [state EXCEPT ![s] = [state[s] EXCEPT !.in = "gone"]]
      BY <1>1, <2>2 DEF TypeOK
    <3>4. state' \in [State -> [in: InRedis, flow: Flow \cup {None}]]
      BY <1>1, <3>2, <3>3 DEF TypeOK
    <3>5. \A x \in State : state'[x].in = "live" => state'[x] = state[x]
      BY <1>1, <2>2 DEF TypeOK
    <3>6. QED
      BY <1>1, <2>2, <3>4, <3>5
         DEF TypeOK, RedisTyped, Spends, IInv, RecordInv, RecordsComplete
  <2>3. ASSUME NEW x \in Code \cup Token, Drop(x), UNCHANGED <<txn, state>>
        PROVE  RedisTyped /\ Spends
    BY <2>3, DropLemma
  <2>4. QED
    BY <2>1, <2>2, <2>3 DEF Expire
<1>3. given' \subseteq audited'
  BY <1>1 DEF IInv, RecordInv, GivenIsAudited, history
<1>4. /\ RecordInv'
      /\ \A x \in Code \cup Token : InStore(x)' = "live" => InStore(x) = "live"
  BY <1>2, <1>3, SpendLemma
<1>5. TypeOK'
  BY <1>1, <1>2 DEF TypeOK, RedisTyped, database, history
<1>6. ASSUME NEW q \in Proc
      PROVE  Undisturbed(q)
  <2>1. RequestInv(q)
    BY DEF IInv
  <2>2. SignsIn(q) => \A c \in Code : code'[c].flow # req[q].flow
    BY <1>2, <2>1 DEF RequestInv, Pays, Spends
  <2>3. Exchanges(q) => \A t \in Token : token'[t].code # req[q].code
    BY <1>2, <2>1 DEF RequestInv, Pays, Spends
  <2>4. QED
    BY <1>1, <1>2, <2>2, <2>3 DEF Undisturbed, Spends, database, history
<1>7. QED
  BY <1>1, <1>4, <1>5, <1>6, OutsideLemma DEF history

\* An administrator's transaction: it changes a user only under the user's lock.
LEMMA AdministerLemma ==
  ASSUME IInv, NEW u \in User,
         \/ SetStatus(u) \/ AssignRole(u)
         \/ DeleteRole(u) \/ LockForRemoval(u) \/ EndRemoval(u)
  PROVE  IInv'
<1>1. /\ UNCHANGED <<redis, given, pc, req, history>> /\ TypeOK /\ RecordInv
  BY DEF SetStatus, AssignRole, DeleteRole, LockForRemoval, EndRemoval, IInv
<1>2. /\ active' \in SUBSET User /\ member' \in SUBSET User /\ removing' \in SUBSET User
      /\ lockedBy' \in [User -> Proc \cup {Admin, None}]
  <2>1. CASE SetStatus(u) \/ AssignRole(u) \/ DeleteRole(u)
    BY <1>1, <2>1 DEF SetStatus, AssignRole, DeleteRole, TypeOK, database
  <2>2. CASE LockForRemoval(u)
    BY <1>1, <2>2 DEF LockForRemoval, TypeOK, database
  <2>3. CASE EndRemoval(u)
    BY <1>1, <2>3 DEF EndRemoval, TypeOK
  <2>4. QED
    BY <2>1, <2>2, <2>3
<1>3. ASSUME NEW v \in User, NEW q \in Proc, lockedBy[v] = q
      PROVE  /\ lockedBy'[v] = q
             /\ v \in active => v \in active'
             /\ v \in member => v \in member'
  <2>1. q # None /\ q # Admin
    BY NoneAssumption, AdminAssumption
  <2>2. CASE SetStatus(u)
    BY <1>3, <2>1, <2>2 DEF SetStatus
  <2>3. CASE AssignRole(u)
    BY <1>3, <2>1, <2>3 DEF AssignRole
  <2>4. CASE DeleteRole(u)
    BY <1>3, <2>4 DEF DeleteRole
  <2>5. CASE LockForRemoval(u)
    BY <1>1, <1>3, <2>1, <2>5 DEF LockForRemoval, TypeOK, database
  <2>6. CASE EndRemoval(u)
    BY <1>1, <1>3, <2>1, <2>6 DEF EndRemoval, TypeOK
  <2>7. QED
    BY <2>2, <2>3, <2>4, <2>5, <2>6
<1>4. TypeOK'
  BY <1>1, <1>2 DEF TypeOK, redis, history
<1>5. RecordInv'
  BY <1>1 DEF RecordInv, RecordsComplete, RecordsPaid, OneCodeOneToken, GivenIsAudited,
     redis, history
<1>6. ASSUME NEW q \in Proc
      PROVE  Undisturbed(q)
  BY <1>1, <1>3 DEF Undisturbed, IInv, RequestInv, Pays, redis, history
<1>7. \A x \in Code \cup Token : InStore(x)' = InStore(x)
  BY <1>1 DEF InStore, redis
<1>8. QED
  BY <1>1, <1>4, <1>5, <1>6, <1>7, OutsideLemma DEF history
-----------------------------------------------------------------------------
\* Types and records, what each request holds and pays with, and that what lives
\* on unaudited was failed twice: the inductive invariant of Spec.
THEOREM FlowInvariant == Spec => []IInv
<1>1. Init => IInv
  <2> SUFFICES ASSUME Init
               PROVE  IInv
    OBVIOUS
  <2>1. NoRequest \in Request /\ NoRequest.made = None
    BY DEF NoRequest, Request
  <2>2. TypeOK
    BY <2>1 DEF Init, TypeOK, InRedis, PC
  <2>3. RecordInv
    BY NoneAssumption
       DEF Init, RecordInv, RecordsComplete, RecordsPaid, OneCodeOneToken, GivenIsAudited
  <2>4. \A p \in Proc : RequestInv(p)
    BY <2>1 DEF Init, RequestInv, RequestShape, Locks, Pays, RepliesAudited, SignsIn,
       Exchanges, Deciding
  <2>5. PaysAlone
    BY DEF Init, PaysAlone, SignsIn, Exchanges, Deciding
  <2>6. OrphanTakesTwoFailures
    BY DEF Init, OrphanTakesTwoFailures, InStore
  <2>7. QED
    BY <2>2, <2>3, <2>4, <2>5, <2>6 DEF IInv
<1>2. IInv /\ [Next]_vars => IInv'
  <2> SUFFICES ASSUME IInv, [Next]_vars
               PROVE  IInv'
    OBVIOUS
  <2>1. ASSUME NEW p \in Proc,
               \/ StartPassword(p) \/ StartProvider(p) \/ StartCallback(p)
               \/ StartExchange(p) \/ StartUserinfo(p)
        PROVE  IInv'
    BY <2>1, ArriveLemma
  <2>2. ASSUME NEW p \in Proc, Step(p)
        PROVE  IInv'
    BY <2>2, TakeStateLemma, GetTransactionLemma, SetStateLemma, TakeTransactionLemma,
       TakeCodeLemma, GetTokenLemma, ReadRolesLemma, DenyLemma, CreateLemma,
       CreateFailsLemma, CommitLemma, CommitFailsLemma, CleanupLemma, ReplyLemma DEF Step
  <2>3. ASSUME NEW p \in Proc, LockUser(p) \/ Vanish(p)
        PROVE  IInv'
    BY <2>3, LockUserLemma, VanishLemma
  <2>4. ASSUME NEW f \in Flow, Begin(f)
        PROVE  IInv'
    BY <2>4, BeginLemma
  <2>5. ASSUME NEW u \in User,
               \/ SetStatus(u) \/ AssignRole(u)
               \/ DeleteRole(u) \/ LockForRemoval(u) \/ EndRemoval(u)
        PROVE  IInv'
    BY <2>5, AdministerLemma
  <2>6. CASE UNCHANGED vars
    BY <2>6 DEF vars, redis, database, history, IInv, TypeOK, RecordInv, RecordsComplete,
       RecordsPaid, OneCodeOneToken, GivenIsAudited, RequestInv, RequestShape, Locks, Pays,
       RepliesAudited, SignsIn, Exchanges, Deciding, PaysAlone, OrphanTakesTwoFailures, InStore
  <2>7. QED
    BY <2>1, <2>2, <2>3, <2>4, <2>5, <2>6, ExpireLemma DEF Next
<1>3. QED
  BY <1>1, <1>2, PTL DEF Spec

\* A transaction buys at most one code, a code at most one token.
THEOREM OneCodeOneTokenTheorem == Spec => []OneCodeOneToken
<1>1. IInv => OneCodeOneToken
  BY DEF IInv, RecordInv
<1>2. QED
  BY <1>1, FlowInvariant, PTL

\* lock_user's promise: the decision is true in the committed database as long
\* as the decider holds the user's row.
THEOREM DecisionHoldsTheorem == Spec => []DecisionHolds
<1>1. IInv => DecisionHolds
  BY DEF IInv, RequestInv, Locks, DecisionHolds, Eligible
<1>2. QED
  BY <1>1, FlowInvariant, PTL

\* No response carries what has no success audit.
THEOREM GivenIsAuditedTheorem == Spec => []GivenIsAudited
<1>1. IInv => GivenIsAudited
  BY DEF IInv, RecordInv
<1>2. QED
  BY <1>1, FlowInvariant, PTL

\* The cleanup of exchange_code and _complete_authorization covers every single failure.
THEOREM OrphanTheorem == Spec => []OrphanTakesTwoFailures
<1>1. IInv => OrphanTakesTwoFailures
  BY DEF IInv
<1>2. QED
  BY <1>1, FlowInvariant, PTL
=============================================================================
