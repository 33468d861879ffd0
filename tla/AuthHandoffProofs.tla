------------------------- MODULE AuthHandoffProofs -------------------------
(***************************************************************************)
(* Proofs about AuthHandoff: IInv is an inductive invariant, and with it a *)
(* sign-in gets one session, of its own user, and never goes back.         *)
(*                                                                         *)
(* The heart is CarrierStep.  A sign-in is carried by one thing at a time: *)
(* a state key, a request, a code key or a session.  A step either only    *)
(* takes carriers away (Shrinks), or finds the one carrier of a sign-in    *)
(* and hands the sign-in to the next (Moves).                              *)
(***************************************************************************)
EXTENDS AuthHandoff, TLAPS

\* What a Redis table of records maps keys to.

Table == [Key -> SignIn \cup {None}]

\* The Redis commands turn a table into a table.
LEMMA TableLemma ==
  ASSUME NEW table \in Table, NEW k \in Key, NEW i \in SignIn \cup {None}, NEW raw
  PROVE  /\ SetIfAbsent(table, k, i) \in Table
         /\ Consume(table, k) \in Table
         /\ ConsumeIfExact(table, k, raw) \in Table
  BY DEF Table, SetIfAbsent, Consume, ConsumeIfExact

\* The end of a request leaves well-typed requests.
LEMMA EndTyping ==
  ASSUME TypeOK, NEW p \in Proc, End(p)
  PROVE  /\ pc' \in [Proc -> PC]
         /\ req' \in [Proc -> Request]
         /\ draws' \in [Proc -> 0..MaxDraws]
  BY HandoffAssumption DEF TypeOK, End, Goto, NoRequest, Request, PC

\* So does going on to the next step.
LEMMA GotoTyping ==
  ASSUME TypeOK, NEW p \in Proc, NEW label \in PC, Goto(p, label)
  PROVE  pc' \in [Proc -> PC]
  BY DEF TypeOK, Goto

\* So does the arrival of a request.
LEMMA ArriveTyping ==
  ASSUME TypeOK, NEW p \in Proc, NEW r \in Request, NEW label \in PC, Arrive(p, r, label)
  PROVE  /\ pc' \in [Proc -> PC]
         /\ req' \in [Proc -> Request]
<1>1. pc' \in [Proc -> PC]
  BY DEF Arrive, TypeOK, Goto
<1>2. PICK s \in Server : req' = [req EXCEPT ![p] = [r EXCEPT !.server = s]]
  BY DEF Arrive
<1>3. [r EXCEPT !.server = s] \in Request
  BY DEF Request
<1>4. QED
  BY <1>1, <1>2, <1>3 DEF TypeOK

\* What the Start actions make are requests.
LEMMA NewRequests ==
  /\ \A i \in SignIn : [NoRequest EXCEPT !.signIn = i] \in Request
  /\ \A k \in Key, same \in BOOLEAN :
        [NoRequest EXCEPT !.key = k, !.sameProvider = same] \in Request
  /\ \A k \in Key, i \in SignIn :
        [NoRequest EXCEPT !.key = k, !.signIn = i] \in Request
  BY DEF NoRequest, Request

\* Tables change through TableLemma, requests through the lemmas above.
LEMMA TypeStep ==
  ASSUME IInv, Next
  PROVE  TypeOK'
<1> USE DEF redis, storeVars
<1>0. TypeOK
  BY DEF IInv
<1>s. ASSUME UNCHANGED storeVars PROVE StoreTypeOK'
  BY <1>0, <1>s DEF TypeOK, StoreTypeOK, Row
<1>1. ASSUME NEW p \in Proc, StartOAuth(p) PROVE TypeOK'
  <2>1. PICK i \in SignIn \ begun :
           /\ begun' = begun \cup {i}
           /\ Arrive(p, [NoRequest EXCEPT !.signIn = i], "setState")
           /\ UNCHANGED who
    BY <1>1 DEF StartOAuth
  <2>2. pc' \in [Proc -> PC] /\ req' \in [Proc -> Request]
    BY <2>1, <1>0, NewRequests, ArriveTyping DEF PC
  <2>3. QED
    BY <2>1, <2>2, <1>0, <1>s DEF TypeOK, Arrive
<1>2. ASSUME NEW p \in Proc, StartPasswordSignIn(p) PROVE TypeOK'
  <2>1. PICK i \in SignIn \ begun, u \in User :
           /\ begun' = begun \cup {i}
           /\ who' = [who EXCEPT ![i] = u]
           /\ Arrive(p, [NoRequest EXCEPT !.signIn = i], "setCode")
    BY <1>2 DEF StartPasswordSignIn
  <2>2. pc' \in [Proc -> PC] /\ req' \in [Proc -> Request]
    BY <2>1, <1>0, NewRequests, ArriveTyping DEF PC
  <2>3. QED
    BY <2>1, <2>2, <1>0, <1>s DEF TypeOK, Arrive
<1>3. ASSUME NEW p \in Proc, StartCallback(p) PROVE TypeOK'
  <2>1. PICK k \in sent.state, same \in BOOLEAN :
           /\ Arrive(p, [NoRequest EXCEPT !.key = k, !.sameProvider = same], "consumeState")
           /\ UNCHANGED <<begun, who>>
    BY <1>3 DEF StartCallback
  <2>2. k \in Key
    BY <2>1, <1>0 DEF TypeOK
  <2>3. pc' \in [Proc -> PC] /\ req' \in [Proc -> Request]
    BY <2>1, <2>2, <1>0, NewRequests, ArriveTyping DEF PC
  <2>4. QED
    BY <2>1, <2>3, <1>0, <1>s DEF TypeOK, Arrive
<1>4. ASSUME NEW p \in Proc, StartExchange(p) PROVE TypeOK'
  <2>1. PICK k \in sent.code, i \in begun :
           /\ Arrive(p, [NoRequest EXCEPT !.key = k, !.signIn = i], "get")
           /\ UNCHANGED <<begun, who>>
    BY <1>4 DEF StartExchange
  <2>2. k \in Key /\ i \in SignIn
    BY <2>1, <1>0 DEF TypeOK
  <2>3. pc' \in [Proc -> PC] /\ req' \in [Proc -> Request]
    BY <2>1, <2>2, <1>0, NewRequests, ArriveTyping DEF PC
  <2>4. QED
    BY <2>1, <2>3, <1>0, <1>s DEF TypeOK, Arrive
<1>r. ASSUME NEW p \in Proc PROVE req[p] \in Request
  BY <1>0 DEF TypeOK
<1>k. ASSUME NEW p \in Proc, Redraw(p)
      PROVE  pc' \in [Proc -> PC] /\ req' \in [Proc -> Request] /\ draws' \in [Proc -> 0..MaxDraws]
  BY <1>0, <1>k, EndTyping, HandoffAssumption DEF Redraw, TypeOK
<1>5. ASSUME NEW p \in Proc, CreateState(p) PROVE TypeOK'
  <2>1. PICK k \in Key :
           /\ states' = SetIfAbsent(states, k, req[p].signIn)
           /\ \/ sent' = [sent EXCEPT !.state = @ \cup {k}] /\ End(p)
              \/ Redraw(p) /\ UNCHANGED sent
    BY <1>5 DEF CreateState
  <2>2. states' \in [Key -> SignIn \cup {None}]
    BY <2>1, <1>0, <1>r, TableLemma DEF TypeOK, Table, Request
  <2>3. sent' \in [state: SUBSET Key, code: SUBSET Key]
    BY <2>1, <1>0 DEF TypeOK
  <2>4. pc' \in [Proc -> PC] /\ req' \in [Proc -> Request] /\ draws' \in [Proc -> 0..MaxDraws]
    BY <2>1, <1>0, <1>k, EndTyping
  <2>5. QED
    BY <1>5, <2>2, <2>3, <2>4, <1>0, <1>s DEF TypeOK, CreateState
<1>6. ASSUME NEW p \in Proc, ConsumeState(p) PROVE TypeOK'
  <2>1. states' = Consume(states, req[p].key) \/ UNCHANGED states
    BY <1>6 DEF ConsumeState
  <2>2. states' \in [Key -> SignIn \cup {None}]
    BY <2>1, <1>0 DEF TypeOK, Consume
  <2>3. req[p].key \in Key
    BY <1>6 DEF IInv, RequestInv, ConsumeState, At
  <2>4. CASE End(p)
    BY <1>6, <2>2, <2>4, <1>0, <1>s, EndTyping DEF TypeOK, ConsumeState
  <2>5. CASE /\ req' = [req EXCEPT ![p].signIn = states[req[p].key]]
             /\ Goto(p, "resolve")
             /\ UNCHANGED draws
    <3>1. states[req[p].key] \in SignIn \cup {None}
      BY <2>3, <1>0 DEF TypeOK
    <3>2. [req[p] EXCEPT !.signIn = states[req[p].key]] \in Request
      BY <3>1, <1>r DEF Request
    <3>3. req' \in [Proc -> Request]
      BY <2>5, <3>2, <1>0 DEF TypeOK
    <3>4. QED
      BY <1>6, <2>2, <2>5, <3>3, <1>0, <1>s, GotoTyping DEF TypeOK, ConsumeState, PC
  <2>6. QED
    BY <1>6, <2>4, <2>5 DEF ConsumeState
<1>7. ASSUME NEW p \in Proc, CreateCode(p) PROVE TypeOK'
  <2>1. PICK k \in Key :
           /\ codes' = SetIfAbsent(codes, k, req[p].signIn)
           /\ \/ sent' = [sent EXCEPT !.code = @ \cup {k}] /\ End(p)
              \/ Redraw(p) /\ UNCHANGED sent
    BY <1>7 DEF CreateCode
  <2>2. codes' \in [Key -> SignIn \cup {None}]
    BY <2>1, <1>0, <1>r, TableLemma DEF TypeOK, Table, Request
  <2>3. sent' \in [state: SUBSET Key, code: SUBSET Key]
    BY <2>1, <1>0 DEF TypeOK
  <2>4. pc' \in [Proc -> PC] /\ req' \in [Proc -> Request] /\ draws' \in [Proc -> 0..MaxDraws]
    BY <2>1, <1>0, <1>k, EndTyping
  <2>5. QED
    BY <1>7, <2>2, <2>3, <2>4, <1>0, <1>s DEF TypeOK, CreateCode
<1>8. ASSUME NEW p \in Proc, GetCode(p) PROVE TypeOK'
  <2>1. req[p].key \in Key
    BY <1>8 DEF IInv, RequestInv, GetCode, At
  <2>2. CASE End(p)
    BY <1>8, <2>2, <1>0, <1>s, EndTyping DEF TypeOK, GetCode
  <2>3. CASE /\ req' = [req EXCEPT ![p].found = codes[req[p].key]]
             /\ Goto(p, IF codes[req[p].key] \in stale THEN "drop" ELSE "take")
             /\ UNCHANGED draws
    <3>1. codes[req[p].key] \in SignIn \cup {None}
      BY <2>1, <1>0 DEF TypeOK
    <3>2. [req[p] EXCEPT !.found = codes[req[p].key]] \in Request
      BY <3>1, <1>r DEF Request
    <3>3. req' \in [Proc -> Request]
      BY <2>3, <3>2, <1>0 DEF TypeOK
    <3>4. pc' \in [Proc -> PC]
      BY <2>3, <1>0, GotoTyping DEF PC
    <3>5. QED
      BY <1>8, <2>3, <3>3, <3>4, <1>0, <1>s DEF TypeOK, GetCode
  <2>4. QED
    BY <1>8, <2>2, <2>3 DEF GetCode
<1>9. ASSUME NEW p \in Proc, DropExpired(p) PROVE TypeOK'
  BY <1>9, <1>0, <1>s, EndTyping DEF TypeOK, DropExpired, ConsumeIfExact
<1>10. ASSUME NEW p \in Proc, TakeCode(p) PROVE TypeOK'
  BY <1>10, <1>0, <1>s, EndTyping, GotoTyping DEF TypeOK, TakeCode, ConsumeIfExact, PC
<1>11. ASSUME NEW p \in Proc, NotReady(p) PROVE TypeOK'
  BY <1>11, <1>0, <1>s, EndTyping DEF TypeOK, NotReady
<1>12. ASSUME NEW p \in Proc, ResolveUser(p) PROVE TypeOK'
  BY <1>12, <1>0, <1>s, GotoTyping DEF TypeOK, ResolveUser, PC
<1>13. ASSUME NEW p \in Proc, IssueSession(p) PROVE TypeOK'
  <2>1. PICK n \in Token :
           Issue(who[req[p].found], n) /\ by' = [by EXCEPT ![n] = req[p].signIn]
    BY <1>13 DEF IssueSession
  <2>2. who[req[p].found] \in User \cup {None} /\ req[p].signIn \in SignIn \cup {None}
    BY <1>13, <1>0, <1>r DEF IInv, RequestInv, IssueSession, At, TypeOK, Request
  <2>3. StoreTypeOK'
    BY <2>1, <2>2, <1>0 DEF TypeOK, StoreTypeOK, Row, Issue
  <2>4. QED
    BY <1>13, <2>1, <2>2, <2>3, <1>0, EndTyping DEF TypeOK, IssueSession
<1>14. ASSUME NEW p \in Proc, RefuseSession(p) PROVE TypeOK'
  BY <1>14, <1>0, <1>s, EndTyping DEF TypeOK, RefuseSession
<1>15. ASSUME NEW p \in Proc, LostReply(p) PROVE TypeOK'
  <2>1. /\ states' \in [Key -> SignIn \cup {None}]
        /\ codes' \in [Key -> SignIn \cup {None}]
    <3>1. req[p].signIn \in SignIn \cup {None}
      BY <1>r DEF Request
    <3>2. CASE UNCHANGED redis
      BY <3>2, <1>0 DEF TypeOK
    <3>3. CASE Unanswered(p)
      BY <3>1, <3>3, <1>0 DEF Unanswered, TypeOK, SetIfAbsent, Consume, ConsumeIfExact
    <3>4. QED
      BY <1>15, <3>2, <3>3 DEF LostReply
  <2>2. QED
    BY <1>15, <2>1, <1>0, <1>s, EndTyping DEF TypeOK, LostReply
<1>16. ASSUME NEW p \in Proc, Fail(p) PROVE TypeOK'
  BY <1>16, <1>0, <1>s, EndTyping DEF TypeOK, Fail
<1>17. ASSUME NEW s \in Server, Probe(s) PROVE TypeOK'
  BY <1>17, <1>0, <1>s DEF TypeOK, Probe
<1>18. ASSUME NEW i \in SignIn, Lapse(i) PROVE TypeOK'
  BY <1>18, <1>0, <1>s DEF TypeOK, Lapse
<1>19. ASSUME NEW k \in Key, Evict(k) PROVE TypeOK'
  BY <1>19, <1>0, <1>s DEF TypeOK, Evict
<1>20. ASSUME Administer PROVE TypeOK'
  <2>1. PICK u \in User, s \in Statuses : SetStatus(u, s)
    BY <1>20 DEF Administer
  <2>2. StoreTypeOK'
    BY <2>1, <1>0, HandoffAssumption DEF SetStatus, Moved, TypeOK, StoreTypeOK, Row
  <2>3. QED
    BY <1>20, <2>2, <1>0 DEF TypeOK, Administer
<1>21. QED
  BY <1>1, <1>2, <1>3, <1>4, <1>5, <1>6, <1>7, <1>8, <1>9, <1>10, <1>11, <1>12,
     <1>13, <1>14, <1>15, <1>16, <1>17, <1>18, <1>19, <1>20 DEF Next, Start, Step
-----------------------------------------------------------------------------
\* A step either takes carriers from a sign-in or moves it on to another one.
Shrinks(i) ==
  /\ StateKeys(i)' \subseteq StateKeys(i)
  /\ \A q \in Requests(i)' : q \in Requests(i) /\ pc'[q] = pc[q]
  /\ CodeKeys(i)' \subseteq CodeKeys(i)
  /\ SessionsOf(i)' \subseteq SessionsOf(i)

Moves(i) == i \in begun' /\ OneCarrier(i)' /\ Stage(i)' >= Stage(i)

\* A sign-in that only loses carriers does not go back.
LEMMA ShrinkStage ==
  ASSUME NEW i \in SignIn, Shrinks(i), begun \subseteq begun'
  PROVE  Stage(i)' >= Stage(i)
  BY DEF Shrinks, Stage, Requests, Doing, Claims, At

\* A request that carries a sign-in is the only thing that does.
LEMMA RequestCarrier ==
  ASSUME IInv, NEW i \in SignIn, NEW p \in Requests(i)
  PROVE  /\ Requests(i) = {p}
         /\ StateKeys(i) = {} /\ CodeKeys(i) = {} /\ SessionsOf(i) = {}
         /\ i \in begun
  BY DEF IInv, OneCarrier, AtMostOne, NoCarrier

\* So is a state key.
LEMMA StateCarrier ==
  ASSUME IInv, NEW i \in SignIn, NEW k \in StateKeys(i)
  PROVE  /\ StateKeys(i) = {k}
         /\ Requests(i) = {} /\ CodeKeys(i) = {} /\ SessionsOf(i) = {}
         /\ i \in begun
  BY DEF IInv, OneCarrier, AtMostOne, NoCarrier

\* So is a code key.
LEMMA CodeCarrier ==
  ASSUME IInv, NEW i \in SignIn, NEW k \in CodeKeys(i)
  PROVE  /\ CodeKeys(i) = {k}
         /\ Requests(i) = {} /\ StateKeys(i) = {} /\ SessionsOf(i) = {}
         /\ i \in begun
  BY DEF IInv, OneCarrier, AtMostOne, NoCarrier

\* A request that ends, or goes on to a label that carries nothing, lets go.
LEMMA EndRequests ==
  ASSUME TypeOK, NEW p \in Proc, End(p), NEW i \in SignIn
  PROVE  /\ Requests(i)' = Requests(i) \ {p}
         /\ \A q \in Requests(i)' : pc'[q] = pc[q]
  BY DEF TypeOK, End, Goto, Requests, Doing, Claims, At

\* The SET of a state, replied to or not, moves the sign-in to that key.
LEMMA PutState ==
  ASSUME IInv, NEW p \in Proc, At(p, "setState"), NEW k \in Key,
         states' = SetIfAbsent(states, k, req[p].signIn),
         End(p), UNCHANGED <<codes, begun, by>>, NEW j \in SignIn
  PROVE  Shrinks(j) \/ Moves(j)
<1> DEFINE i == req[p].signIn
<1>1. i \in SignIn /\ i \in begun /\ p \in Requests(i) /\ TypeOK
  BY DEF IInv, TypeOK, RequestInv, At, Requests, Doing
<1>2. UNCHANGED <<CodeKeys(j), SessionsOf(j)>>
  BY DEF CodeKeys, SessionsOf
<1>3. Requests(j)' = Requests(j) \ {p} /\ \A q \in Requests(j)' : pc'[q] = pc[q]
  BY <1>1, EndRequests
<1>4. CASE j = i
  <2>1. Requests(j)' = {} /\ CodeKeys(j)' = {} /\ SessionsOf(j)' = {}
    BY <1>1, <1>2, <1>3, <1>4, RequestCarrier
  <2>2. StateKeys(j)' \subseteq {k}
    BY <1>1, <1>4, RequestCarrier DEF StateKeys, SetIfAbsent, TypeOK
  <2>3. Stage(j) = 1 /\ Stage(j)' \in 2..8
    BY <2>1, <1>1, <1>4 DEF Stage, Requests, Doing, Claims, At
  <2>4. QED
    BY <2>1, <2>2, <2>3, <1>1, <1>4 DEF Moves, OneCarrier, AtMostOne
<1>5. CASE j # i
  <2>1. StateKeys(j)' \subseteq StateKeys(j)
    BY <1>1, <1>5 DEF StateKeys, SetIfAbsent, TypeOK
  <2>2. QED
    BY <2>1, <1>2, <1>3 DEF Shrinks
<1>6. QED
  BY <1>4, <1>5

\* The SET of a code, replied to or not, moves the sign-in to that key.
LEMMA PutCode ==
  ASSUME IInv, NEW p \in Proc, At(p, "setCode"), NEW k \in Key,
         codes' = SetIfAbsent(codes, k, req[p].signIn),
         End(p), UNCHANGED <<states, begun, by>>, NEW j \in SignIn
  PROVE  Shrinks(j) \/ Moves(j)
<1> DEFINE i == req[p].signIn
<1>1. i \in SignIn /\ i \in begun /\ p \in Requests(i) /\ TypeOK
  BY DEF IInv, TypeOK, RequestInv, At, Requests, Doing
<1>2. UNCHANGED <<StateKeys(j), SessionsOf(j)>>
  BY DEF StateKeys, SessionsOf
<1>3. Requests(j)' = Requests(j) \ {p} /\ \A q \in Requests(j)' : pc'[q] = pc[q]
  BY <1>1, EndRequests
<1>4. CASE j = i
  <2>1. Requests(j)' = {} /\ StateKeys(j)' = {} /\ SessionsOf(j)' = {}
    BY <1>1, <1>2, <1>3, <1>4, RequestCarrier
  <2>2. CodeKeys(j)' \subseteq {k}
    BY <1>1, <1>4, RequestCarrier DEF CodeKeys, SetIfAbsent, TypeOK
  <2>3. Stage(j) = 4 /\ Stage(j)' \in 5..8
    <3>1. Requests(j) = {p} /\ StateKeys(j) = {}
      BY <1>1, <1>4, RequestCarrier
    <3>2. QED
      BY <2>1, <3>1, <1>1, <1>4 DEF Stage, Requests, Doing, Claims, At
  <2>4. QED
    BY <2>1, <2>2, <2>3, <1>1, <1>4 DEF Moves, OneCarrier, AtMostOne
<1>5. CASE j # i
  <2>1. CodeKeys(j)' \subseteq CodeKeys(j)
    BY <1>1, <1>5 DEF CodeKeys, SetIfAbsent, TypeOK
  <2>2. QED
    BY <2>1, <1>2, <1>3 DEF Shrinks
<1>6. QED
  BY <1>4, <1>5

\* A step that ends a request, leaves no new record and no new session.
LEMMA LetGo ==
  ASSUME IInv, NEW p \in Proc, End(p), UNCHANGED by, NEW j \in SignIn,
         \A k \in Key : states'[k] \in {states[k], None} /\ codes'[k] \in {codes[k], None}
  PROVE  Shrinks(j)
<1>1. TypeOK
  BY DEF IInv
<1>2. QED
  BY <1>1, EndRequests, HandoffAssumption DEF Shrinks, StateKeys, CodeKeys, SessionsOf

\* What has begun has begun.
LEMMA BegunGrows ==
  ASSUME Next
  PROVE  begun \subseteq begun'
  BY DEF Next, Start, Step, StartOAuth, StartPasswordSignIn, StartCallback, StartExchange,
     Arrive, CreateState, ConsumeState, CreateCode, GetCode, DropExpired, TakeCode, NotReady,
     ResolveUser, IssueSession, RefuseSession, LostReply, Fail, Probe, Lapse, Evict, Administer

\* Every step takes carriers from a sign-in or moves it on.
LEMMA CarrierStep ==
  ASSUME IInv, Next, NEW j \in SignIn
  PROVE  Shrinks(j) \/ Moves(j)
<1> USE DEF redis
<1>0. TypeOK
  BY DEF IInv
<1>a. ASSUME NEW p \in Proc, NEW r, NEW label \in {"consumeState", "get"},
             Arrive(p, r, label)
      PROVE  Shrinks(j)
  BY <1>a, <1>0 DEF Arrive, TypeOK, Goto, At, Shrinks, StateKeys, Requests,
     Doing, Claims, CodeKeys, SessionsOf
<1>b. ASSUME NEW p \in Proc, NEW i \in SignIn \ begun, NEW label \in {"setState", "setCode"},
             begun' = begun \cup {i}, Arrive(p, [NoRequest EXCEPT !.signIn = i], label)
      PROVE  Shrinks(j) \/ Moves(j)
  <2>1. req'[p].signIn = i /\ pc'[p] = label /\ pc[p] = "idle"
    BY <1>b, <1>0 DEF Arrive, NoRequest, Goto, At, TypeOK
  <2>2. \A q \in Proc \ {p} : req'[q] = req[q] /\ pc'[q] = pc[q]
    BY <1>b, <1>0 DEF Arrive, Goto, At, TypeOK
  <2>3. Requests(j)' = Requests(j) \cup (IF j = i THEN {p} ELSE {})
    BY <1>b, <2>1, <2>2 DEF Requests, Doing, Claims, At
  <2>4. UNCHANGED <<StateKeys(j), CodeKeys(j), SessionsOf(j)>>
    BY <1>b DEF Arrive, StateKeys, CodeKeys, SessionsOf
  <2>5. CASE j = i
    <3>1. NoCarrier(j)
      BY <2>5, <1>b DEF IInv
    <3>2. Stage(j) = 0 /\ Stage(j)' \in 0..8
      BY <2>5 DEF Stage
    <3>3. QED
      BY <2>3, <2>4, <2>5, <3>1, <3>2, <1>b DEF NoCarrier, Moves, OneCarrier, AtMostOne
  <2>6. CASE j # i
    <3>1. p \notin Requests(j)
      BY <2>1 DEF Requests, Doing, Claims, At
    <3>2. QED
      BY <2>2, <2>3, <2>4, <2>6, <3>1 DEF Shrinks, Requests, Doing, Claims
  <2>7. QED
    BY <2>5, <2>6
<1>c. ASSUME NEW p \in Proc, UNCHANGED <<states, codes, by>>,
             \A q \in Requests(j)' : q \in Requests(j) /\ pc'[q] = pc[q]
      PROVE  Shrinks(j)
  BY <1>c DEF Shrinks, StateKeys, CodeKeys, SessionsOf
<1>1. ASSUME NEW p \in Proc, StartOAuth(p) PROVE Shrinks(j) \/ Moves(j)
  BY <1>1, <1>b DEF StartOAuth
<1>2. ASSUME NEW p \in Proc, StartPasswordSignIn(p) PROVE Shrinks(j) \/ Moves(j)
  BY <1>2, <1>b DEF StartPasswordSignIn
<1>3. ASSUME NEW p \in Proc, StartCallback(p) PROVE Shrinks(j) \/ Moves(j)
  BY <1>3, <1>a DEF StartCallback
<1>4. ASSUME NEW p \in Proc, StartExchange(p) PROVE Shrinks(j) \/ Moves(j)
  BY <1>4, <1>a DEF StartExchange
<1>k. ASSUME NEW p \in Proc, Redraw(p), UNCHANGED <<states, codes, by>>
      PROVE  Shrinks(j)
  <2>1. CASE UNCHANGED <<pc, req>>
    BY <1>k, <2>1, <1>c DEF Requests, Doing, Claims, At
  <2>2. CASE End(p)
    BY <1>k, <2>2, LetGo
  <2>3. QED
    BY <1>k, <2>1, <2>2 DEF Redraw
<1>5. ASSUME NEW p \in Proc, CreateState(p) PROVE Shrinks(j) \/ Moves(j)
  <2>1. PICK k \in Key :
           /\ states' = SetIfAbsent(states, k, req[p].signIn)
           /\ \/ states[k] = None /\ End(p)
              \/ states[k] # None /\ Redraw(p)
    BY <1>5 DEF CreateState
  <2>2. CASE End(p)
    BY <1>5, <2>1, <2>2, PutState DEF CreateState
  <2>3. CASE states[k] # None /\ Redraw(p)
    <3>1. states' = states
      BY <2>1, <2>3, <1>0 DEF SetIfAbsent, TypeOK
    <3>2. QED
      BY <1>5, <2>3, <3>1, <1>k DEF CreateState
  <2>4. QED
    BY <2>1, <2>2, <2>3
<1>6. ASSUME NEW p \in Proc, ConsumeState(p) PROVE Shrinks(j) \/ Moves(j)
  <2>1. req[p].key \in Key /\ pc[p] = "consumeState"
    BY <1>6 DEF IInv, RequestInv, ConsumeState, At
  <2>2. \A k \in Key : states'[k] = IF k = req[p].key THEN None ELSE states[k]
    BY <1>6, <1>0 DEF ConsumeState, Consume, TypeOK
  <2>3. CASE End(p)
    BY <1>6, <2>2, <2>3, LetGo DEF ConsumeState
  <2>4. ASSUME NEW i, i = states[req[p].key], i # None,
               req' = [req EXCEPT ![p].signIn = i], Goto(p, "resolve")
        PROVE  Shrinks(j) \/ Moves(j)
    <3>1. i \in SignIn /\ req[p].key \in StateKeys(i)
      BY <2>1, <2>4, <1>0 DEF TypeOK, StateKeys
    <3>2. pc'[p] = "resolve" /\ req'[p].signIn = i
      BY <2>4, <1>0 DEF Goto, TypeOK, Request
    <3>3. \A q \in Proc \ {p} : req'[q] = req[q] /\ pc'[q] = pc[q]
      BY <2>4, <1>0 DEF Goto, TypeOK
    <3>4. Requests(j)' = Requests(j) \cup (IF j = i THEN {p} ELSE {})
      BY <2>1, <3>2, <3>3 DEF Requests, Doing, Claims, At
    <3>5. /\ StateKeys(j)' = StateKeys(j) \ {req[p].key}
          /\ UNCHANGED <<CodeKeys(j), SessionsOf(j), begun>>
      BY <1>6, <2>1, <2>2, HandoffAssumption DEF ConsumeState, StateKeys, CodeKeys, SessionsOf
    <3>6. CASE j = i
      <4>1. /\ Requests(j)' = {p} /\ StateKeys(j)' = {}
            /\ CodeKeys(j)' = {} /\ SessionsOf(j)' = {} /\ j \in begun'
        BY <3>1, <3>4, <3>5, <3>6, StateCarrier
      <4>2. Stage(j) = 2 /\ Stage(j)' \in 3..8
        <5>1. Requests(j) = {} /\ StateKeys(j) # {} /\ j \in begun
          BY <3>1, <3>6, StateCarrier
        <5>2. QED
          BY <4>1, <5>1, <3>2 DEF Stage, Requests, Doing, Claims, At
      <4>3. QED
        BY <4>1, <4>2 DEF Moves, OneCarrier, AtMostOne
    <3>7. CASE j # i
      <4>1. p \notin Requests(j)
        BY <2>1 DEF Requests, Doing, Claims, At
      <4>2. QED
        BY <3>3, <3>4, <3>5, <3>7, <4>1 DEF Shrinks, Requests, Doing, Claims
    <3>8. QED
      BY <3>6, <3>7
  <2>5. QED
    BY <1>6, <2>3, <2>4 DEF ConsumeState
<1>7. ASSUME NEW p \in Proc, CreateCode(p) PROVE Shrinks(j) \/ Moves(j)
  <2>1. PICK k \in Key :
           /\ codes' = SetIfAbsent(codes, k, req[p].signIn)
           /\ \/ codes[k] = None /\ End(p)
              \/ codes[k] # None /\ Redraw(p)
    BY <1>7 DEF CreateCode
  <2>2. CASE End(p)
    BY <1>7, <2>1, <2>2, PutCode DEF CreateCode
  <2>3. CASE codes[k] # None /\ Redraw(p)
    <3>1. codes' = codes
      BY <2>1, <2>3, <1>0 DEF SetIfAbsent, TypeOK
    <3>2. QED
      BY <1>7, <2>3, <3>1, <1>k DEF CreateCode
  <2>4. QED
    BY <2>1, <2>2, <2>3
<1>8. ASSUME NEW p \in Proc, GetCode(p) PROVE Shrinks(j) \/ Moves(j)
  <2>1. CASE End(p)
    BY <1>8, <2>1, LetGo DEF GetCode
  <2>2. CASE /\ req' = [req EXCEPT ![p].found = codes[req[p].key]]
             /\ Goto(p, IF codes[req[p].key] \in stale THEN "drop" ELSE "take")
    <3>1. \A q \in Requests(j)' : q \in Requests(j) /\ pc'[q] = pc[q]
      BY <1>8, <2>2, <1>0 DEF GetCode, At, Goto, TypeOK, Requests, Doing, Claims
    <3>2. QED
      BY <1>8, <3>1, <1>c DEF GetCode
  <2>3. QED
    BY <1>8, <2>1, <2>2 DEF GetCode
<1>d. ASSUME NEW p \in Proc, NEW k \in Key, NEW raw, codes' = ConsumeIfExact(codes, k, raw)
      PROVE  \A l \in Key : codes'[l] \in {codes[l], None}
  BY <1>d, <1>0 DEF ConsumeIfExact, TypeOK
<1>9. ASSUME NEW p \in Proc, DropExpired(p) PROVE Shrinks(j) \/ Moves(j)
  <2>1. req[p].key \in Key
    BY <1>9 DEF IInv, RequestInv, DropExpired, At
  <2>2. QED
    BY <1>9, <2>1, <1>d, LetGo DEF DropExpired
<1>10. ASSUME NEW p \in Proc, TakeCode(p) PROVE Shrinks(j) \/ Moves(j)
  <2>1. req[p].key \in Key /\ pc[p] = "take"
    BY <1>10 DEF IInv, RequestInv, TakeCode, At
  <2>2. CASE End(p)
    BY <1>10, <2>1, <2>2, <1>d, LetGo DEF TakeCode
  <2>3. ASSUME NEW i, i = req[p].found, codes[req[p].key] = i, Goto(p, "issue"), UNCHANGED req
        PROVE  Shrinks(j) \/ Moves(j)
    <3>1. i \in SignIn /\ i \in begun /\ req[p].key \in CodeKeys(i)
      BY <2>1, <2>3 DEF IInv, TypeOK, RequestInv, CodeKeys
    <3>2. Requests(j)' = Requests(j) \cup (IF j = i THEN {p} ELSE {})
      BY <2>1, <2>3, <1>0 DEF Goto, TypeOK, Requests, Doing, Claims, At
    <3>3. /\ CodeKeys(j)' = CodeKeys(j) \ {req[p].key}
          /\ UNCHANGED <<StateKeys(j), SessionsOf(j), begun>>
      BY <1>10, <2>1, <2>3, <1>0, HandoffAssumption
         DEF TakeCode, ConsumeIfExact, TypeOK, StateKeys, CodeKeys, SessionsOf
    <3>4. CASE j = i
      <4>1. /\ Requests(j)' = {p} /\ StateKeys(j)' = {}
            /\ CodeKeys(j)' = {} /\ SessionsOf(j)' = {} /\ j \in begun'
        BY <3>1, <3>2, <3>3, <3>4, CodeCarrier
      <4>2. Stage(j) = 5 /\ Stage(j)' \in 6..8
        <5>1. Requests(j) = {} /\ StateKeys(j) = {} /\ CodeKeys(j) # {} /\ j \in begun
          BY <3>1, <3>4, CodeCarrier
        <5>2. pc'[p] = "issue"
          BY <2>3, <1>0 DEF Goto, TypeOK
        <5>3. QED
          BY <4>1, <5>1, <5>2 DEF Stage, Requests, Doing, Claims, At
      <4>3. QED
        BY <4>1, <4>2 DEF Moves, OneCarrier, AtMostOne
    <3>5. CASE j # i
      <4>1. \A q \in Proc \ {p} : pc'[q] = pc[q]
        BY <2>3, <1>0 DEF Goto, TypeOK
      <4>2. p \notin Requests(j)
        BY <2>1 DEF Requests, Doing, Claims, At
      <4>3. QED
        BY <3>2, <3>3, <3>5, <4>1, <4>2 DEF Shrinks, Requests, Doing, Claims
    <3>6. QED
      BY <3>4, <3>5
  <2>4. QED
    BY <1>10, <2>2, <2>3 DEF TakeCode
<1>11. ASSUME NEW p \in Proc, NotReady(p) PROVE Shrinks(j) \/ Moves(j)
  BY <1>11, LetGo DEF NotReady
<1>12. ASSUME NEW p \in Proc, ResolveUser(p) PROVE Shrinks(j) \/ Moves(j)
  <2>1. pc[p] = "resolve" /\ pc'[p] = "setCode" /\ \A q \in Proc \ {p} : pc'[q] = pc[q]
    BY <1>12, <1>0 DEF ResolveUser, At, Goto, TypeOK
  <2>2. /\ Requests(j)' = Requests(j)
        /\ UNCHANGED <<StateKeys(j), CodeKeys(j), SessionsOf(j), begun>>
    BY <1>12, <2>1 DEF ResolveUser, Requests, Doing, Claims, At,
       StateKeys, CodeKeys, SessionsOf
  <2>3. CASE p \in Requests(j)
    <3>1. /\ Requests(j) = {p} /\ StateKeys(j) = {} /\ CodeKeys(j) = {} /\ SessionsOf(j) = {}
          /\ j \in begun
      BY <2>3, RequestCarrier
    <3>2. Stage(j) = 3 /\ Stage(j)' \in 4..8
      BY <2>1, <2>2, <2>3, <3>1 DEF Stage, Requests, Doing, Claims, At
    <3>3. QED
      BY <2>2, <3>1, <3>2 DEF Moves, OneCarrier, AtMostOne
  <2>4. CASE p \notin Requests(j)
    BY <2>1, <2>2, <2>4 DEF Shrinks, Requests, Doing, Claims
  <2>5. QED
    BY <2>3, <2>4
<1>13. ASSUME NEW p \in Proc, IssueSession(p) PROVE Shrinks(j) \/ Moves(j)
  <2>1. PICK n \in Token :
           by' = [by EXCEPT ![n] = req[p].signIn] /\ row[n].state = "unused"
    BY <1>13 DEF IssueSession, Issue
  <2>2. /\ req[p].signIn \in SignIn /\ req[p].signIn \in begun
        /\ p \in Requests(req[p].signIn) /\ by[n] = None
    BY <1>13, <2>1 DEF IInv, TypeOK, RequestInv, SessionInv, IssueSession, At, Requests, Claims
  <2>3. Requests(j)' = Requests(j) \ {p} /\ \A q \in Requests(j)' : pc'[q] = pc[q]
    BY <1>13, <1>0, EndRequests DEF IssueSession
  <2>4. UNCHANGED <<StateKeys(j), CodeKeys(j), begun>>
    BY <1>13 DEF IssueSession, StateKeys, CodeKeys
  <2>5. SessionsOf(j)' = SessionsOf(j) \cup (IF j = req[p].signIn THEN {n} ELSE {})
    BY <2>1, <2>2, <1>0, HandoffAssumption DEF SessionsOf, TypeOK
  <2>6. CASE j = req[p].signIn
    <3>1. /\ Requests(j)' = {} /\ StateKeys(j)' = {}
          /\ CodeKeys(j)' = {} /\ SessionsOf(j)' = {n} /\ j \in begun'
      BY <2>2, <2>3, <2>4, <2>5, <2>6, RequestCarrier
    <3>2. Stage(j) = 6 /\ Stage(j)' \in 7..8
      <4>1. /\ Requests(j) = {p} /\ StateKeys(j) = {} /\ CodeKeys(j) = {}
            /\ j \in begun /\ p \in Claims(j)
        BY <1>13, <2>2, <2>6, RequestCarrier DEF IInv, RequestInv, IssueSession, At, Claims
      <4>2. QED
        BY <1>13, <3>1, <4>1 DEF Stage, Requests, Doing, Claims, At
    <3>3. QED
      BY <3>1, <3>2 DEF Moves, OneCarrier, AtMostOne
  <2>7. CASE j # req[p].signIn
    BY <2>3, <2>4, <2>5, <2>7 DEF Shrinks
  <2>8. QED
    BY <2>6, <2>7
<1>14. ASSUME NEW p \in Proc, RefuseSession(p) PROVE Shrinks(j) \/ Moves(j)
  BY <1>14, LetGo DEF RefuseSession
<1>15. ASSUME NEW p \in Proc, LostReply(p) PROVE Shrinks(j) \/ Moves(j)
  <2>1. End(p) /\ UNCHANGED <<begun, by>>
    BY <1>15 DEF LostReply
  <2>2. CASE UNCHANGED redis
    BY <2>1, <2>2, LetGo
  <2>3. CASE Unanswered(p)
    <3>1. CASE At(p, "setState")
      BY <3>1, <2>1, <2>3, PutState DEF Unanswered, At
    <3>2. CASE At(p, "setCode")
      BY <3>2, <2>1, <2>3, PutCode DEF Unanswered, At
    <3>3. CASE pc[p] \notin {"setState", "setCode"}
      <4>1. \A k \in Key : states'[k] \in {states[k], None} /\ codes'[k] \in {codes[k], None}
        BY <3>3, <2>3, <1>0 DEF Unanswered, At, Consume, ConsumeIfExact, TypeOK
      <4>2. QED
        BY <4>1, <2>1, LetGo
    <3>4. QED
      BY <3>1, <3>2, <3>3 DEF At
  <2>4. QED
    BY <1>15, <2>2, <2>3 DEF LostReply
<1>16. ASSUME NEW p \in Proc, Fail(p) PROVE Shrinks(j) \/ Moves(j)
  BY <1>16, LetGo DEF Fail
<1>e. ASSUME UNCHANGED <<pc, req, by>>,
             \A k \in Key : states'[k] \in {states[k], None} /\ codes'[k] \in {codes[k], None}
      PROVE  Shrinks(j)
  BY <1>e, HandoffAssumption
     DEF Shrinks, StateKeys, CodeKeys, SessionsOf, Requests, Doing, Claims, At
<1>17. ASSUME NEW s \in Server, Probe(s) PROVE Shrinks(j) \/ Moves(j)
  BY <1>17, <1>e DEF Probe
<1>18. ASSUME NEW i \in SignIn, Lapse(i) PROVE Shrinks(j) \/ Moves(j)
  BY <1>18, <1>e DEF Lapse
<1>19. ASSUME NEW k \in Key, Evict(k) PROVE Shrinks(j) \/ Moves(j)
  BY <1>19, <1>0, <1>e DEF Evict, TypeOK
<1>20. ASSUME Administer PROVE Shrinks(j) \/ Moves(j)
  BY <1>20, <1>e DEF Administer
<1>21. QED
  BY <1>1, <1>2, <1>3, <1>4, <1>5, <1>6, <1>7, <1>8, <1>9, <1>10, <1>11, <1>12,
     <1>13, <1>14, <1>15, <1>16, <1>17, <1>18, <1>19, <1>20 DEF Next, Start, Step

\* A code is made only once the user is known, and the user stays.
LEMMA UserKnownStep ==
  ASSUME IInv, Next, NEW j \in SignIn
  PROVE  UserKnown(j)'
<1> USE DEF redis
<1>0. TypeOK /\ UserKnown(j)
  BY DEF IInv
<1>e. ASSUME NEW p \in Proc, End(p), UNCHANGED who,
             \A k \in Key : codes'[k] \in {codes[k], None}
      PROVE  UserKnown(j)'
  BY <1>e, <1>0, HandoffAssumption
     DEF End, Goto, UserKnown, Doing, CodeKeys, Claims, At, TypeOK
<1>p. ASSUME NEW p \in Proc, End(p), UNCHANGED who, At(p, "setCode"), NEW k \in Key,
             codes' = SetIfAbsent(codes, k, req[p].signIn)
      PROVE  UserKnown(j)'
  BY <1>p, <1>0 DEF SetIfAbsent, End, Goto, UserKnown, Doing, CodeKeys, Claims, At, TypeOK
<1>u. ASSUME UNCHANGED <<codes, who, pc, req>> PROVE UserKnown(j)'
  BY <1>u, <1>0 DEF UserKnown, Doing, CodeKeys, Claims, At
<1>1. ASSUME NEW p \in Proc, Start(p) PROVE UserKnown(j)'
  <2>1. ASSUME NEW r, NEW label \in {"setState", "consumeState", "get"},
               Arrive(p, r, label), UNCHANGED who
        PROVE  UserKnown(j)'
    BY <2>1, <1>0 DEF Arrive, Goto, At, UserKnown, Doing, CodeKeys, Claims, TypeOK
  <2>2. ASSUME NEW i \in SignIn \ begun, NEW u \in User, who' = [who EXCEPT ![i] = u],
               Arrive(p, [NoRequest EXCEPT !.signIn = i], "setCode")
        PROVE  UserKnown(j)'
    <3>1. req'[p].signIn = i
      BY <2>2, <1>0 DEF Arrive, NoRequest, TypeOK
    <3>2. QED
      BY <2>2, <3>1, <1>0 DEF Arrive, Goto, At, UserKnown, Doing, CodeKeys, Claims, TypeOK
  <2>3. QED
    BY <1>1, <2>1, <2>2 DEF Start, StartOAuth, StartPasswordSignIn, StartCallback, StartExchange
<1>2. ASSUME NEW p \in Proc, CreateState(p) PROVE UserKnown(j)'
  BY <1>2, <1>e, <1>u DEF CreateState, Redraw
<1>3. ASSUME NEW p \in Proc, ConsumeState(p) PROVE UserKnown(j)'
  <2>1. CASE End(p)
    BY <1>3, <2>1, <1>e DEF ConsumeState
  <2>2. CASE /\ req' = [req EXCEPT ![p].signIn = states[req[p].key]]
             /\ Goto(p, "resolve")
    BY <1>3, <2>2, <1>0 DEF ConsumeState, Goto, At, UserKnown, Doing, CodeKeys, Claims, TypeOK
  <2>3. QED
    BY <1>3, <2>1, <2>2 DEF ConsumeState
<1>4. ASSUME NEW p \in Proc, CreateCode(p) PROVE UserKnown(j)'
  <2>1. PICK k \in Key :
           /\ codes' = SetIfAbsent(codes, k, req[p].signIn)
           /\ \/ codes[k] = None /\ End(p)
              \/ codes[k] # None /\ Redraw(p)
    BY <1>4 DEF CreateCode
  <2>2. CASE End(p)
    BY <1>4, <2>1, <2>2, <1>p DEF CreateCode
  <2>3. CASE codes[k] # None /\ Redraw(p)
    <3>1. codes' = codes
      BY <2>1, <2>3, <1>0 DEF SetIfAbsent, TypeOK
    <3>2. QED
      BY <1>4, <2>3, <3>1, <1>e, <1>u DEF CreateCode, Redraw
  <2>4. QED
    BY <2>1, <2>2, <2>3
<1>5. ASSUME NEW p \in Proc, GetCode(p) PROVE UserKnown(j)'
  <2>1. CASE End(p)
    BY <1>5, <2>1, <1>e DEF GetCode
  <2>2. CASE /\ req' = [req EXCEPT ![p].found = codes[req[p].key]]
             /\ Goto(p, IF codes[req[p].key] \in stale THEN "drop" ELSE "take")
    BY <1>5, <2>2, <1>0 DEF GetCode, Goto, At, UserKnown, Doing, CodeKeys, Claims, TypeOK
  <2>3. QED
    BY <1>5, <2>1, <2>2 DEF GetCode
<1>d. ASSUME NEW k, NEW raw, codes' = ConsumeIfExact(codes, k, raw)
      PROVE  \A l \in Key : codes'[l] \in {codes[l], None}
  BY <1>d, <1>0 DEF ConsumeIfExact, TypeOK
<1>6. ASSUME NEW p \in Proc, DropExpired(p) PROVE UserKnown(j)'
  BY <1>6, <1>d, <1>e DEF DropExpired
<1>7. ASSUME NEW p \in Proc, TakeCode(p) PROVE UserKnown(j)'
  <2>1. CASE End(p)
    BY <1>7, <2>1, <1>d, <1>e DEF TakeCode
  <2>2. CASE codes[req[p].key] = req[p].found /\ Goto(p, "issue") /\ UNCHANGED req
    <3>1. req[p].key \in Key
      BY <1>7 DEF IInv, RequestInv, TakeCode, At
    <3>2. Claims(j)' # {} => Claims(j) # {} \/ CodeKeys(j) # {}
      BY <2>2, <3>1, <1>0 DEF Claims, CodeKeys, Goto, At, TypeOK
    <3>3. CodeKeys(j)' \subseteq CodeKeys(j) /\ Doing(j, {"setCode"})' \subseteq Doing(j, {"setCode"})
      BY <1>7, <2>2, <1>d, <1>0, HandoffAssumption DEF TakeCode, CodeKeys, Doing, Goto, TypeOK
    <3>4. QED
      BY <1>7, <3>2, <3>3, <1>0 DEF TakeCode, UserKnown
  <2>3. QED
    BY <1>7, <2>1, <2>2 DEF TakeCode
<1>8. ASSUME NEW p \in Proc, NotReady(p) PROVE UserKnown(j)'
  BY <1>8, <1>e DEF NotReady
<1>9. ASSUME NEW p \in Proc, ResolveUser(p) PROVE UserKnown(j)'
  BY <1>9, <1>0 DEF ResolveUser, Goto, At, UserKnown, Doing, CodeKeys, Claims, TypeOK
<1>10. ASSUME NEW p \in Proc, IssueSession(p) PROVE UserKnown(j)'
  BY <1>10, <1>e DEF IssueSession
<1>11. ASSUME NEW p \in Proc, RefuseSession(p) PROVE UserKnown(j)'
  BY <1>11, <1>e DEF RefuseSession
<1>12. ASSUME NEW p \in Proc, LostReply(p) PROVE UserKnown(j)'
  <2>1. End(p) /\ UNCHANGED who
    BY <1>12 DEF LostReply
  <2>2. CASE UNCHANGED codes
    BY <2>1, <2>2, <1>e
  <2>3. CASE At(p, "setCode") /\ \E k \in Key : codes' = SetIfAbsent(codes, k, req[p].signIn)
    BY <2>1, <2>3, <1>p
  <2>4. CASE codes' = ConsumeIfExact(codes, req[p].key, req[p].found)
    BY <2>1, <2>4, <1>d, <1>e
  <2>5. QED
    BY <1>12, <2>2, <2>3, <2>4 DEF LostReply, Unanswered
<1>13. ASSUME NEW p \in Proc, Fail(p) PROVE UserKnown(j)'
  BY <1>13, <1>e DEF Fail
<1>14. ASSUME NEW s \in Server, Probe(s) PROVE UserKnown(j)'
  BY <1>14, <1>u DEF Probe
<1>15. ASSUME NEW i \in SignIn, Lapse(i) PROVE UserKnown(j)'
  BY <1>15, <1>u DEF Lapse
<1>16. ASSUME NEW k \in Key, Evict(k) PROVE UserKnown(j)'
  BY <1>16, <1>0, HandoffAssumption
     DEF Evict, UserKnown, Doing, CodeKeys, Claims, At, TypeOK
<1>17. ASSUME Administer PROVE UserKnown(j)'
  BY <1>17, <1>u DEF Administer
<1>18. QED
  BY <1>1, <1>2, <1>3, <1>4, <1>5, <1>6, <1>7, <1>8, <1>9, <1>10, <1>11, <1>12,
     <1>13, <1>14, <1>15, <1>16, <1>17 DEF Next, Step

\* Sessions keep the user of their sign-in.
LEMMA SessionStep ==
  ASSUME IInv, Next, NEW n \in Token
  PROVE  SessionInv(n)'
<1> USE DEF redis, storeVars
<1>0. TypeOK /\ SessionInv(n)
  BY DEF IInv
<1>u. ASSUME UNCHANGED <<row, by>>, \A i \in SignIn : SessionsOf(i) # {} => who'[i] = who[i]
      PROVE  SessionInv(n)'
  BY <1>u, <1>0 DEF SessionInv, SessionsOf, TypeOK
<1>w. ASSUME UNCHANGED <<row, by, who>> PROVE SessionInv(n)'
  BY <1>w, <1>u
<1>1. ASSUME NEW p \in Proc, StartPasswordSignIn(p) PROVE SessionInv(n)'
  <2>1. \A i \in SignIn : SessionsOf(i) # {} => who'[i] = who[i]
    BY <1>1, <1>0 DEF StartPasswordSignIn, IInv, NoCarrier, TypeOK
  <2>2. QED
    BY <1>1, <2>1, <1>u DEF StartPasswordSignIn, Arrive
<1>2. ASSUME NEW p \in Proc, ResolveUser(p) PROVE SessionInv(n)'
  <2>1. req[p].signIn \in SignIn /\ p \in Requests(req[p].signIn)
    BY <1>2 DEF IInv, RequestInv, TypeOK, ResolveUser, At, Requests, Doing
  <2>2. \A i \in SignIn : SessionsOf(i) # {} => who'[i] = who[i]
    BY <1>2, <2>1, <1>0, RequestCarrier DEF ResolveUser, TypeOK
  <2>3. QED
    BY <1>2, <2>2, <1>u DEF ResolveUser
<1>3. ASSUME NEW p \in Proc, IssueSession(p) PROVE SessionInv(n)'
  <2>1. PICK m \in Token :
           Issue(who[req[p].found], m) /\ by' = [by EXCEPT ![m] = req[p].signIn]
    BY <1>3 DEF IssueSession
  <2>2. req[p].signIn = req[p].found /\ UNCHANGED who
    BY <1>3 DEF IInv, RequestInv, IssueSession, At
  <2>3. CASE n = m
    BY <2>1, <2>2, <2>3, <1>0 DEF Issue, SessionInv, TypeOK, StoreTypeOK
  <2>4. CASE n # m
    BY <2>1, <2>2, <2>4, <1>0 DEF Issue, SessionInv, TypeOK, StoreTypeOK
  <2>5. QED
    BY <2>3, <2>4
<1>4. ASSUME Administer PROVE SessionInv(n)'
  <2>1. PICK u \in User, s \in Statuses : SetStatus(u, s)
    BY <1>4 DEF Administer
  <2>2. row'[n].user = row[n].user /\ (row[n].state # "unused" => row'[n].state # "unused")
    BY <2>1, <1>0 DEF SetStatus, Moved, LiveOf, TypeOK, StoreTypeOK, Row
  <2>3. QED
    BY <1>4, <2>2, <1>0 DEF Administer, SessionInv
<1>5. QED
  BY <1>w, <1>1, <1>2, <1>3, <1>4 DEF Next, Start, Step, StartOAuth, StartCallback,
     StartExchange, Arrive, CreateState, ConsumeState, CreateCode, GetCode, DropExpired,
     TakeCode, NotReady, RefuseSession, LostReply, Fail, Probe, Lapse, Evict

\* What a request has still to act on stays as it was when it was read.
LEMMA RequestStep ==
  ASSUME IInv, Next, NEW q \in Proc
  PROVE  RequestInv(q)'
<1> USE HandoffAssumption, StoreAssumption DEF IInv, TypeOK, StoreTypeOK, Row, Request, At,
    Goto, redis, storeVars, RequestInv, NoCarrier, StateKeys, CodeKeys
<1>1. ASSUME NEW p \in Proc, StartOAuth(p) PROVE RequestInv(q)'
  BY <1>1 DEF StartOAuth, Arrive, NoRequest
<1>2. ASSUME NEW p \in Proc, StartPasswordSignIn(p) PROVE RequestInv(q)'
  BY <1>2 DEF StartPasswordSignIn, Arrive, NoRequest
<1>3. ASSUME NEW p \in Proc, StartCallback(p) PROVE RequestInv(q)'
  BY <1>3 DEF StartCallback, Arrive, NoRequest
<1>4. ASSUME NEW p \in Proc, StartExchange(p) PROVE RequestInv(q)'
  BY <1>4 DEF StartExchange, Arrive, NoRequest
<1>5. ASSUME NEW p \in Proc, CreateState(p) PROVE RequestInv(q)'
  BY <1>5 DEF CreateState, SetIfAbsent, Redraw, End, NoRequest
<1>6. ASSUME NEW p \in Proc, ConsumeState(p) PROVE RequestInv(q)'
  BY <1>6 DEF ConsumeState, Consume, End, NoRequest
<1>7. ASSUME NEW p \in Proc, CreateCode(p) PROVE RequestInv(q)'
  BY <1>7 DEF CreateCode, SetIfAbsent, Redraw, End, NoRequest
<1>8. ASSUME NEW p \in Proc, GetCode(p) PROVE RequestInv(q)'
  BY <1>8 DEF GetCode, End, NoRequest, Binds
<1>9. ASSUME NEW p \in Proc, DropExpired(p) PROVE RequestInv(q)'
  BY <1>9 DEF DropExpired, ConsumeIfExact, End, NoRequest
<1>10. ASSUME NEW p \in Proc, TakeCode(p) PROVE RequestInv(q)'
  BY <1>10 DEF TakeCode, ConsumeIfExact, End, NoRequest
<1>11. ASSUME NEW p \in Proc, NotReady(p) PROVE RequestInv(q)'
  BY <1>11 DEF NotReady, End, NoRequest
<1>12. ASSUME NEW p \in Proc, ResolveUser(p) PROVE RequestInv(q)'
  BY <1>12 DEF ResolveUser
<1>13. ASSUME NEW p \in Proc, IssueSession(p) PROVE RequestInv(q)'
  BY <1>13 DEF IssueSession, Issue, End, NoRequest
<1>14. ASSUME NEW p \in Proc, RefuseSession(p) PROVE RequestInv(q)'
  BY <1>14 DEF RefuseSession, End, NoRequest
<1>15. ASSUME NEW p \in Proc, LostReply(p) PROVE RequestInv(q)'
  BY <1>15 DEF LostReply, Unanswered, SetIfAbsent, Consume, ConsumeIfExact, End, NoRequest
<1>16. ASSUME NEW p \in Proc, Fail(p) PROVE RequestInv(q)'
  BY <1>16 DEF Fail, End, NoRequest
<1>17. ASSUME NEW s \in Server, Probe(s) PROVE RequestInv(q)'
  BY <1>17 DEF Probe
<1>18. ASSUME NEW i \in SignIn, Lapse(i) PROVE RequestInv(q)'
  BY <1>18 DEF Lapse
<1>19. ASSUME NEW k \in Key, Evict(k) PROVE RequestInv(q)'
  BY <1>19 DEF Evict
<1>20. ASSUME Administer PROVE RequestInv(q)'
  BY <1>20 DEF Administer, SetStatus, Moved, Barred
<1>21. QED
  BY <1>1, <1>2, <1>3, <1>4, <1>5, <1>6, <1>7, <1>8, <1>9, <1>10, <1>11, <1>12,
     <1>13, <1>14, <1>15, <1>16, <1>17, <1>18, <1>19, <1>20 DEF Next, Start, Step
-----------------------------------------------------------------------------
\* IInv holds of every reachable state, for every set of keys, sign-ins,
\* requests, servers, users and tokens.
THEOREM HandoffInvariant == Spec => []IInv
<1>1. Init => IInv
  <2> SUFFICES ASSUME Init PROVE IInv
    OBVIOUS
  <2>1. TypeOK
    BY HandoffAssumption DEF Init, StoreInit, TypeOK, StoreTypeOK, Row, Unused, Status,
       PC, NoRequest, Request
  <2>2. \A i \in SignIn : NoCarrier(i)
    BY HandoffAssumption DEF Init, NoCarrier, StateKeys, Requests, Doing, Claims, At,
       CodeKeys, SessionsOf
  <2>3. \A i \in SignIn : OneCarrier(i) /\ UserKnown(i)
    BY <2>2 DEF NoCarrier, OneCarrier, AtMostOne, UserKnown, Init, Requests, Doing, Claims,
       CodeKeys, At
  <2>4. /\ \A p \in Proc : RequestInv(p)
        /\ \A n \in Token : SessionInv(n)
    BY DEF Init, RequestInv, SessionInv, At
  <2>5. QED
    BY <2>1, <2>2, <2>3, <2>4 DEF IInv
<1>2. IInv /\ [Next]_vars => IInv'
  <2>1. ASSUME IInv, Next PROVE IInv'
    <3>1. \A i \in SignIn : Shrinks(i) \/ Moves(i)
      BY <2>1, CarrierStep
    <3>2. \A i \in SignIn : OneCarrier(i)'
      BY <2>1, <3>1 DEF IInv, Shrinks, Moves, OneCarrier, AtMostOne
    <3>3. begun \subseteq begun'
      BY <2>1, BegunGrows
    <3>4. \A i \in SignIn \ begun' : NoCarrier(i)'
      BY <2>1, <3>1, <3>3 DEF IInv, Shrinks, Moves, NoCarrier
    <3>5. QED
      BY <2>1, <3>2, <3>4, TypeStep, UserKnownStep, RequestStep, SessionStep DEF IInv
  <2>2. ASSUME IInv, UNCHANGED vars PROVE IInv'
    BY <2>2 DEF vars, redis, storeVars, IInv, TypeOK, StoreTypeOK, LiveOf, OneCarrier,
       NoCarrier, UserKnown, RequestInv, SessionInv, StateKeys, Requests, Doing, Claims, At,
       CodeKeys, SessionsOf, AtMostOne
  <2>3. QED
    BY <2>1, <2>2
<1>3. QED
  BY <1>1, <1>2, PTL DEF Spec

\* However often a state or a code is presented, its sign-in gets one session
\* (OAuthStateStore.consume, AuthHandoffStore.consume, exchange_auth_handoff).
THEOREM OneSession == Spec => []OneSessionPerSignIn
<1>1. IInv => OneSessionPerSignIn
  BY DEF IInv, TypeOK, OneCarrier, AtMostOne, SessionsOf, OneSessionPerSignIn
<1>2. QED
  BY <1>1, HandoffInvariant, PTL

\* The client that holds the verifier of a sign-in gets the session of the
\* user who signed in there (the binding check of AuthHandoffStore.consume).
THEOREM OwnSession == Spec => []SessionOfOwnSignIn
<1>1. IInv => SessionOfOwnSignIn
  BY DEF IInv, SessionInv, SessionOfOwnSignIn
<1>2. QED
  BY <1>1, HandoffInvariant, PTL

\* Neither a wrong binding, nor the cleanup of an expired record, nor a
\* colliding draw takes a live code from its client.
THEOREM LiveCode == Spec => LiveCodeSpentOnlyByItsClient
<1> DEFINE Spent(k) == \/ codes[k] \in stale
                       \/ \E p \in Proc : /\ At(p, "take")
                                          /\ req[p].key = k
                                          /\ req[p].signIn = codes[k]
<1>1. ASSUME IInv, [Next]_vars, NEW k \in Key, codes[k] # None, codes'[k] # codes[k]
      PROVE  Spent(k)
  <2> USE DEF redis
  <2>0. codes \in [Key -> SignIn \cup {None}]
    BY <1>1 DEF IInv, TypeOK
  <2>1. ASSUME NEW p \in Proc, NEW l \in Key, NEW i, codes' = SetIfAbsent(codes, l, i)
        PROVE  FALSE
    BY <1>1, <2>0, <2>1 DEF SetIfAbsent
  <2>2. ASSUME NEW p \in Proc, pc[p] \in {"drop", "take"},
               codes' = ConsumeIfExact(codes, req[p].key, req[p].found)
        PROVE  Spent(k)
    <3>1. req[p].key = k /\ req[p].found = codes[k]
      BY <1>1, <2>0, <2>2 DEF ConsumeIfExact
    <3>2. QED
      BY <1>1, <2>2, <3>1 DEF IInv, RequestInv, At
  <2>3. ASSUME NEW p \in Proc, LostReply(p) PROVE Spent(k)
    BY <1>1, <2>1, <2>2, <2>3 DEF LostReply, Unanswered
  <2>4. ASSUME NEW l \in Key, Evict(l) PROVE Spent(k)
    BY <1>1, <2>0, <2>4 DEF Evict
  <2>5. ASSUME NEW p \in Proc, CreateCode(p) PROVE Spent(k)
    BY <2>1, <2>5 DEF CreateCode
  <2>6. ASSUME NEW p \in Proc, DropExpired(p) PROVE Spent(k)
    BY <2>2, <2>6 DEF DropExpired, At
  <2>7. ASSUME NEW p \in Proc, TakeCode(p) PROVE Spent(k)
    BY <2>2, <2>7 DEF TakeCode, At
  <2>8. QED
    BY <1>1, <2>3, <2>4, <2>5, <2>6, <2>7 DEF Next, vars, Start, Step, StartOAuth,
       StartPasswordSignIn, StartCallback, StartExchange, Arrive, CreateState, ConsumeState,
       GetCode, NotReady, ResolveUser, IssueSession, RefuseSession, Fail, Probe, Lapse,
       Administer
<1>2. IInv /\ [Next]_vars =>
        [\A k \in Key : codes[k] # None /\ codes'[k] # codes[k] => Spent(k)]_vars
  BY <1>1
<1>3. QED
  BY <1>2, HandoffInvariant, PTL DEF Spec, LiveCodeSpentOnlyByItsClient

\* A consumed state or code is never usable again, whatever fails later.
THEOREM NeverBack == Spec => SignInNeverGoesBack
<1>1. IInv /\ [Next]_vars => [\A i \in SignIn : Stage(i)' >= Stage(i)]_vars
  <2> SUFFICES ASSUME IInv, Next PROVE \A i \in SignIn : Stage(i)' >= Stage(i)
    OBVIOUS
  <2>1. begun \subseteq begun'
    BY BegunGrows
  <2>2. QED
    BY <2>1, CarrierStep, ShrinkStage DEF Moves
<1>2. QED
  BY <1>1, HandoffInvariant, PTL DEF Spec, SignInNeverGoesBack
=============================================================================
