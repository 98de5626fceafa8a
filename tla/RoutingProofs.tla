---------------------------- MODULE RoutingProofs ----------------------------
(***************************************************************************)
(* Theorems about Routing.tla: for any number of messages, copies, attempts,*)
(* prices and faults, the account's transactions never leave a gap, and     *)
(* Route keeps the promise of Provider.tla.                                 *)
(***************************************************************************)
EXTENDS Routing, FiniteSetTheorems, TLAPS

OpenL == {"routed", "signed", "waiting"}

(* The pool holds one transaction at most, of the account's nonce; what is   *)
(* signed is not ahead of it.                                               *)
OnePending ==
  /\ \A t \in pool : t.nonce = nonce
  /\ \A t, u \in pool : t = u
  /\ \A g \in Routes : att[g].pc = "signed" =>
       att[g].nonce <= nonce /\ att[g].price \in Prices

Called(g) == att[g].pc \notin {"idle", "spawned"}

(* Every call and every transaction is for a message that was routed; a     *)
(* good result is one of a message that was received.                       *)
Honest ==
  /\ \A g \in Routes : att[g].pc # "idle" => att[g].msg \in Msgs
  /\ \A g \in Routes : Called(g) => att[g].msg \in asked
  /\ \A g \in Routes : att[g].result = "ok" => att[g].msg \in received
  /\ \A t \in pool : t.msg \in asked
  /\ loose \subseteq asked

IInv == TypeOK /\ OnePending /\ Honest

-----------------------------------------------------------------------------
LEMMA InitIInv == Init => IInv
<1> SUFFICES ASSUME Init PROVE IInv
  OBVIOUS
<1>1. \A g \in Routes : att[g] = NoAttempt
  BY DEF Init
<1>2. TypeOK
  BY RoutingAssumption DEF Init, TypeOK, NoAttempt
<1>3. \A g \in Routes : att[g].pc = "idle" /\ att[g].result = "none"
  BY <1>1 DEF NoAttempt
<1>4. OnePending
  BY <1>3 DEF Init, OnePending
<1>5. Honest
  BY <1>3 DEF Init, Honest, Called
<1> QED
  BY <1>2, <1>4, <1>5 DEF IInv

AttemptType ==
  [pc : {"idle", "spawned", "routed", "signed", "waiting", "again"},
   msg : Msgs \cup {Nil}, copy : 0 .. MaxCopies, nonce : Nat,
   price : Prices \cup {0},
   polls : 0 .. PollLimit, result : {"none", "ok", "failed"}]

(* What the step of one attempt does to the rest of the state.              *)
Untouched == UNCHANGED <<dest, copy, nonce, asked>>
PoolKept ==
  /\ pool' \subseteq [msg : Msgs, nonce : Nat, price : Prices]
  /\ \A t \in pool' : t.nonce = nonce /\ t.msg \in asked
  /\ \A t, u \in pool' : t = u

(* The step of an attempt g that goes on with its message or ends keeps the *)
(* invariant.                                                               *)
LEMMA AttemptKeeps ==
  ASSUME IInv, NEW g \in Routes, Called(g),
         att' \in [Routes -> AttemptType],
         \A h \in Routes \ {g} : att'[h] = att[h],
         att'[g].pc # "idle" => att'[g].msg = att[g].msg,
         att'[g].pc = "signed" =>
           att'[g].nonce <= nonce /\ att'[g].price \in Prices,
         att'[g].result = "ok" => att'[g].msg \in received',
         processing' \subseteq processing,
         received \subseteq received', received' \subseteq Msgs,
         done' \subseteq Msgs, told' \subseteq asked,
         loose' \subseteq asked, faults' \in 0 .. MaxFaults,
         Untouched, PoolKept
  PROVE  IInv'
<1> USE DEF Untouched, PoolKept
<1>1. TypeOK'
  BY DEF IInv, TypeOK, AttemptType
<1>2. OnePending'
  <2>1. \A h \in Routes : att'[h].pc = "signed" =>
          att'[h].nonce <= nonce /\ att'[h].price \in Prices
    BY DEF IInv, OnePending
  <2> QED
    BY <2>1 DEF OnePending
<1>3. Honest'
  <2>1. att[g].msg \in asked /\ att[g].msg \in Msgs
    BY DEF IInv, TypeOK, Honest
  <2>2. \A h \in Routes : /\ att'[h].pc # "idle" => att'[h].msg \in Msgs
                          /\ Called(h)' => att'[h].msg \in asked
    BY <2>1 DEF IInv, Honest, Called
  <2>3. \A h \in Routes : att'[h].result = "ok" => att'[h].msg \in received'
    BY DEF IInv, Honest
  <2> QED
    BY <2>2, <2>3 DEF IInv, Honest
<1> QED
  BY <1>1, <1>2, <1>3 DEF IInv

(* The pool stays, or g's transaction enters it.                            *)
LEMMA PoolStays == IInv /\ pool' = pool => PoolKept
  BY DEF IInv, TypeOK, OnePending, Honest, PoolKept

LEMMA PoolEntered ==
  ASSUME IInv, NEW g \in Routes, att[g].pc = "signed", Accepts(Tx(g)),
         Enter(Tx(g))
  PROVE  PoolKept
<1>1. /\ Tx(g).nonce = att[g].nonce /\ Tx(g).msg = att[g].msg
      /\ Tx(g).price = att[g].price
  BY DEF Tx
<1>2. Tx(g).nonce = nonce
  BY <1>1 DEF IInv, OnePending, TypeOK, Accepts
<1>3. att[g].msg \in asked /\ asked \subseteq Msgs
  BY DEF IInv, TypeOK, Honest, Called
<1>4. pool' = {Tx(g)}
  BY <1>2 DEF IInv, OnePending, Enter, Rivals
<1>5. att[g].price \in Prices
  BY DEF IInv, OnePending
<1> QED
  BY <1>1, <1>2, <1>3, <1>4, <1>5 DEF IInv, TypeOK, PoolKept, Tx

LEMMA EndOfAttempt ==
  ASSUME IInv, NEW g \in Routes, End(g)
  PROVE  /\ att' \in [Routes -> AttemptType]
         /\ att'[g] = NoAttempt
         /\ \A h \in Routes \ {g} : att'[h] = att[h]
<1>1. att \in [Routes -> AttemptType] /\ NoAttempt \in AttemptType
  BY RoutingAssumption DEF IInv, TypeOK, AttemptType, NoAttempt
<1> QED
  BY <1>1 DEF End

(* A call ends in a failure, its error or its callback.                     *)
Ends(g) == End(g) /\ (FailedCall(g) \/ Failed(g))

(* A call fails, and what it did to the node leaves the pool in order.      *)
LEMMA FailKeeps ==
  ASSUME IInv, NEW g \in Routes, Called(g), Ends(g),
         faults' \in 0 .. MaxFaults, loose' \subseteq asked,
         Untouched, UNCHANGED received, PoolKept
  PROVE  IInv'
<1>1. /\ att' \in [Routes -> AttemptType]
      /\ att'[g].pc = "idle" /\ att'[g].result = "none"
      /\ \A h \in Routes \ {g} : att'[h] = att[h]
  BY EndOfAttempt DEF Ends, NoAttempt
<1>2. /\ processing' \subseteq processing
      /\ done' \subseteq Msgs /\ told' \subseteq asked
      /\ received' \subseteq Msgs
  BY DEF Ends, FailedCall, Failed, IInv, TypeOK
<1> QED
  BY <1>1, <1>2, AttemptKeeps

LEMMA FaultBounded == IInv /\ (Fault \/ UNCHANGED faults) => faults' \in 0 .. MaxFaults
  BY RoutingAssumption DEF IInv, TypeOK, Fault

(* The attempt fails and the node keeps what it had.                        *)
LEMMA FailAloneKeeps ==
  ASSUME IInv, NEW g \in Routes, Called(g), Ends(g),
         Fault \/ UNCHANGED faults, UNCHANGED <<dest, node, asked>>
  PROVE  IInv'
<1>1. PoolKept
  BY PoolStays DEF node
<1>2. loose' \subseteq asked
  BY DEF IInv, Honest, node
<1> QED
  BY <1>1, <1>2, FaultBounded, FailKeeps
  DEF Untouched, node, Ends, FailedCall, Failed

LEMMA LetGoKeeps ==
  ASSUME IInv, NEW g \in Routes, Called(g), LetGo(g),
         Fault \/ UNCHANGED faults
  PROVE  IInv'
<1>1. PoolKept
  BY PoolStays DEF LetGo
<1>2. loose' \subseteq asked
  BY DEF IInv, Honest, LetGo
<1> QED
  BY <1>1, <1>2, FaultBounded, FailKeeps DEF LetGo, Ends, Failed, Untouched

(* The callback with the result of the transaction.                         *)
LEMMA ReportKeeps ==
  ASSUME IInv, NEW g \in Routes, Called(g), Report(g),
         UNCHANGED <<dest, node, faults, asked>>
  PROVE  IInv'
<1>1. CASE att[g].result = "ok"
  <2>1. /\ att' \in [Routes -> AttemptType]
        /\ att'[g].pc = "idle" /\ att'[g].result = "none"
        /\ \A h \in Routes \ {g} : att'[h] = att[h]
    BY <1>1, EndOfAttempt DEF Report, NoAttempt
  <2>2. att[g].msg \in asked /\ asked \subseteq Msgs
    BY DEF IInv, Honest, TypeOK
  <2>3. /\ processing' \subseteq processing /\ copy' = copy
        /\ done' \subseteq Msgs /\ told' \subseteq asked
    BY <1>1, <2>2 DEF Report, Succeeded, IInv, TypeOK
  <2>4. PoolKept
    BY PoolStays DEF node
  <2>5. /\ received' = received /\ received' \subseteq Msgs
        /\ loose' \subseteq asked /\ faults' \in 0 .. MaxFaults
    BY DEF IInv, TypeOK, Honest, node
  <2> QED
    BY <2>1, <2>3, <2>4, <2>5, AttemptKeeps DEF Untouched, node
<1>2. CASE att[g].result # "ok"
  BY <1>2, FailAloneKeeps DEF Report, Ends
<1> QED
  BY <1>1, <1>2

(* An attempt goes on with its message.                                     *)
LEMMA GoesOnKeeps ==
  ASSUME IInv, NEW g \in Routes, NEW a \in AttemptType, Called(g),
         att' = [att EXCEPT ![g] = a], a.msg = att[g].msg,
         a.pc = "signed" => a.nonce <= nonce /\ a.price \in Prices,
         a.result = "ok" => a.msg \in received',
         received \subseteq received', received' \subseteq Msgs,
         PoolKept, Fault \/ UNCHANGED faults,
         UNCHANGED <<dest, processing, copy, done, nonce, loose, history>>
  PROVE  IInv'
<1>1. /\ att' \in [Routes -> AttemptType] /\ att'[g] = a
      /\ \A h \in Routes \ {g} : att'[h] = att[h]
  BY DEF IInv, TypeOK, AttemptType
<1>2. /\ faults' \in 0 .. MaxFaults /\ done' \subseteq Msgs
      /\ told' \subseteq asked /\ loose' \subseteq asked /\ Untouched
  BY FaultBounded DEF IInv, TypeOK, Honest, history, Untouched
<1> QED
  BY <1>1, <1>2, AttemptKeeps

LEMMA AttemptIsTyped ==
  ASSUME IInv, NEW g \in Routes
  PROVE  att[g] \in AttemptType
  BY DEF IInv, TypeOK, AttemptType

LEMMA RouteKeeps ==
  ASSUME IInv, NEW g \in Routes, Route(g)
  PROVE  IInv'
<1>1. att \in [Routes -> AttemptType] /\ att[g].pc = "spawned"
  BY DEF IInv, TypeOK, AttemptType, Route, At
<1>2. att[g].msg \in Msgs
  BY <1>1 DEF IInv, Honest
<1>3. /\ att' \in [Routes -> AttemptType]
      /\ att'[g].pc = "routed" /\ att'[g].msg = att[g].msg
      /\ att'[g].result = att[g].result
      /\ \A h \in Routes \ {g} : att'[h] = att[h]
  BY <1>1 DEF Route, AttemptType
<1>4. /\ processing' \subseteq processing \cup {att[g].msg}
      /\ asked' = asked \cup {att[g].msg}
      /\ UNCHANGED <<dest, copy, done, node, faults, told>>
  BY DEF Route
<1>5. TypeOK'
  BY <1>2, <1>3, <1>4 DEF IInv, TypeOK, AttemptType, node
<1>6. OnePending'
  BY <1>3, <1>4 DEF IInv, OnePending, node
<1>7. Honest'
  <2>1. \A h \in Routes : /\ att'[h].pc # "idle" => att'[h].msg \in Msgs
                          /\ Called(h)' => att'[h].msg \in asked'
    BY <1>2, <1>3, <1>4 DEF IInv, Honest, Called
  <2>2. \A h \in Routes : att'[h].result = "ok" => att'[h].msg \in received'
    BY <1>3, <1>4 DEF IInv, Honest, node
  <2> QED
    BY <1>4, <2>1, <2>2 DEF IInv, Honest, node
<1> QED
  BY <1>5, <1>6, <1>7 DEF IInv

LEMMA WorkKeeps ==
  ASSUME IInv, NEW g \in Routes, Work(g)
  PROVE  IInv'
<1>0. att[g] \in AttemptType /\ att \in [Routes -> AttemptType]
  BY AttemptIsTyped DEF IInv, TypeOK, AttemptType
<1>1. CASE GetTransationOpts(g)
  <2>1. PICK price \in Prices :
          att' = [att EXCEPT ![g].pc = "signed", ![g].nonce = nonce,
                             ![g].price = price]
    BY <1>1 DEF GetTransationOpts
  <2> DEFINE a == [att[g] EXCEPT !.pc = "signed", !.nonce = nonce,
                                 !.price = price]
  <2>2. att' = [att EXCEPT ![g] = a] /\ a \in AttemptType
    BY <1>0, <2>1 DEF IInv, TypeOK, AttemptType
  <2>3. /\ a.msg = att[g].msg /\ a.nonce = nonce /\ a.price = price
        /\ a.result = att[g].result
    BY <1>0 DEF AttemptType
  <2>4. a.result = "ok" => a.msg \in received
    BY <2>3 DEF IInv, Honest
  <2>5. PoolKept
    BY <1>1, PoolStays DEF GetTransationOpts, node
  <2>6. nonce <= nonce
    BY DEF IInv, TypeOK
  <2> HIDE DEF a
  <2> QED
    BY <1>1, <2>2, <2>3, <2>4, <2>5, <2>6, GoesOnKeeps
    DEF GetTransationOpts, At, Called, node, IInv, TypeOK
<1>2. CASE NodeError(g)
  BY <1>2, FailAloneKeeps DEF NodeError, Fail, Ends, At, Called
<1>3. CASE Refused(g)
  BY <1>3, FailAloneKeeps DEF Refused, Fail, Ends, At, Called
<1>4. CASE SendTransaction(g)
  <2> DEFINE a == [att[g] EXCEPT !.pc = "waiting"]
  <2>1. att' = [att EXCEPT ![g] = a] /\ a \in AttemptType
    BY <1>0, <1>4 DEF SendTransaction, AttemptType
  <2>2. /\ a.msg = att[g].msg /\ a.pc = "waiting"
        /\ a.result = att[g].result
    BY <1>0 DEF AttemptType
  <2>3. a.result = "ok" => a.msg \in received
    BY <2>2 DEF IInv, Honest
  <2>4. PoolKept
    BY <1>4, PoolEntered DEF SendTransaction, At
  <2> HIDE DEF a
  <2> QED
    BY <1>4, <2>1, <2>2, <2>3, <2>4, GoesOnKeeps
    DEF SendTransaction, At, Called, IInv, TypeOK
<1>5. CASE AnswerLost(g)
  <2>1. PoolKept
    BY <1>5, PoolEntered DEF AnswerLost, At
  <2>2. loose' \subseteq asked
    BY <1>5 DEF AnswerLost, IInv, Honest
  <2> QED
    BY <1>5, <2>1, <2>2, FaultBounded, FailKeeps
    DEF AnswerLost, Fail, FailedCall, Ends, At, Called, Untouched
<1>6. CASE EstimateFails(g)
  BY <1>6, FailAloneKeeps DEF EstimateFails, Fail, Ends, At, Called
<1>7. CASE IconSend(g)
  <2> DEFINE a == [att[g] EXCEPT !.pc = "waiting"]
  <2>1. att' = [att EXCEPT ![g] = a] /\ a \in AttemptType
    BY <1>0, <1>7 DEF IconSend, AttemptType
  <2>2. /\ a.msg = att[g].msg /\ a.pc = "waiting"
        /\ a.result = att[g].result
    BY <1>0 DEF AttemptType
  <2>3. a.result = "ok" => a.msg \in received
    BY <2>2 DEF IInv, Honest
  <2>4. PoolKept
    BY <1>7, PoolStays DEF IconSend, node
  <2> HIDE DEF a
  <2> QED
    BY <1>7, <2>1, <2>2, <2>3, <2>4, GoesOnKeeps
    DEF IconSend, At, Called, node, IInv, TypeOK
<1>8. CASE IconAnswerLost(g)
  <2>1. PoolKept
    BY <1>8, PoolStays DEF IconAnswerLost
  <2>2. loose' \subseteq asked
    BY <1>8 DEF IconAnswerLost, At, IInv, Honest, Called
  <2> QED
    BY <1>8, <2>1, <2>2, FaultBounded, FailKeeps
    DEF IconAnswerLost, Fail, FailedCall, Ends, At, Called, Untouched
<1>9. CASE Poll(g)
  <2> DEFINE a == [att[g] EXCEPT !.polls = @ + 1]
  <2>1. att' = [att EXCEPT ![g] = a] /\ a \in AttemptType
    BY <1>0, <1>9, RoutingAssumption DEF Poll, AttemptType
  <2>2. /\ a.msg = att[g].msg /\ a.pc = "waiting"
        /\ a.result = att[g].result
    BY <1>0, <1>9 DEF AttemptType, Poll, At
  <2>3. a.result = "ok" => a.msg \in received
    BY <2>2 DEF IInv, Honest
  <2>4. PoolKept
    BY <1>9, PoolStays DEF Poll, node
  <2> HIDE DEF a
  <2> QED
    BY <1>9, <2>1, <2>2, <2>3, <2>4, GoesOnKeeps
    DEF Poll, At, Called, node, IInv, TypeOK
<1>10. CASE LimitExceeded(g)
  BY <1>10, LetGoKeeps DEF LimitExceeded, At, Called
<1>11. CASE PollError(g)
  BY <1>11, LetGoKeeps DEF PollError, At, Called
<1>12. CASE Callback(g)
  BY <1>12, ReportKeeps DEF Callback, At, Called
<1>13. CASE CallbackUnreadable(g)
  <2> DEFINE a == [att[g] EXCEPT !.pc = "again"]
  <2>1. att' = [att EXCEPT ![g] = a] /\ a \in AttemptType
    BY <1>0, <1>13 DEF CallbackUnreadable, AttemptType
  <2>2. /\ a.msg = att[g].msg /\ a.pc = "again"
        /\ a.result = att[g].result
    BY <1>0 DEF AttemptType
  <2>3. a.result = "ok" => a.msg \in received
    BY <2>2 DEF IInv, Honest
  <2>4. PoolKept
    BY <1>13, PoolStays DEF CallbackUnreadable, node
  <2> HIDE DEF a
  <2>5. /\ att' \in [Routes -> AttemptType] /\ att'[g] = a
        /\ \A h \in Routes \ {g} : att'[h] = att[h]
    BY <1>0, <2>1
  <2>6. /\ processing' \subseteq processing
        /\ faults' \in 0 .. MaxFaults /\ done' \subseteq Msgs
        /\ told' \subseteq asked /\ loose' \subseteq asked
        /\ received' = received /\ received' \subseteq Msgs
        /\ Untouched /\ Called(g)
    BY <1>13, FaultBounded
    DEF CallbackUnreadable, At, Called, Failed, node, Untouched, IInv, TypeOK,
        Honest
  <2> QED
    BY <2>2, <2>3, <2>4, <2>5, <2>6, AttemptKeeps
<1>14. CASE CallbackAgain(g)
  BY <1>14, ReportKeeps DEF CallbackAgain, At, Called
<1>15. CASE Route(g)
  BY <1>15, RouteKeeps
<1> QED
  BY <1>1, <1>2, <1>3, <1>4, <1>5, <1>6, <1>7, <1>8, <1>9, <1>10, <1>11,
     <1>12, <1>13, <1>14, <1>15 DEF Work, Wait

LEMMA ExecuteKeeps ==
  ASSUME IInv, NEW g \in Routes, NEW ok \in BOOLEAN, Execute(g, ok)
  PROVE  IInv'
<1> DEFINE a == [att[g] EXCEPT !.result = IF ok THEN "ok" ELSE "failed"]
<1>1. att[g] \in AttemptType /\ att[g].pc = "waiting"
  BY AttemptIsTyped DEF Execute, At
<1>2. att' = [att EXCEPT ![g] = a] /\ a \in AttemptType
  BY <1>1 DEF Execute, AttemptType, IInv, TypeOK
<1>3. /\ a.msg = att[g].msg /\ a.pc = "waiting"
      /\ a.result = IF ok THEN "ok" ELSE "failed"
  BY <1>1 DEF AttemptType
<1>4. att[g].msg \in Msgs
  BY <1>1 DEF IInv, TypeOK, Honest
<1>5. /\ received \subseteq received' /\ received' \subseteq Msgs
      /\ ok => att[g].msg \in received'
  BY <1>4 DEF Execute, IInv, TypeOK
<1>6. PoolKept
  BY PoolStays DEF Execute
<1>7. Fault \/ UNCHANGED faults
  BY DEF Execute
<1> HIDE DEF a
<1> QED
  BY <1>1, <1>2, <1>3, <1>5, <1>6, <1>7, GoesOnKeeps DEF Execute, Called

(* A step of nobody's attempt.                                              *)
LEMMA NodeKeeps ==
  ASSUME IInv, UNCHANGED <<dest, att, told, asked>>,
         processing' \subseteq processing, copy' \in [Msgs -> 0 .. MaxCopies],
         done' \subseteq Msgs, nonce' = nonce, PoolKept,
         received \subseteq received', received' \subseteq Msgs,
         loose' \subseteq asked, faults' \in 0 .. MaxFaults
  PROVE  IInv'
<1>1. TypeOK'
  BY DEF IInv, TypeOK, PoolKept
<1>2. OnePending'
  BY DEF IInv, OnePending, PoolKept
<1>3. Honest'
  BY DEF IInv, Honest, Called, PoolKept
<1> QED
  BY <1>1, <1>2, <1>3 DEF IInv

LEMMA MineKeeps ==
  ASSUME IInv, NEW ok \in BOOLEAN, Mine(ok)
  PROVE  IInv'
<1>1. PICK t \in pool :
        /\ t.nonce = nonce
        /\ ok => t.msg \notin received
        /\ IF ok \/ t.msg \in received THEN UNCHANGED faults ELSE Fault
        /\ pool' = pool \ {t}
        /\ nonce' = nonce + 1
        /\ received' = IF ok THEN received \cup {t.msg} ELSE received
        /\ att' = [g \in Routes |->
                    IF At(g, "waiting") /\ Tx(g) = t
                    THEN [att[g] EXCEPT !.result = IF ok THEN "ok" ELSE "failed"]
                    ELSE att[g]]
        /\ UNCHANGED <<dest, processing, copy, done, loose, history>>
  BY DEF Mine
<1>2. pool' = {} /\ t.msg \in Msgs /\ nonce \in Nat
  BY <1>1 DEF IInv, TypeOK, OnePending
<1>3. att \in [Routes -> AttemptType]
  BY DEF IInv, TypeOK, AttemptType
<1>4. ASSUME NEW g \in Routes
      PROVE  /\ att'[g] \in AttemptType
             /\ att'[g].pc = att[g].pc /\ att'[g].msg = att[g].msg
             /\ att'[g].nonce = att[g].nonce /\ att'[g].price = att[g].price
             /\ \/ att'[g].result = att[g].result
                \/ att'[g].result = "ok" /\ ok /\ att[g].msg = t.msg
                \/ att'[g].result = "failed"
  <2>1. CASE At(g, "waiting") /\ Tx(g) = t
    <3>1. att'[g] = [att[g] EXCEPT !.result = IF ok THEN "ok" ELSE "failed"]
      BY <1>1, <2>1
    <3>2. att[g].msg = t.msg
      BY <2>1 DEF Tx
    <3> QED
      BY <1>3, <3>1, <3>2 DEF AttemptType
  <2>2. CASE ~ (At(g, "waiting") /\ Tx(g) = t)
    BY <1>1, <1>3, <2>2
  <2> QED
    BY <2>1, <2>2
<1>5. att' \in [Routes -> AttemptType]
  <2>1. DOMAIN att' = Routes /\ att' = [g \in Routes |-> att'[g]]
    BY <1>1
  <2> QED
    BY <1>4, <2>1
<1>6. faults' \in 0 .. MaxFaults
  BY <1>1, FaultBounded
<1>7. received \subseteq received' /\ received' \subseteq Msgs
  BY <1>1, <1>2 DEF IInv, TypeOK
<1>8. TypeOK'
  BY <1>1, <1>2, <1>5, <1>6, <1>7 DEF IInv, TypeOK, AttemptType, history
<1>9. OnePending'
  <2>1. ASSUME NEW g \in Routes, att'[g].pc = "signed"
        PROVE  att'[g].nonce <= nonce' /\ att'[g].price \in Prices
    <3>1. att[g].nonce <= nonce /\ att[g].price \in Prices
      BY <1>4, <2>1 DEF IInv, OnePending
    <3>2. att[g].nonce \in Nat
      BY <1>3 DEF AttemptType
    <3> QED
      BY <1>1, <1>2, <1>4, <3>1, <3>2
  <2> QED
    BY <1>2, <2>1 DEF OnePending
<1>10. Honest'
  <2>1. \A g \in Routes : /\ att'[g].pc # "idle" => att'[g].msg \in Msgs
                          /\ Called(g)' => att'[g].msg \in asked
    BY <1>4 DEF IInv, Honest, Called
  <2>2. \A g \in Routes : att'[g].result = "ok" => att'[g].msg \in received'
    BY <1>1, <1>4 DEF IInv, Honest
  <2> QED
    BY <1>1, <1>2, <2>1, <2>2 DEF IInv, Honest, history
<1> QED
  BY <1>8, <1>9, <1>10 DEF IInv

LEMMA SpawnKeeps ==
  ASSUME IInv, NEW m \in Msgs, Spawn(m)
  PROVE  IInv'
<1> DEFINE a == [NoAttempt EXCEPT !.pc = "spawned", !.msg = m, !.copy = copy[m]]
<1>1. PICK g \in Routes : att' = [att EXCEPT ![g] = a]
  BY DEF Spawn
<1>2. a \in AttemptType /\ a.pc = "spawned" /\ a.msg = m /\ a.result = "none"
  <2>1. NoAttempt \in AttemptType /\ NoAttempt.result = "none"
    BY RoutingAssumption DEF AttemptType, NoAttempt
  <2>2. copy[m] \in 0 .. MaxCopies
    BY DEF IInv, TypeOK
  <2> QED
    BY <2>1, <2>2 DEF AttemptType
<1> HIDE DEF a
<1>3. /\ att' \in [Routes -> AttemptType] /\ att'[g] = a
      /\ \A h \in Routes \ {g} : att'[h] = att[h]
  BY <1>1, <1>2 DEF IInv, TypeOK, AttemptType
<1>4. UNCHANGED <<dest, processing, copy, done, node, faults, history>>
  BY DEF Spawn
<1>5. TypeOK'
  BY <1>3, <1>4 DEF IInv, TypeOK, AttemptType, node, history
<1>6. OnePending'
  BY <1>2, <1>3, <1>4 DEF IInv, OnePending, node
<1>7. Honest'
  BY <1>2, <1>3, <1>4 DEF IInv, Honest, Called, node, history
<1> QED
  BY <1>5, <1>6, <1>7 DEF IInv

LEMMA RecachedKeeps ==
  ASSUME IInv, NEW m \in Msgs, Recached(m)
  PROVE  IInv'
<1>1. copy' \in [Msgs -> 0 .. MaxCopies]
  <2>1. copy[m] \in Nat /\ copy[m] < MaxCopies
    BY DEF Recached, IInv, TypeOK
  <2>2. copy[m] + 1 \in 0 .. MaxCopies
    BY <2>1, RoutingAssumption
  <2> QED
    BY <2>2 DEF Recached, IInv, TypeOK
<1>2. PoolKept
  BY PoolStays DEF Recached, node
<1> QED
  BY <1>1, <1>2, NodeKeeps DEF Recached, IInv, TypeOK, Honest, node, history

LEMMA NextKeeps == IInv /\ [Next]_vars => IInv'
<1> SUFFICES ASSUME IInv, [Next]_vars PROVE IInv'
  OBVIOUS
<1>1. ASSUME NEW m \in Msgs, ClearReceived(m) PROVE IInv'
  <2>1. PoolKept
    BY <1>1, PoolStays DEF ClearReceived, node
  <2> QED
    BY <1>1, <2>1, NodeKeeps
    DEF ClearReceived, IInv, TypeOK, Honest, node, history
<1>2. ASSUME NEW m \in Msgs, Spawn(m) \/ Recached(m) PROVE IInv'
  BY <1>2, SpawnKeeps, RecachedKeeps
<1>3. ASSUME NEW m \in Msgs, ExecuteLoose(m) PROVE IInv'
  <2>1. PoolKept
    BY <1>3, PoolStays DEF ExecuteLoose
  <2> QED
    BY <1>3, <2>1, NodeKeeps DEF ExecuteLoose, IInv, TypeOK, Honest, history
<1>4. ASSUME NEW g \in Routes, Work(g) PROVE IInv'
  BY <1>4, WorkKeeps
<1>5. ASSUME NEW g \in Routes, NEW ok \in BOOLEAN, Execute(g, ok) PROVE IInv'
  BY <1>5, ExecuteKeeps
<1>6. ASSUME NEW ok \in BOOLEAN, Mine(ok) PROVE IInv'
  BY <1>6, MineKeeps
<1>7. CASE Evict
  <2>1. pool' \subseteq pool
    BY <1>7 DEF Evict
  <2>2. PoolKept
    BY <2>1 DEF IInv, TypeOK, OnePending, Honest, PoolKept
  <2> QED
    BY <1>7, <2>2, FaultBounded, NodeKeeps
    DEF Evict, IInv, TypeOK, Honest, history
<1>8. CASE UNCHANGED vars
  <2>1. PoolKept
    BY <1>8, PoolStays DEF vars, node
  <2> QED
    BY <1>8, <2>1, NodeKeeps DEF vars, IInv, TypeOK, Honest, node, history
<1> QED
  BY <1>1, <1>2, <1>3, <1>4, <1>5, <1>6, <1>7, <1>8 DEF Next

LEMMA Invariance == Spec => []IInv
<1> QED
  BY InitIInv, NextKeeps, PTL DEF Spec

(* Types, with the poll counter within retryLimit (evm/provider.go:131-156, *)
(* icon/client.go:135-165).                                                 *)
THEOREM TypeCorrect == Spec => []TypeOK
<1>1. IInv => TypeOK
  BY DEF IInv
<1> QED
  BY Invariance, <1>1, PTL

(* The nonce of the latest block (evm/provider.go:210) makes all messages    *)
(* compete for one place in the pool and never leaves a gap in it.          *)
THEOREM NeverAGap == Spec => []NoGap
<1>1. IInv => NoGap
  <2>1. SUFFICES ASSUME IInv
                 PROVE  Cardinality(pool) <= 1
    BY DEF IInv, OnePending, NoGap
  <2>2. CASE pool = {}
    BY <2>2, FS_EmptySet
  <2>3. CASE pool # {}
    <3>1. PICK t \in pool : TRUE
      BY <2>3
    <3>2. pool = {t}
      BY <2>1, <3>1 DEF IInv, OnePending
    <3>3. Cardinality({t}) = 1
      BY FS_Singleton
    <3> QED
      BY <3>2, <3>3
  <2> QED
    BY <2>2, <2>3
<1> QED
  BY Invariance, <1>1, PTL

-----------------------------------------------------------------------------
(* The refinement of Provider.tla: how a step changes what open and owed    *)
(* stand for.                                                               *)
Open == [m \in Msgs |-> Calls(m, OpenL)]
Owed == [m \in Msgs |-> Calls(m, {"again"})]

LEMMA CallsSame ==
  ASSUME NEW m, NEW L,
         \A g \in Routes : (att'[g].msg = m /\ att'[g].pc \in L)
                             <=> (att[g].msg = m /\ att[g].pc \in L)
  PROVE  Calls(m, L)' = Calls(m, L)
<1>1. {g \in Routes : att'[g].msg = m /\ att'[g].pc \in L}
        = {g \in Routes : att[g].msg = m /\ att[g].pc \in L}
  OBVIOUS
<1> QED
  BY <1>1 DEF Calls

LEMMA CallsTyped ==
  ASSUME NEW m, NEW L
  PROVE  /\ Calls(m, L) \in Nat
         /\ (\A g \in Routes : ~ (att[g].msg = m /\ att[g].pc \in L))
              => Calls(m, L) = 0
<1> DEFINE S == {g \in Routes : att[g].msg = m /\ att[g].pc \in L}
<1>1. IsFiniteSet(S)
  BY RoutingAssumption, FS_Subset
<1>2. Cardinality(S) \in Nat
  BY <1>1, FS_CardinalityType
<1>3. S = {} => Cardinality(S) = 0
  BY FS_EmptySet
<1> QED
  BY <1>2, <1>3 DEF Calls

LEMMA CallsLess ==
  ASSUME NEW m, NEW L, NEW g \in Routes,
         att[g].msg = m, att[g].pc \in L,
         ~ (att'[g].msg = m /\ att'[g].pc \in L),
         \A h \in Routes \ {g} : att'[h] = att[h]
  PROVE  Calls(m, L) > 0 /\ Calls(m, L)' = Calls(m, L) - 1
<1> DEFINE S == {h \in Routes : att[h].msg = m /\ att[h].pc \in L}
           T == {h \in Routes : att'[h].msg = m /\ att'[h].pc \in L}
<1>1. IsFiniteSet(S)
  BY RoutingAssumption, FS_Subset
<1>2. T = S \ {g} /\ g \in S
  OBVIOUS
<1>3. Cardinality(T) = Cardinality(S) - 1
  BY <1>1, <1>2, FS_RemoveElement
<1>4. Cardinality(S) \in Nat /\ Cardinality(S) # 0
  BY <1>1, <1>2, FS_CardinalityType, FS_EmptySet
<1> QED
  BY <1>3, <1>4 DEF Calls

LEMMA CallsMore ==
  ASSUME NEW m, NEW L, NEW g \in Routes,
         ~ (att[g].msg = m /\ att[g].pc \in L),
         att'[g].msg = m, att'[g].pc \in L,
         \A h \in Routes \ {g} : att'[h] = att[h]
  PROVE  Calls(m, L)' = Calls(m, L) + 1
<1> DEFINE S == {h \in Routes : att[h].msg = m /\ att[h].pc \in L}
           T == {h \in Routes : att'[h].msg = m /\ att'[h].pc \in L}
<1>1. IsFiniteSet(S)
  BY RoutingAssumption, FS_Subset
<1>2. T = S \cup {g} /\ g \notin S
  OBVIOUS
<1>3. Cardinality(T) = Cardinality(S) + 1
  BY <1>1, <1>2, FS_AddElement
<1> QED
  BY <1>3 DEF Calls

(* No attempt changes its message, nor from open to owed to ended.          *)
Quiet ==
  \A g \in Routes : /\ att'[g].msg = att[g].msg
                    /\ att'[g].pc \in OpenL <=> att[g].pc \in OpenL
                    /\ att'[g].pc = "again" <=> att[g].pc = "again"

LEMMA QuietStep ==
  ASSUME Quiet
  PROVE  Open' = Open /\ Owed' = Owed
<1>1. ASSUME NEW m \in Msgs
      PROVE  /\ Calls(m, OpenL)' = Calls(m, OpenL)
             /\ Calls(m, {"again"})' = Calls(m, {"again"})
  <2>1. Calls(m, OpenL)' = Calls(m, OpenL)
    BY CallsSame DEF Quiet
  <2>2. Calls(m, {"again"})' = Calls(m, {"again"})
    BY CallsSame DEF Quiet
  <2> QED
    BY <2>1, <2>2
<1> QED
  BY <1>1 DEF Open, Owed

(* The call that attempt g stands for leaves the open ones, ...             *)
LEMMA OpenLess ==
  ASSUME NEW g \in Routes, NEW m \in Msgs, att[g].msg = m, att[g].pc \in OpenL,
         att'[g].pc \notin OpenL, \A h \in Routes \ {g} : att'[h] = att[h]
  PROVE  /\ Open[m] > 0
         /\ Open' = [Open EXCEPT ![m] = @ - 1]
<1>1. Calls(m, OpenL) > 0 /\ Calls(m, OpenL)' = Calls(m, OpenL) - 1
  BY CallsLess
<1>2. ASSUME NEW n \in Msgs \ {m}
      PROVE  Calls(n, OpenL)' = Calls(n, OpenL)
  BY CallsSame
<1> QED
  BY <1>1, <1>2 DEF Open

(* ... or the ones that are owed a second answer.                           *)
LEMMA OwedLess ==
  ASSUME NEW g \in Routes, NEW m \in Msgs, att[g].msg = m,
         att[g].pc = "again", att'[g].pc # "again",
         \A h \in Routes \ {g} : att'[h] = att[h]
  PROVE  /\ Owed[m] > 0
         /\ Owed' = [Owed EXCEPT ![m] = @ - 1]
<1>1. Calls(m, {"again"}) > 0 /\ Calls(m, {"again"})' = Calls(m, {"again"}) - 1
  BY CallsLess
<1>2. ASSUME NEW n \in Msgs \ {m}
      PROVE  Calls(n, {"again"})' = Calls(n, {"again"})
  BY CallsSame
<1> QED
  BY <1>1, <1>2 DEF Owed

LEMMA OpenSame ==
  ASSUME NEW g \in Routes, att[g].pc \notin OpenL, att'[g].pc \notin OpenL,
         \A h \in Routes \ {g} : att'[h] = att[h]
  PROVE  Open' = Open
<1>1. ASSUME NEW n \in Msgs
      PROVE  Calls(n, OpenL)' = Calls(n, OpenL)
  BY CallsSame
<1> QED
  BY <1>1 DEF Open

LEMMA OwedSame ==
  ASSUME NEW g \in Routes, att[g].pc # "again", att'[g].pc # "again",
         \A h \in Routes \ {g} : att'[h] = att[h]
  PROVE  Owed' = Owed
<1>1. ASSUME NEW n \in Msgs
      PROVE  Calls(n, {"again"})' = Calls(n, {"again"})
  BY CallsSame
<1> QED
  BY <1>1 DEF Owed

(* The end of an attempt is the answer to its call.                         *)
Told(m) == UNCHANGED told \/ (m \in received /\ told' = told \cup {m})

LEMMA EndAnswers ==
  ASSUME IInv, NEW g \in Routes, att[g].pc \in OpenL \cup {"again"}, End(g),
         UNCHANGED <<dest, asked, received>>, Told(att[g].msg)
  PROVE  Answers!Next
<1>1. PICK m \in Msgs : att[g].msg = m
  BY DEF IInv, TypeOK, Honest, OpenL
<1>2. att'[g].pc = "idle" /\ \A h \in Routes \ {g} : att'[h] = att[h]
  BY EndOfAttempt DEF NoAttempt
<1>3. Answers!Success(m) \/ Answers!Failure
  BY <1>1 DEF Told, Answers!Success, Answers!Failure
<1>4. CASE att[g].pc \in OpenL
  <2>1. Open[m] > 0 /\ Open' = [Open EXCEPT ![m] = @ - 1]
    BY <1>1, <1>2, <1>4, OpenLess DEF OpenL
  <2>2. Owed' = Owed
    BY <1>2, <1>4, OwedSame DEF OpenL
  <2>3. Answers!Answer(m)
    BY <1>3, <2>1, <2>2 DEF Answers!Answer, Answers!Less, Open, Owed, OpenL
  <2> QED
    BY <2>3 DEF Answers!Next
<1>5. CASE att[g].pc = "again"
  <2>1. Owed[m] > 0 /\ Owed' = [Owed EXCEPT ![m] = @ - 1]
    BY <1>1, <1>2, <1>5, OwedLess
  <2>2. Open' = Open
    BY <1>2, <1>5, OpenSame DEF OpenL
  <2>3. Answers!AnswerAgain(m)
    BY <1>3, <2>1, <2>2 DEF Answers!AnswerAgain, Answers!Less, Open, Owed, OpenL
  <2> QED
    BY <2>3 DEF Answers!Next
<1> QED
  BY <1>4, <1>5

(* A step that ends no attempt and begins none, and may let the destination *)
(* receive a message.                                                       *)
LEMMA QuietIsReceive ==
  ASSUME IInv, Quiet, UNCHANGED <<dest, asked, told>>,
         \/ UNCHANGED received
         \/ \E m \in asked : received' = received \cup {m}
  PROVE  [Answers!Next]_(Answers!vars)
<1>1. Open' = Open /\ Owed' = Owed
  BY QuietStep
<1>2. CASE UNCHANGED received
  BY <1>1, <1>2 DEF Answers!vars, Open, Owed, OpenL
<1>3. ASSUME NEW m \in asked, received' = received \cup {m}
      PROVE  Answers!Next
  <2>1. m \in Msgs
    BY DEF IInv, TypeOK
  <2>2. Answers!Receive(m)
    BY <1>1, <1>3 DEF Answers!Receive, Open, Owed, OpenL
  <2> QED
    BY <2>1, <2>2 DEF Answers!Next
<1> QED
  BY <1>2, <1>3

(* The goroutine's call of Route, which may not be the only one for its     *)
(* message.                                                                 *)
LEMMA RouteAsks ==
  ASSUME IInv, NEW g \in Routes, Route(g)
  PROVE  Answers!Next
<1>1. att \in [Routes -> AttemptType] /\ att[g].pc = "spawned"
  BY DEF IInv, TypeOK, AttemptType, Route, At
<1>2. PICK m \in Msgs : att[g].msg = m
  BY <1>1 DEF IInv, Honest
<1>3. /\ att'[g].pc = "routed" /\ att'[g].msg = m
      /\ \A h \in Routes \ {g} : att'[h] = att[h]
  BY <1>1, <1>2 DEF Route, AttemptType
<1>4. Calls(m, OpenL)' = Calls(m, OpenL) + 1
  BY <1>1, <1>3, CallsMore DEF OpenL
<1>5. ASSUME NEW n \in Msgs \ {m}
      PROVE  Calls(n, OpenL)' = Calls(n, OpenL)
  BY <1>1, <1>2, <1>3, CallsSame DEF OpenL
<1>6. Open' = [Open EXCEPT ![m] = @ + 1]
  BY <1>4, <1>5 DEF Open
<1>7. Owed' = Owed
  BY <1>1, <1>3, OwedSame
<1>8. Answers!Ask(m)
  BY <1>2, <1>6, <1>7 DEF Route, node, Answers!Ask, Open, Owed, OpenL
<1> QED
  BY <1>8 DEF Answers!Next

(* Steps of one attempt.                                                    *)
LEMMA QuietAttempt ==
  ASSUME IInv, NEW g \in Routes,
         \A h \in Routes \ {g} : att'[h] = att[h],
         att'[g].msg = att[g].msg,
         att[g].pc \in OpenL, att'[g].pc \in OpenL
  PROVE  Quiet
  BY DEF Quiet, OpenL

LEMMA WorkAnswers ==
  ASSUME IInv, NEW g \in Routes, Work(g)
  PROVE  [Answers!Next]_(Answers!vars)
<1>0. att \in [Routes -> AttemptType]
  BY DEF IInv, TypeOK, AttemptType
<1>1. ASSUME Fail(g), att[g].pc \in OpenL, UNCHANGED <<dest, asked, received>>
      PROVE  Answers!Next
  BY <1>1, EndAnswers DEF Fail, FailedCall, Told
<1>2. ASSUME Report(g), att[g].pc \in OpenL \cup {"again"},
             UNCHANGED <<dest, asked, received>>
      PROVE  Answers!Next
  <2>1. att[g].result = "ok" => att[g].msg \in received
    BY DEF IInv, Honest
  <2>2. Told(att[g].msg)
    BY <1>2, <2>1 DEF Report, Succeeded, Failed, Told
  <2> QED
    BY <1>2, <2>2, EndAnswers DEF Report
<1>3. CASE NodeError(g) \/ Refused(g) \/ AnswerLost(g) \/ EstimateFails(g)
           \/ IconAnswerLost(g)
  BY <1>1, <1>3
  DEF NodeError, Refused, AnswerLost, EstimateFails, IconAnswerLost, At,
      OpenL, node
<1>4. CASE LimitExceeded(g) \/ PollError(g)
  BY <1>4, EndAnswers
  DEF LimitExceeded, PollError, LetGo, Failed, Told, At, OpenL
<1>5. CASE Callback(g) \/ CallbackAgain(g)
  BY <1>2, <1>5 DEF Callback, CallbackAgain, At, OpenL, node
<1>6. CASE GetTransationOpts(g) \/ SendTransaction(g) \/ IconSend(g) \/ Poll(g)
  <2>1. /\ \A h \in Routes \ {g} : att'[h] = att[h]
        /\ att'[g].msg = att[g].msg /\ att'[g].pc \in OpenL
        /\ att[g].pc \in OpenL
    BY <1>0, <1>6
    DEF GetTransationOpts, SendTransaction, IconSend, Poll, At, AttemptType,
        OpenL
  <2>2. UNCHANGED <<dest, asked, told, received>>
    BY <1>6
    DEF GetTransationOpts, SendTransaction, IconSend, Poll, node, history
  <2> QED
    BY <2>1, <2>2, QuietAttempt, QuietIsReceive
<1>7. CASE CallbackUnreadable(g)
  <2>1. PICK m \in Msgs : att[g].msg = m
    BY <1>7 DEF CallbackUnreadable, At, IInv, TypeOK, Honest, Called
  <2>2. /\ att[g].pc = "waiting" /\ att'[g].pc = "again"
        /\ att'[g].msg = m
        /\ \A h \in Routes \ {g} : att'[h] = att[h]
    BY <1>0, <1>7, <2>1 DEF CallbackUnreadable, At, AttemptType
  <2>3. Open[m] > 0 /\ Open' = [Open EXCEPT ![m] = @ - 1]
    BY <2>1, <2>2, OpenLess DEF OpenL
  <2>4. Calls(m, {"again"})' = Calls(m, {"again"}) + 1
    BY <2>1, <2>2, CallsMore
  <2>5. ASSUME NEW n \in Msgs \ {m}
        PROVE  Calls(n, {"again"})' = Calls(n, {"again"})
    BY <2>1, <2>2, CallsSame
  <2>6. Owed' = [Owed EXCEPT ![m] = @ + 1]
    BY <2>4, <2>5 DEF Owed
  <2>7. Answers!AnswerFirst(m)
    BY <1>7, <2>3, <2>6
    DEF CallbackUnreadable, Failed, node, Answers!AnswerFirst, Answers!Less,
        Answers!Failure, Open, Owed, OpenL
  <2> QED
    BY <2>7 DEF Answers!Next
<1>8. CASE Route(g)
  BY <1>8, RouteAsks
<1> QED
  BY <1>3, <1>4, <1>5, <1>6, <1>7, <1>8 DEF Work, Wait

LEMMA NextAnswers == IInv /\ [Next]_vars => [Answers!Next]_(Answers!vars)
<1> SUFFICES ASSUME IInv, [Next]_vars PROVE [Answers!Next]_(Answers!vars)
  OBVIOUS
<1>0. att \in [Routes -> AttemptType] /\ asked \subseteq Msgs
  BY DEF IInv, TypeOK, AttemptType
<1>1. CASE \/ UNCHANGED vars
           \/ \E m \in Msgs : ClearReceived(m) \/ Recached(m)
           \/ Evict
  <2>1. Quiet /\ UNCHANGED <<dest, asked, told, received>>
    BY <1>1 DEF vars, node, history, ClearReceived, Recached, Evict, Quiet
  <2> QED
    BY <2>1, QuietIsReceive
<1>2. ASSUME NEW m \in Msgs, Spawn(m)
      PROVE  [Answers!Next]_(Answers!vars)
  <2>1. PICK g \in Routes :
          /\ att[g].pc = "idle"
          /\ att' = [att EXCEPT ![g] = [NoAttempt EXCEPT !.pc = "spawned",
                                            !.msg = m, !.copy = copy[m]]]
    BY <1>2 DEF Spawn, At
  <2>2. att'[g].pc = "spawned" /\ \A h \in Routes \ {g} : att'[h] = att[h]
    BY <1>0, <2>1 DEF NoAttempt
  <2>3. Open' = Open /\ Owed' = Owed
    BY <2>1, <2>2, OpenSame, OwedSame DEF OpenL
  <2> QED
    BY <1>2, <2>3 DEF Spawn, node, history, Answers!vars, Open, Owed, OpenL
<1>3. ASSUME NEW m \in Msgs, ExecuteLoose(m)
      PROVE  [Answers!Next]_(Answers!vars)
  <2>1. Quiet /\ UNCHANGED <<dest, asked, told>>
    BY <1>3 DEF ExecuteLoose, history, Quiet
  <2>2. m \in asked /\ received' = received \cup {m}
    BY <1>3 DEF ExecuteLoose, IInv, Honest
  <2> QED
    BY <2>1, <2>2, QuietIsReceive
<1>4. ASSUME NEW g \in Routes, Work(g) PROVE [Answers!Next]_(Answers!vars)
  BY <1>4, WorkAnswers
<1>5. ASSUME NEW g \in Routes, NEW ok \in BOOLEAN, Execute(g, ok)
      PROVE  [Answers!Next]_(Answers!vars)
  <2>1. /\ \A h \in Routes \ {g} : att'[h] = att[h]
        /\ att'[g].msg = att[g].msg /\ att'[g].pc \in OpenL
        /\ att[g].pc \in OpenL
    BY <1>0, <1>5 DEF Execute, At, AttemptType, OpenL
  <2>2. Quiet
    BY <2>1, QuietAttempt
  <2>3. att[g].msg \in asked
    BY <1>5 DEF Execute, At, IInv, Honest, Called
  <2>4. UNCHANGED <<dest, asked, told>>
    BY <1>5 DEF Execute, history
  <2>5. UNCHANGED received \/ received' = received \cup {att[g].msg}
    BY <1>5 DEF Execute
  <2> QED
    BY <2>2, <2>3, <2>4, <2>5, QuietIsReceive
<1>6. ASSUME NEW ok \in BOOLEAN, Mine(ok)
      PROVE  [Answers!Next]_(Answers!vars)
  <2>1. PICK t \in pool :
          /\ received' = IF ok THEN received \cup {t.msg} ELSE received
          /\ att' = [g \in Routes |->
               IF At(g, "waiting") /\ Tx(g) = t
               THEN [att[g] EXCEPT !.result = IF ok THEN "ok" ELSE "failed"]
               ELSE att[g]]
          /\ UNCHANGED <<dest, processing, copy, done, loose, history>>
    BY <1>6 DEF Mine
  <2>2. Quiet
    <3>1. ASSUME NEW g \in Routes
          PROVE  att'[g].msg = att[g].msg /\ att'[g].pc = att[g].pc
      BY <1>0, <2>1 DEF AttemptType
    <3> QED
      BY <3>1 DEF Quiet
  <2>3. t.msg \in asked
    BY DEF IInv, Honest
  <2> QED
    BY <2>1, <2>2, <2>3, QuietIsReceive DEF history
<1> QED
  BY <1>1, <1>2, <1>3, <1>4, <1>5, <1>6 DEF Next

(* Route answers every call once, or twice on ICON, and reports a success    *)
(* only of a message its destination has received (evm/route.go:16-83,      *)
(* icon/route.go:19-147), however many calls for one message the engine has *)
(* out (relay.go:216, 268, 353): Provider.tla is all it needs to know.      *)
THEOREM KeepsPromise == Spec => ImplementsProvider
<1>1. Init => Answers!Init
  <2> SUFFICES ASSUME Init PROVE Answers!Init
    OBVIOUS
  <2>1. \A g \in Routes : att[g].pc = "idle"
    BY DEF Init, NoAttempt
  <2>2. \A m \in Msgs : Open[m] = 0 /\ Owed[m] = 0
    BY <2>1, CallsTyped DEF Open, Owed, OpenL
  <2>3. Open = [m \in Msgs |-> 0] /\ Owed = Open
    BY <2>2 DEF Open, Owed
  <2> QED
    BY <2>3 DEF Init, Answers!Init, Open, Owed, OpenL
<1> QED
  BY <1>1, Invariance, NextAnswers, PTL DEF Spec, ImplementsProvider, Answers!Spec
=============================================================================
