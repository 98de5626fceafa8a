------------------------------ MODULE Routing ------------------------------
(***************************************************************************)
(* How the providers route a message: Route, SendTransaction and            *)
(* WaitForTxResult of chains/evm/route.go and chains/icon/route.go, with    *)
(* GetTransationOpts and WaitForResults of evm/provider.go and the same of   *)
(* icon/client.go, and the node and the contract at the other end.          *)
(*                                                                         *)
(* All messages go to one chain, of either kind (dest).  Of the engine      *)
(* (Relayer.tla) there is the router's check of the destination, the flag    *)
(* IsProcessing, the copies that take the place of a cache entry, and what  *)
(* the callback does to them.  The flag is set by the goroutine the router  *)
(* has started and is part of the copy that goroutine holds: several calls  *)
(* of Route can be out for one message.                                     *)
(*                                                                         *)
(* An EVM transaction is made for the nonce the account has in the latest    *)
(* block, so transactions of one account compete for one place in the       *)
(* node's pool, and are the same transaction when message, nonce and price  *)
(* are.  An ICON transaction has a timestamp and is always a new one.       *)
(***************************************************************************)
EXTENDS Naturals, FiniteSets

CONSTANTS
  Msgs,
  Routes,       \* bound: attempts alive at once, numbered
  Prices,       \* gas prices
  PollLimit,    \* retryLimit of WaitForResults: 10 for EVM, 20 for ICON
  Copied,       \* bound: messages of which new copies get into the cache,
  MaxCopies,    \* and how many of each
  MaxFaults,    \* bound: errors of the node, evictions, unreadable results
  Nil

ASSUME RoutingAssumption ==
  /\ Routes \subseteq Nat /\ IsFiniteSet(Routes) /\ Prices \subseteq Nat
  /\ PollLimit \in Nat \ {0} /\ MaxFaults \in Nat /\ MaxCopies \in Nat
  /\ Copied \subseteq Msgs /\ Nil \notin Msgs

VARIABLES
  dest,         \* the kind of the destination chain
  att,          \* the RouteMessage goroutines and their transactions
  processing,   \* messages whose cache entry has IsProcessing set
  copy,         \* per message, the number of the copy in the cache
  done,         \* messages cleared from the cache
  received,     \* messages the contract has received
  nonce,        \* EVM: the account's nonce in the latest block
  pool,         \* EVM: the account's pending transactions
  loose,        \* ICON: messages of accepted transactions nobody waits for
  faults,
  told, asked   \* history: successes reported, messages routed

node    == <<received, nonce, pool, loose>>
history == <<told, asked>>
vars    == <<dest, att, processing, copy, done, node, faults, history>>

NoAttempt == [pc |-> "idle", msg |-> Nil, copy |-> 0, nonce |-> 0, price |-> 0,
              polls |-> 0, result |-> "none"]

Init ==
  /\ dest \in {"evm", "icon"}
  /\ att = [g \in Routes |-> NoAttempt]
  /\ processing = {} /\ copy = [m \in Msgs |-> 0] /\ done = {}
  /\ received = {} /\ nonce = 0 /\ pool = {} /\ loose = {}
  /\ faults = 0
  /\ told = {} /\ asked = {}

Fault == faults < MaxFaults /\ faults' = faults + 1

At(g, l) == att[g].pc = l

-----------------------------------------------------------------------------
(* The engine.                                                              *)

(* processMessages: the destination is asked first, ...                     *)
ClearReceived(m) ==
  /\ m \notin done /\ m \notin processing /\ m \in received
  /\ done' = done \cup {m}
  /\ UNCHANGED <<dest, att, processing, copy, node, faults, history>>

(* ... then a goroutine is started, with the copy that is in the cache.     *)
Spawn(m) ==
  LET free == {g \in Routes : At(g, "idle")} IN
  /\ m \notin done /\ m \notin processing /\ m \notin received
  /\ \E g \in free :
       /\ \A h \in free : g <= h
       /\ att' = [att EXCEPT ![g] = [NoAttempt EXCEPT !.pc = "spawned",
                                         !.msg = m, !.copy = copy[m]]]
  /\ UNCHANGED <<dest, processing, copy, done, node, faults, history>>

(* The copy the attempt holds is still the one in the cache.                *)
Holds(g) == att[g].copy = copy[att[g].msg]

(* A mutant: the message is marked by its key, whichever copy is cached.    *)
RouteByKey(g) ==
  /\ At(g, "spawned")
  /\ att' = [att EXCEPT ![g].pc = "routed"]
  /\ processing' = processing \cup {att[g].msg}
  /\ asked' = asked \cup {att[g].msg}
  /\ UNCHANGED <<dest, copy, done, node, faults, told>>

(* RouteMessage: SetIsProcessing on that copy, and the call of Route.        *)
Route(g) ==
  /\ At(g, "spawned")
  /\ att' = [att EXCEPT ![g].pc = "routed"]
  /\ processing' = IF Holds(g) THEN processing \cup {att[g].msg}
                   ELSE processing
  /\ asked' = asked \cup {att[g].msg}
  /\ UNCHANGED <<dest, copy, done, node, faults, told>>

(* A flush of the message's record, or the merge of a block read again, puts *)
(* a new copy into the cache, whatever is out for the old one.  (A record    *)
(* with IsProcessing set is never routed again: see Relayer.)               *)
Recached(m) ==
  /\ m \in Copied /\ copy[m] < MaxCopies
  /\ copy' = [copy EXCEPT ![m] = @ + 1]
  /\ processing' = processing \ {m}
  /\ done' = done \ {m}
  /\ UNCHANGED <<dest, att, node, faults, history>>

(* HandleMessageFailed by the callback, which takes the copy from the cache  *)
(* (what it stores after DefaultTxRetry attempts comes back by Recached), ...*)
Failed(g) ==
  /\ processing' = processing \ {att[g].msg}
  /\ UNCHANGED <<copy, done, told>>

(* ... and by an error of Route, with the copy the goroutine holds.         *)
FailedCall(g) ==
  /\ processing' = IF Holds(g) THEN processing \ {att[g].msg} ELSE processing
  /\ UNCHANGED <<copy, done, told>>

(* The callback with Success: the message is cleared.                       *)
Succeeded(g) ==
  /\ told' = told \cup {att[g].msg}
  /\ done' = done \cup {att[g].msg}
  /\ UNCHANGED <<processing, copy>>

End(g) == att' = [att EXCEPT ![g] = NoAttempt]

(* Route fails and its goroutine ends.                                      *)
Fail(g) == End(g) /\ FailedCall(g)

-----------------------------------------------------------------------------
(* EVM.                                                                     *)

Tx(g) == [msg |-> att[g].msg, nonce |-> att[g].nonce, price |-> att[g].price]

(* A mutant: the nonce of the account's next pending transaction.          *)
OptsPending(g) ==
  /\ dest = "evm" /\ At(g, "routed")
  /\ \E price \in Prices :
       att' = [att EXCEPT ![g].pc = "signed",
                          ![g].nonce = nonce + Cardinality(pool),
                          ![g].price = price]
  /\ UNCHANGED <<dest, processing, copy, done, node, faults, history>>

(* GetTransationOpts: the nonce is the one at the latest height, the price   *)
(* is configured or the node's suggestion.                                  *)
GetTransationOpts(g) ==
  /\ dest = "evm" /\ At(g, "routed")
  /\ \E price \in Prices :
       att' = [att EXCEPT ![g].pc = "signed", ![g].nonce = nonce,
                          ![g].price = price]
  /\ UNCHANGED <<dest, processing, copy, done, node, faults, history>>

(* The node cannot be asked for height or nonce, or not for the estimation   *)
(* of steps on ICON.                                                        *)
NodeError(g) ==
  /\ At(g, "routed") /\ Fault
  /\ Fail(g)
  /\ UNCHANGED <<dest, node, asked>>

(* What the node's pool does with a transaction.                            *)
Rivals(t) == {u \in pool : u.nonce = t.nonce}
Accepts(t) == /\ t.nonce >= nonce
              /\ \A u \in Rivals(t) : u.price < t.price
Enter(t) == pool' = (pool \ Rivals(t)) \cup {t}

(* Nonce too low, already known, replacement underpriced; or the gas        *)
(* estimation finds that the contract has received the message.             *)
Refused(g) ==
  /\ At(g, "signed")
  /\ ~Accepts(Tx(g)) \/ att[g].msg \in received
  /\ Fail(g)
  /\ UNCHANGED <<dest, node, faults, asked>>

(* ReceiveMessage: the transaction is in the pool, and replaces one of the   *)
(* same nonce.                                                              *)
SendTransaction(g) ==
  /\ At(g, "signed") /\ Accepts(Tx(g))
  /\ Enter(Tx(g))
  /\ att' = [att EXCEPT ![g].pc = "waiting"]
  /\ UNCHANGED <<dest, processing, copy, done, received, nonce, loose, faults,
                 history>>

(* The transaction is in the pool, but the answer is lost.                  *)
AnswerLost(g) ==
  /\ At(g, "signed") /\ Accepts(Tx(g)) /\ Fault
  /\ Enter(Tx(g))
  /\ Fail(g)
  /\ UNCHANGED <<dest, received, nonce, loose, asked>>

(* A block with the pool's next transaction.  The contract reverts on a      *)
(* message it has received, and may for reasons of its own.                 *)
Mine(ok) ==
  \E t \in pool :
    /\ t.nonce = nonce
    /\ ok => t.msg \notin received
    /\ IF ok \/ t.msg \in received THEN UNCHANGED faults ELSE Fault
    /\ pool' = pool \ {t}
    /\ nonce' = nonce + 1
    /\ received' = IF ok THEN received \cup {t.msg} ELSE received
    /\ att' = [g \in Routes |->
                IF At(g, "waiting") /\ Tx(g) = t
                  THEN [att[g] EXCEPT !.result = IF ok THEN "ok" ELSE "failed"]
                  ELSE att[g]]
    /\ UNCHANGED <<dest, processing, copy, done, loose, history>>

(* The node evicts a transaction from its pool.                             *)
Evict ==
  /\ Fault
  /\ \E t \in pool : pool' = pool \ {t}
  /\ UNCHANGED <<dest, att, processing, copy, done, received, nonce, loose,
                 history>>

-----------------------------------------------------------------------------
(* ICON.                                                                    *)

(* EstimateStep finds that the contract has received the message.           *)
EstimateFails(g) ==
  /\ dest = "icon" /\ At(g, "routed") /\ att[g].msg \in received
  /\ Fail(g)
  /\ UNCHANGED <<dest, node, faults, asked>>

(* Estimation, signature and icx_sendTransaction.                           *)
IconSend(g) ==
  /\ dest = "icon" /\ At(g, "routed")
  /\ att' = [att EXCEPT ![g].pc = "waiting"]
  /\ UNCHANGED <<dest, processing, copy, done, node, faults, history>>

IconAnswerLost(g) ==
  /\ dest = "icon" /\ At(g, "routed") /\ Fault
  /\ loose' = loose \cup {att[g].msg}
  /\ Fail(g)
  /\ UNCHANGED <<dest, received, nonce, pool, asked>>

(* A transaction that is waited for is executed, ...                        *)
Execute(g, ok) ==
  LET m == att[g].msg IN
  /\ dest = "icon" /\ At(g, "waiting") /\ att[g].result = "none"
  /\ ok => m \notin received
  /\ IF ok \/ m \in received THEN UNCHANGED faults ELSE Fault
  /\ received' = IF ok THEN received \cup {m} ELSE received
  /\ att' = [att EXCEPT ![g].result = IF ok THEN "ok" ELSE "failed"]
  /\ UNCHANGED <<dest, processing, copy, done, nonce, pool, loose, history>>

(* ... or one that is not.                                                  *)
ExecuteLoose(m) ==
  /\ m \in loose
  /\ loose' = loose \ {m}
  /\ received' = received \cup {m}
  /\ UNCHANGED <<dest, att, processing, copy, done, nonce, pool, faults,
                 history>>

-----------------------------------------------------------------------------
(* Both: WaitForTxResult and WaitForResults.                                *)

Known(g) == att[g].result # "none"

(* A mutant: one poll more than the limit.                                 *)
PollOnceMore(g) ==
  /\ At(g, "waiting") /\ ~Known(g) /\ att[g].polls <= PollLimit
  /\ att' = [att EXCEPT ![g].polls = @ + 1]
  /\ UNCHANGED <<dest, processing, copy, done, node, faults, history>>

(* There is no receipt yet (NotFound), or the result is pending.            *)
Poll(g) ==
  /\ At(g, "waiting") /\ ~Known(g) /\ att[g].polls < PollLimit
  /\ att' = [att EXCEPT ![g].polls = @ + 1]
  /\ UNCHANGED <<dest, processing, copy, done, node, faults, history>>

(* The transaction goes on without the attempt.                             *)
LetGo(g) ==
  /\ End(g) /\ Failed(g)
  /\ loose' = IF dest = "icon" /\ ~Known(g) THEN loose \cup {att[g].msg}
              ELSE loose
  /\ UNCHANGED <<dest, received, nonce, pool, asked>>

(* Retry Limit Exceeded.                                                    *)
LimitExceeded(g) ==
  /\ At(g, "waiting") /\ att[g].polls = PollLimit
  /\ LetGo(g)
  /\ UNCHANGED faults

(* A poll that fails otherwise ends the wait.                               *)
PollError(g) ==
  /\ At(g, "waiting") /\ att[g].polls < PollLimit /\ Fault
  /\ LetGo(g)

(* A mutant: the callback reports success whatever the status.             *)
ReportAnyStatus(g) ==
  /\ End(g)
  /\ Succeeded(g)

(* The callback, by the status of the transaction.                          *)
Report(g) ==
  /\ End(g)
  /\ IF att[g].result = "ok" THEN Succeeded(g) ELSE Failed(g)

Callback(g) ==
  /\ At(g, "waiting") /\ Known(g) /\ att[g].polls < PollLimit
  /\ Report(g)
  /\ UNCHANGED <<dest, node, faults, asked>>

(* ICON: the height of the result cannot be read.  The callback is called    *)
(* with the error, and WaitForTxResult goes on ...                          *)
CallbackUnreadable(g) ==
  /\ dest = "icon"
  /\ At(g, "waiting") /\ Known(g) /\ att[g].polls < PollLimit /\ Fault
  /\ att' = [att EXCEPT ![g].pc = "again"]
  /\ Failed(g)
  /\ UNCHANGED <<dest, node, asked>>

(* ... to call it again.                                                    *)
CallbackAgain(g) ==
  /\ At(g, "again")
  /\ Report(g)
  /\ UNCHANGED <<dest, node, faults, asked>>

-----------------------------------------------------------------------------
Wait(g) == \/ Poll(g) \/ LimitExceeded(g) \/ PollError(g)
           \/ Callback(g) \/ CallbackUnreadable(g) \/ CallbackAgain(g)

Work(g) ==
  \/ Route(g)
  \/ GetTransationOpts(g) \/ NodeError(g)
  \/ Refused(g) \/ SendTransaction(g) \/ AnswerLost(g)
  \/ EstimateFails(g) \/ IconSend(g) \/ IconAnswerLost(g)
  \/ Wait(g)

Next ==
  \/ \E m \in Msgs : \/ ClearReceived(m) \/ Spawn(m)
                     \/ Recached(m) \/ ExecuteLoose(m)
  \/ \E g \in Routes : Work(g) \/ \E ok \in BOOLEAN : Execute(g, ok)
  \/ \E ok \in BOOLEAN : Mine(ok)
  \/ Evict

(* The router and the goroutines run; the node executes what is in its       *)
(* pool.  It may always be slower than the polls.                           *)
Fairness ==
  /\ \A m \in Msgs : /\ WF_vars(ClearReceived(m) \/ Spawn(m))
                     /\ WF_vars(ExecuteLoose(m))
  /\ \A g \in Routes : WF_vars(Work(g))
  /\ WF_vars(\E ok \in BOOLEAN : Mine(ok))

Spec == Init /\ [][Next]_vars /\ Fairness

-----------------------------------------------------------------------------
(* Types, and the number of polls.                                          *)
TypeOK ==
  /\ dest \in {"evm", "icon"}
  /\ att \in [Routes ->
       [pc : {"idle", "spawned", "routed", "signed", "waiting", "again"},
        msg : Msgs \cup {Nil}, copy : 0 .. MaxCopies, nonce : Nat,
        price : Prices \cup {0},
        polls : 0 .. PollLimit, result : {"none", "ok", "failed"}]]
  /\ processing \subseteq Msgs /\ done \subseteq Msgs
  /\ copy \in [Msgs -> 0 .. MaxCopies]
  /\ received \subseteq Msgs /\ told \subseteq asked /\ asked \subseteq Msgs
  /\ nonce \in Nat /\ loose \subseteq Msgs
  /\ pool \subseteq [msg : Msgs, nonce : Nat, price : Prices]
  /\ faults \in 0 .. MaxFaults

Calls(m, L) == Cardinality({g \in Routes : att[g].msg = m /\ att[g].pc \in L})

(* Route keeps the promise of the provider interface: each attempt gets one *)
(* answer, and no success is reported of a message that was not received,    *)
(* although one message can have several attempts, and transactions replace *)
(* one another, outlive the wait for them and are executed when the engine  *)
(* has long taken them for failed.  Only ICON answers twice.                *)
Answers ==
  INSTANCE Provider WITH
    open <- [m \in Msgs |-> Calls(m, {"routed", "signed", "waiting"})],
    owed <- [m \in Msgs |-> Calls(m, {"again"})]
ImplementsProvider == Answers!Spec

(* The EVM account never has two transactions pending, nor one that has to  *)
(* wait for another: with the nonce of the latest block every message       *)
(* competes for the same place, and a transaction that is replaced or       *)
(* refused leaves no gap that would block the ones after it.                *)
NoGap == /\ \A t \in pool : t.nonce = nonce
         /\ Cardinality(pool) <= 1

(* Every message is received in the end and leaves the cache for good, as   *)
(* long as the engine keeps trying and the node fails only now and then:    *)
(* transactions that replace each other, answers that are lost, waits that  *)
(* run out and attempts that hold a copy the cache no longer has do not     *)
(* leave a message marked that nobody works on.                             *)
EventuallyReceived == \A m \in Msgs : <>[](m \in received /\ m \in done)
=============================================================================
