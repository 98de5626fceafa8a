------------------------------ MODULE Finality ------------------------------
(***************************************************************************)
(* The finality processor: Relayer.CheckFinality (relay.go) with the        *)
(* finality store, QueryTransactionReceipt and GenerateMessage, next to a   *)
(* destination chain that is reorganised.                                   *)
(*                                                                         *)
(* The rest of the engine is here as far as the finality store can tell:    *)
(* a message has at most one RouteMessage goroutine, and its cache entry    *)
(* stands for its record as well.  Module Relayer has the details.          *)
(***************************************************************************)
EXTENDS Naturals, FiniteSets

CONSTANTS
  Msgs,           \* messages to one destination chain
  Attempts,       \* bound: the transactions of a message, 1 .. n
  MaxTxs,         \* bound: the transactions of all messages
  KeyFunctions,   \* which messages may share a key of the finality store
  SrcOf,          \* its source chain
  BlockOf,        \* the block of its event (MessageHeight)
  Icon,           \* the sources whose provider is ICON's, the others are EVM's
  Configured,     \* the chains the relayer runs
  FinalityBlock,  \* of the destination
  NoObj,          \* no transaction object under a key
  MaxHead,        \* bound: the destination's height
  MaxReorg,       \* bound: blocks a reorganisation replaces
  MaxReorgs, MaxRestarts

ASSUME FinalityAssumption ==
  /\ Msgs \subseteq Nat /\ Attempts \subseteq Nat \ {0}
  /\ BlockOf \in [Msgs -> Nat]
  /\ \A f \in KeyFunctions : DOMAIN f = Msgs
  /\ FinalityBlock \in Nat \ {0}
  /\ {MaxTxs, MaxHead, MaxReorg, MaxReorgs, MaxRestarts} \subseteq Nat
  /\ NoObj \notin [msg : Msgs, hash : Attempts, height : Nat]

Keys == UNION {{f[m] : m \in Msgs} : f \in KeyFunctions}

VARIABLES
  KeyOf,      \* a message's key in the finality store, of its Dst and Sn
  head,       \* the destination's height
  tx,         \* per message and attempt, the transaction and its block
  reorgs,
  lastBlock,  \* ChainRuntime.LastBlockHeight of the destination
  held,       \* the message's cache entry: no, free or busy (IsProcessing)
  job,        \* the message's RouteMessage goroutine
  objs,       \* the finality store
  fin,        \* the finality processor
  restarts,
  confirmed,  \* history: messages that had a transaction object
  dropped     \* history: messages dropped in a way the code leaves open

chain  == <<head, tx, reorgs, KeyOf>>
engine == <<lastBlock, held, job, restarts>>
past   == <<confirmed, dropped>>
vars == <<chain, engine, objs, fin, past>>

TxObject(m, n, h) == [msg |-> m, hash |-> n, height |-> h]
Drop(M) == dropped' = dropped \cup M /\ UNCHANGED confirmed

IdleJob == [pc |-> "idle", hash |-> 0, height |-> 0]
IdleFin == [pc |-> "idle", list |-> {}, latest |-> 0, cur |-> NoObj]

Init ==
  /\ KeyOf \in KeyFunctions
  /\ head = 1 /\ reorgs = 0
  /\ tx = [m \in Msgs |-> [n \in Attempts |-> [st |-> "unsent", at |-> 0]]]
  /\ lastBlock = 0 /\ restarts = 0
  /\ held = [m \in Msgs |-> "free"]
  /\ job = [m \in Msgs |-> IdleJob]
  /\ objs = [k \in Keys |-> NoObj]
  /\ fin = IdleFin
  /\ confirmed = {} /\ dropped = {}

-----------------------------------------------------------------------------
(* The destination. Its contract accepts a message once.                    *)

Status(m, n) == tx[m][n].st
Delivered(m) == \E n \in Attempts : Status(m, n) = "ok"
InBlock(m, n) == Status(m, n) \in {"ok", "reverted"}

Mine ==
  /\ head < MaxHead /\ head' = head + 1
  /\ UNCHANGED <<KeyOf, tx, reorgs, engine, objs, fin, past>>

Include(m, n) ==
  /\ Status(m, n) = "pool" /\ head < MaxHead
  /\ head' = head + 1
  /\ tx' = [tx EXCEPT ![m][n] =
             [st |-> IF Delivered(m) THEN "reverted" ELSE "ok", at |-> head + 1]]
  /\ UNCHANGED <<KeyOf, reorgs, engine, objs, fin, past>>

(* The last d blocks are replaced by others: a transaction they held goes   *)
(* back to the pool or is gone for good.                                    *)
Reorg(d) ==
  /\ reorgs < MaxReorgs /\ reorgs' = reorgs + 1
  /\ d < head
  /\ \E st \in {"pool", "gone"} :
       tx' = [m \in Msgs |-> [n \in Attempts |->
               IF InBlock(m, n) /\ tx[m][n].at > head - d
               THEN [st |-> st, at |-> 0] ELSE tx[m][n]]]
  /\ UNCHANGED <<KeyOf, head, engine, objs, fin, past>>

-----------------------------------------------------------------------------
(* The engine. *)

(* processBlockInfo: a listener hands over consecutive blocks, after a       *)
(* restart from any saved one on.                                           *)
Listen ==
  /\ \E h \in 1 .. head : /\ lastBlock = 0 \/ h = lastBlock + 1
                          /\ lastBlock' = h
  /\ UNCHANGED <<chain, held, job, restarts, objs, fin, past>>

(* The message whose object is under the key of m.  The key of Dst and Sn is *)
(* shared by the messages with that number of all sources: a put or a delete *)
(* for m forgets the object another one has there.                          *)
Stored(m) == {q \in Msgs : objs[KeyOf[m]] # NoObj /\ objs[KeyOf[m]].msg = q}
Others(m) == Stored(m) \ {m}

(* processMessages: the destination has received the message.               *)
Received(m) ==
  /\ held[m] = "free" /\ Delivered(m)
  /\ held' = [held EXCEPT ![m] = "no"]
  /\ Drop({m} \ Stored(m))
  /\ UNCHANGED <<chain, lastBlock, job, restarts, objs, fin>>

(* ... or has not: RouteMessage sends a transaction.                        *)
Send(m, n) ==
  /\ held[m] = "free" /\ ~Delivered(m) /\ job[m].pc = "idle"
  /\ Status(m, n) = "unsent"
  /\ \A p \in Attempts : p < n => Status(m, p) # "unsent"
  /\ Cardinality({a \in Msgs \X Attempts : Status(a[1], a[2]) # "unsent"}) < MaxTxs
  /\ tx' = [tx EXCEPT ![m][n].st = "pool"]
  /\ held' = [held EXCEPT ![m] = "busy"]
  /\ job' = [job EXCEPT ![m] = [IdleJob EXCEPT !.pc = "wait", !.hash = n]]
  /\ UNCHANGED <<KeyOf, head, reorgs, lastBlock, restarts, objs, fin, past>>

(* WaitForTxResult has the receipt of a successful transaction.             *)
Succeed(m) ==
  /\ job[m].pc = "wait" /\ Status(m, job[m].hash) = "ok"
  /\ job' = [job EXCEPT ![m].pc = "store", ![m].height = tx[m][job[m].hash].at]
  /\ UNCHANGED <<chain, lastBlock, held, restarts, objs, fin, past>>

(* The transaction failed or no result came in time: HandleMessageFailed    *)
(* keeps the message for another attempt.                                   *)
Fail(m) ==
  /\ job[m].pc = "wait"
  /\ job' = [job EXCEPT ![m] = IdleJob]
  /\ held' = [held EXCEPT ![m] = IF @ = "no" THEN @ ELSE "free"]
  /\ UNCHANGED <<chain, lastBlock, restarts, objs, fin, past>>

(* The callback of a success: StoreTxObject under the key of Dst and Sn     *)
(* unless the cache entry is gone; when it fails the entry stays busy.      *)
StoreTxObject(m, ok) ==
  /\ job[m].pc = "store"
  /\ IF held[m] # "no" /\ ok
     THEN /\ objs' = [objs EXCEPT ![KeyOf[m]] =
                       TxObject(m, job[m].hash, job[m].height)]
          /\ job' = [job EXCEPT ![m].pc = "clear"]
          /\ confirmed' = confirmed \cup {m}
          /\ dropped' = dropped \cup Others(m)
     ELSE /\ job' = [job EXCEPT ![m] = IdleJob]
          /\ UNCHANGED <<objs, past>>
  /\ UNCHANGED <<chain, lastBlock, held, restarts, fin>>

(* ClearMessages: by key. A copy that is not busy is one that was generated *)
(* while this callback was under way.                                       *)
Clear(m) ==
  /\ job[m].pc = "clear"
  /\ job' = [job EXCEPT ![m] = IdleJob]
  /\ held' = [held EXCEPT ![m] = "no"]
  /\ Drop(IF held[m] = "free" THEN {m} \ Stored(m) ELSE {})
  /\ UNCHANGED <<chain, lastBlock, restarts, objs, fin>>

(* The process starts again: any message may be read again or come from the *)
(* message store; one that is not, is dropped (module Relayer has which).   *)
Restarted ==
  /\ lastBlock' = 0
  /\ held' \in [Msgs -> {"no", "free"}]
  /\ job' = [m \in Msgs |-> IdleJob]
  /\ fin' = IdleFin
  /\ Drop({m \in Msgs : held'[m] = "no" /\ m \notin Stored(m)})

Crash ==
  /\ restarts < MaxRestarts /\ restarts' = restarts + 1
  /\ Restarted
  /\ UNCHANGED <<chain, objs>>

-----------------------------------------------------------------------------
(* CheckFinality, for the destination.                                      *)

At(pc) == fin.pc = pc
Goto(pc) == fin' = [fin EXCEPT !.pc = pc]

(* continue: the next transaction object of the list.                       *)
Continue == fin' = [fin EXCEPT !.pc = "next", !.cur = NoObj]

(* FinalityInterval has passed: the height and all objects are read once.   *)
Tick ==
  /\ At("idle") /\ \E k \in Keys : objs[k] # NoObj
  /\ fin' = [fin EXCEPT !.pc = "next", !.latest = lastBlock,
                        !.list = {objs[k] : k \in Keys} \ {NoObj}]
  /\ UNCHANGED <<chain, engine, objs, past>>

EndOfList ==
  /\ At("next") /\ fin.list = {}
  /\ fin' = IdleFin
  /\ UNCHANGED <<chain, engine, objs, past>>

(* A mutant: a height is final one block early.                             *)
TakeEarly(o) ==
  LET rest == [fin EXCEPT !.list = @ \ {o}] IN
  /\ At("next") /\ o \in fin.list
  /\ fin' = IF o.height = 0 \/ o.height + FinalityBlock > fin.latest + 1
            THEN rest ELSE [rest EXCEPT !.pc = "query", !.cur = o]
  /\ UNCHANGED <<chain, engine, objs, past>>

(* An object without a height, or whose height is not final yet, is left    *)
(* for another time; for any other the receipt is asked for.                *)
Take(o) ==
  LET rest == [fin EXCEPT !.list = @ \ {o}] IN
  /\ At("next") /\ o \in fin.list
  /\ fin' = IF o.height = 0 \/ o.height + FinalityBlock > fin.latest
            THEN rest ELSE [rest EXCEPT !.pc = "query", !.cur = o]
  /\ UNCHANGED <<chain, engine, objs, past>>

(* QueryTransactionReceipt: the receipt of a transaction in a block. One    *)
(* whose status is not 1 is for the source to send again.                   *)
Query ==
  LET st == Status(fin.cur.msg, fin.cur.hash) IN
  /\ At("query")
  /\ \/ st = "ok" /\ Goto("prune")
     \/ /\ st = "reverted"
        /\ IF SrcOf[fin.cur.msg] \in Configured THEN Goto("remove") ELSE Continue
  /\ UNCHANGED <<chain, engine, objs, past>>

(* A mutant: an error ends the whole round.                                 *)
QueryErrorReturns ==
  /\ At("query") /\ fin' = IdleFin
  /\ UNCHANGED <<chain, engine, objs, past>>

(* The node fails, or has no such receipt, which is an error as well.       *)
QueryError ==
  /\ At("query") /\ Continue
  /\ UNCHANGED <<chain, engine, objs, past>>

DeleteError(pc) ==
  /\ At(pc) /\ Continue
  /\ UNCHANGED <<chain, engine, objs, past>>

(* DeleteTxObject: by key, whichever object is there now.                   *)
DeleteTxObject(o) == objs' = [objs EXCEPT ![KeyOf[o.msg]] = NoObj]

(* The transaction still exists. One that is in a later block than the       *)
(* object says may yet be reorganised away.                                 *)
Moved(o) == tx[o.msg][o.hash].at # o.height

Prune ==
  LET o == fin.cur IN
  /\ At("prune") /\ Continue
  /\ DeleteTxObject(o)
  /\ Drop((IF Moved(o) THEN {o.msg} ELSE {}) \cup Others(o.msg))
  /\ UNCHANGED <<chain, engine>>

(* A mutant: the object is forgotten before its message is generated.       *)
RemoveForgets ==
  /\ At("remove")
  /\ fin' = [fin EXCEPT !.pc = "generate", !.cur = NoObj]
  /\ DeleteTxObject(fin.cur)
  /\ UNCHANGED <<chain, engine, past>>

(* It has failed: the message is to be generated again.                     *)
Remove ==
  /\ At("remove") /\ Goto("generate")
  /\ DeleteTxObject(fin.cur)
  /\ Drop(Others(fin.cur.msg))
  /\ UNCHANGED <<chain, engine>>

(* ICON's GenerateMessage takes the first event it can read in the block of *)
(* the message; mergeMessages adds it to the cache.                         *)
Generated(m) ==
  LET same == {n \in Msgs : SrcOf[n] = SrcOf[m] /\ BlockOf[n] = BlockOf[m]}
  IN  CHOOSE n \in same : \A p \in same : n <= p

Generate ==
  LET m == Generated(fin.cur.msg) IN
  /\ At("generate") /\ SrcOf[fin.cur.msg] \in Icon
  /\ Continue
  /\ held' = [held EXCEPT ![m] = "free"]
  /\ Drop({fin.cur.msg} \ {m})
  /\ UNCHANGED <<chain, lastBlock, job, restarts, objs>>

(* A node error, or a block without events.                                 *)
GenerateError ==
  /\ At("generate") /\ SrcOf[fin.cur.msg] \in Icon
  /\ Continue
  /\ Drop({fin.cur.msg})
  /\ UNCHANGED <<chain, engine, objs>>

(* The EVM's returns a nil message and no error: MessageKey of the nil      *)
(* message ends the process.                                                *)
GenerateNil ==
  /\ At("generate") /\ SrcOf[fin.cur.msg] \notin Icon
  /\ Restarted
  /\ UNCHANGED <<chain, objs, restarts>>

-----------------------------------------------------------------------------

Chain ==
  \/ Mine
  \/ \E m \in Msgs, n \in Attempts : Include(m, n)
  \/ \E d \in 1 .. MaxReorg : Reorg(d)

Engine ==
  \/ Listen \/ Crash
  \/ \E m \in Msgs :
       \/ Received(m) \/ Succeed(m) \/ Fail(m) \/ Clear(m)
       \/ \E n \in Attempts : Send(m, n)
       \/ \E ok \in BOOLEAN : StoreTxObject(m, ok)

CheckFinality ==
  \/ Tick \/ EndOfList \/ Query \/ QueryError
  \/ \E o \in fin.list : Take(o)
  \/ Prune \/ Remove \/ DeleteError("prune") \/ DeleteError("remove")
  \/ Generate \/ GenerateError \/ GenerateNil

Next == Chain \/ Engine \/ CheckFinality

(* The ticker fires and the loop goes on. The node and the database are not  *)
(* down for ever: of the queries and deletions for a key that are made again *)
(* and again, some succeed.                                                 *)
Deciding(k) == fin.cur # NoObj /\ KeyOf[fin.cur.msg] = k
Fairness ==
  /\ WF_vars(CheckFinality)
  /\ \A k \in Keys :
       /\ SF_vars(Deciding(k) /\ Query)
       /\ SF_vars(Deciding(k) /\ (Prune \/ Remove))

Spec == Init /\ [][Next]_vars
FairSpec == Spec /\ Fairness

-----------------------------------------------------------------------------

(* Types.                                                                   *)
MaybeObj == [msg : Msgs, hash : Attempts, height : Nat] \cup {NoObj}
TypeOK ==
  /\ KeyOf \in KeyFunctions
  /\ head \in Nat /\ reorgs \in Nat /\ restarts \in Nat /\ lastBlock \in Nat
  /\ tx \in [Msgs -> [Attempts ->
       [st : {"unsent", "pool", "ok", "reverted", "gone"}, at : Nat]]]
  /\ held \in [Msgs -> {"no", "free", "busy"}]
  /\ job \in [Msgs -> [pc : {"idle", "wait", "store", "clear"},
                       hash : Attempts \cup {0}, height : Nat]]
  /\ \A m \in Msgs : job[m].pc # "idle" => job[m].hash \in Attempts
  /\ objs \in [Keys -> MaybeObj]
  /\ fin \in [pc : {"idle", "next", "query", "prune", "remove", "generate"},
              list : SUBSET (MaybeObj \ {NoObj}), latest : Nat, cur : MaybeObj]
  /\ fin.pc \notin {"idle", "next"} => fin.cur # NoObj
  /\ confirmed \subseteq Msgs /\ dropped \subseteq Msgs

(* Properties. *)

(* What still leads to another look at a message.                           *)
Tracked(m) ==
  \/ held[m] # "no" \/ job[m].pc # "idle"
  \/ \E k \in Keys : objs[k] # NoObj /\ objs[k].msg = m
  \/ At("generate") /\ fin.cur.msg = m

(* relay.go:439-455: reorganisations, answers that are stale when they are   *)
(* acted upon, restarts and failing writes in any order: a message whose     *)
(* delivery was confirmed and is undone is tracked, or was dropped in one of *)
(* the ways the code leaves open: cleared by the router without an object    *)
(* (relay.go:265), by a restart that does not read it again, pruned with a   *)
(* receipt in a later block than the object's, not generated again after     *)
(* relay.go:478 deleted its object, or cleared by a callback that was under  *)
(* way when it was generated.                                               *)
UndeliveredIsTracked ==
  \A m \in confirmed : Delivered(m) \/ Tracked(m) \/ m \in dropped

(* relay.go:423-495: an object whose transaction is in a block of the         *)
(* destination and due does not stay: whatever becomes of the other objects  *)
(* of the list, it is pruned or its message is generated again.              *)
Due(o) == o # NoObj /\ o.height + FinalityBlock <= lastBlock
EventuallyDecided ==
  \A k \in Keys :
    []<>~(Due(objs[k]) /\ InBlock(objs[k].msg, objs[k].hash))

(* relay.go:467 "if receipt donot exist generate message again and send to   *)
(* src chain": a message whose due transaction is gone is back in the cache  *)
(* or delivered some day.                                                    *)
Vanished(m) == \E k \in Keys : /\ Due(objs[k]) /\ objs[k].msg = m
                              /\ Status(m, objs[k].hash) = "gone"
Regenerated == \A m \in Msgs : Vanished(m) ~> held[m] # "no" \/ Delivered(m)
=============================================================================
