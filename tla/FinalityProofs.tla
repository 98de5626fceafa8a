---------------------------- MODULE FinalityProofs ----------------------------
(***************************************************************************)
(* Theorems about Finality.tla: when a reorganisation replaces no more than *)
(* FinalityBlock blocks, a confirmed delivery that is undone is tracked or  *)
(* was dropped in a way the code leaves open; for any number of messages,   *)
(* attempts, restarts and reorganisations.                                  *)
(***************************************************************************)
EXTENDS Finality, TLAPS

TxType == [st : {"unsent", "pool", "ok", "reverted", "gone"}, at : Nat]
JobType == [pc : {"idle", "wait", "store", "clear"},
            hash : Attempts \cup {0}, height : Nat]
FinType ==
  [pc : {"idle", "next", "query", "prune", "remove", "generate"},
   list : SUBSET (MaybeObj \ {NoObj}), latest : Nat, cur : MaybeObj]

-----------------------------------------------------------------------------
(* Types, one lemma for each of the three parts of the next-state relation. *)

LEMMA Numbers == /\ {MaxReorg, MaxHead} \subseteq Nat
                 /\ FinalityBlock \in Nat \ {0} /\ Attempts \subseteq Nat \ {0}
  BY FinalityAssumption

(* NoObj is not an object.                                                  *)
LEMMA Objects ==
  ASSUME NEW o \in MaybeObj, o # NoObj
  PROVE  /\ o \in [msg : Msgs, hash : Attempts, height : Nat]
         /\ o.msg \in Msgs /\ o.hash \in Attempts /\ o.height \in Nat
  BY DEF MaybeObj

LEMMA KeysOfMessages ==
  ASSUME TypeOK, NEW m \in Msgs PROVE KeyOf[m] \in Keys
  BY DEF TypeOK, Keys

LEMMA Restart == ASSUME Restarted, TypeOK
                 PROVE  /\ lastBlock' \in Nat
                        /\ held' \in [Msgs -> {"no", "free", "busy"}]
                        /\ job' \in [Msgs -> JobType]
                        /\ \A m \in Msgs : job'[m].pc = "idle"
                        /\ fin' = IdleFin /\ fin' \in FinType
                        /\ confirmed' \subseteq Msgs /\ dropped' \subseteq Msgs
<1>1. IdleJob \in JobType /\ IdleJob.pc = "idle"
  BY DEF IdleJob, JobType
<1>2. job' = [m \in Msgs |-> IdleJob]
  BY DEF Restarted
<1>3. NoObj \in MaybeObj
  BY DEF MaybeObj
<1>4. fin' = IdleFin /\ fin' \in FinType
  BY <1>3 DEF Restarted, IdleFin, FinType
<1>5. held' \in [Msgs -> {"no", "free", "busy"}] /\ lastBlock' \in Nat
  BY DEF Restarted
<1>6. confirmed' \subseteq Msgs /\ dropped' \subseteq Msgs
  BY DEF Restarted, Drop, TypeOK
<1> QED
  BY <1>1, <1>2, <1>4, <1>5, <1>6

LEMMA InitTypes == Init => TypeOK
<1> SUFFICES ASSUME Init PROVE TypeOK
  OBVIOUS
<1>1. tx \in [Msgs -> [Attempts -> TxType]]
  BY DEF Init, TxType
<1>2. job \in [Msgs -> JobType] /\ \A m \in Msgs : job[m].pc = "idle"
  BY DEF Init, IdleJob, JobType
<1>3. objs \in [Keys -> MaybeObj]
  BY DEF Init, MaybeObj
<1>4. fin \in FinType /\ fin.pc = "idle"
  BY DEF Init, IdleFin, MaybeObj, FinType
<1> QED
  BY <1>1, <1>2, <1>3, <1>4 DEF Init, TypeOK, TxType, JobType, FinType

LEMMA ChainTypes ==
  ASSUME TypeOK, Chain PROVE TypeOK'
<1>1. UNCHANGED <<KeyOf, engine, objs, fin, past>>
  BY DEF Chain, Mine, Include, Reorg
<1>2. head \in Nat /\ reorgs \in Nat /\ tx \in [Msgs -> [Attempts -> TxType]]
  BY DEF TypeOK, TxType
<1>3. head' \in Nat /\ reorgs' \in Nat /\ tx' \in [Msgs -> [Attempts -> TxType]]
  <2>1. CASE Mine
    BY <1>2, <2>1 DEF Mine
  <2>2. ASSUME NEW m \in Msgs, NEW n \in Attempts, Include(m, n)
        PROVE  head' \in Nat /\ reorgs' \in Nat /\ tx' \in [Msgs -> [Attempts -> TxType]]
    <3> DEFINE new == [st |-> IF Delivered(m) THEN "reverted" ELSE "ok", at |-> head + 1]
    <3>1. new \in TxType
      BY <1>2 DEF TxType
    <3>2. head' = head + 1 /\ reorgs' = reorgs /\ tx' = [tx EXCEPT ![m][n] = new]
      BY <2>2 DEF Include
    <3> HIDE DEF new
    <3> QED
      BY <1>2, <3>1, <3>2
  <2>3. ASSUME NEW d \in 1 .. MaxReorg, Reorg(d)
        PROVE  head' \in Nat /\ reorgs' \in Nat /\ tx' \in [Msgs -> [Attempts -> TxType]]
    <3>1. PICK st \in {"pool", "gone"} :
            tx' = [m \in Msgs |-> [n \in Attempts |->
               IF InBlock(m, n) /\ tx[m][n].at > head - d
               THEN [st |-> st, at |-> 0] ELSE tx[m][n]]]
      BY <2>3 DEF Reorg
    <3>2. [st |-> st, at |-> 0] \in TxType
      BY DEF TxType
    <3>3. tx' \in [Msgs -> [Attempts -> TxType]]
      BY <1>2, <3>1, <3>2
    <3> QED
      BY <1>2, <2>3, <3>3 DEF Reorg
  <2> QED
    BY <2>1, <2>2, <2>3 DEF Chain
<1> QED
  BY <1>1, <1>3 DEF TypeOK, TxType, engine, past, MaybeObj, Keys

LEMMA EngineTypes ==
  ASSUME TypeOK, Engine PROVE TypeOK'
<1>0. /\ tx \in [Msgs -> [Attempts -> TxType]] /\ held \in [Msgs -> {"no", "free", "busy"}]
      /\ job \in [Msgs -> JobType] /\ fin \in FinType
      /\ objs \in [Keys -> MaybeObj]
      /\ \A m \in Msgs : job[m].pc # "idle" => job[m].hash \in Attempts
  BY DEF TypeOK, TxType, JobType, FinType
<1>j. IdleJob \in JobType /\ IdleJob.pc = "idle"
  BY DEF IdleJob, JobType
<1> DEFINE JobOK == /\ job' \in [Msgs -> JobType]
                    /\ \A m \in Msgs : job'[m].pc # "idle" => job'[m].hash \in Attempts
<1>1. CASE Listen
  BY <1>1 DEF Listen, TypeOK, chain, past, MaybeObj, Keys
<1>2. CASE Crash
  <2>1. restarts' \in Nat
    BY <1>2 DEF Crash, TypeOK
  <2> QED
    BY <1>2, <2>1, Restart
    DEF Crash, TypeOK, chain, JobType, FinType, IdleFin, MaybeObj, Keys
<1>3. ASSUME NEW m \in Msgs, Received(m) PROVE TypeOK'
  <2>1. held' \in [Msgs -> {"no", "free", "busy"}]
    BY <1>0, <1>3 DEF Received
  <2> QED
    BY <1>3, <2>1 DEF Received, Drop, TypeOK, chain, MaybeObj, Keys
<1>4. ASSUME NEW m \in Msgs, Succeed(m) PROVE TypeOK'
  <2>1. JobOK
    <3>1. tx[m][job[m].hash].at \in Nat
      BY <1>0, <1>4 DEF Succeed, TxType
    <3> DEFINE new == [job[m] EXCEPT !.pc = "store", !.height = tx[m][job[m].hash].at]
    <3>2. new \in JobType /\ new.hash \in Attempts
      BY <1>0, <1>4, <3>1 DEF Succeed, JobType
    <3>3. job' = [job EXCEPT ![m] = new]
      BY <1>4 DEF Succeed
    <3> HIDE DEF new
    <3> QED
      BY <1>0, <3>2, <3>3
  <2> QED
    BY <1>4, <2>1 DEF Succeed, past, TypeOK, chain, MaybeObj, Keys, JobType
<1>5. ASSUME NEW m \in Msgs, Fail(m) PROVE TypeOK'
  <2>1. JobOK
    BY <1>0, <1>j, <1>5 DEF Fail
  <2>2. held' \in [Msgs -> {"no", "free", "busy"}]
    BY <1>0, <1>5 DEF Fail
  <2> QED
    BY <1>5, <2>1, <2>2 DEF Fail, past, TypeOK, chain, MaybeObj, Keys, JobType
<1>6. ASSUME NEW m \in Msgs, Clear(m) PROVE TypeOK'
  <2>1. JobOK
    BY <1>0, <1>j, <1>6 DEF Clear
  <2>2. held' \in [Msgs -> {"no", "free", "busy"}]
    BY <1>0, <1>6 DEF Clear
  <2> QED
    BY <1>6, <2>1, <2>2 DEF Clear, Drop, TypeOK, chain, MaybeObj, Keys, JobType
<1>7. ASSUME NEW m \in Msgs, NEW n \in Attempts, Send(m, n) PROVE TypeOK'
  <2>1. JobOK
    <3> DEFINE new == [IdleJob EXCEPT !.pc = "wait", !.hash = n]
    <3>1. new \in JobType /\ new.hash \in Attempts
      BY DEF IdleJob, JobType
    <3>2. job' = [job EXCEPT ![m] = new]
      BY <1>7 DEF Send
    <3> HIDE DEF new
    <3> QED
      BY <1>0, <3>1, <3>2
  <2>2. held' \in [Msgs -> {"no", "free", "busy"}]
    BY <1>0, <1>7 DEF Send
  <2>3. tx' \in [Msgs -> [Attempts -> TxType]]
    <3>0. tx[m][n] \in TxType
      BY <1>0
    <3>1. [tx[m][n] EXCEPT !.st = "pool"] \in TxType
      BY <3>0 DEF TxType
    <3>2. tx' = [tx EXCEPT ![m][n] = [tx[m][n] EXCEPT !.st = "pool"]]
      BY <1>7 DEF Send
    <3> QED
      BY <1>0, <3>1, <3>2
  <2> QED
    BY <1>7, <2>1, <2>2, <2>3 DEF Send, past, TypeOK, MaybeObj, Keys, JobType, TxType
<1>8. ASSUME NEW m \in Msgs, NEW ok \in BOOLEAN, StoreTxObject(m, ok) PROVE TypeOK'
  <2> DEFINE new == [job[m] EXCEPT !.pc = "clear"]
             obj == TxObject(m, job[m].hash, job[m].height)
  <2>1. JobOK
    <3>1. new \in JobType /\ new.hash \in Attempts
      BY <1>0, <1>8 DEF StoreTxObject, JobType
    <3>2. job' = [job EXCEPT ![m] = new] \/ job' = [job EXCEPT ![m] = IdleJob]
      BY <1>8 DEF StoreTxObject
    <3> HIDE DEF new
    <3> QED
      BY <1>0, <1>j, <3>1, <3>2
  <2>2. objs' \in [Keys -> MaybeObj]
    <3>1. obj \in MaybeObj
      BY <1>0, <1>8 DEF StoreTxObject, TxObject, MaybeObj, JobType
    <3>2. objs' = [objs EXCEPT ![KeyOf[m]] = obj] \/ objs' = objs
      BY <1>8 DEF StoreTxObject
    <3> HIDE DEF obj
    <3> QED
      BY <1>0, <3>1, <3>2
  <2>3. confirmed' \subseteq Msgs /\ dropped' \subseteq Msgs
    BY <1>8 DEF StoreTxObject, past, Others, Stored, TypeOK
  <2> QED
    BY <1>8, <2>1, <2>2, <2>3
    DEF StoreTxObject, TypeOK, chain, MaybeObj, Keys, JobType, FinType
<1> QED
  BY <1>1, <1>2, <1>3, <1>4, <1>5, <1>6, <1>7, <1>8 DEF Engine

LEMMA CheckTypes ==
  ASSUME TypeOK, CheckFinality PROVE TypeOK'
<1>0. /\ held \in [Msgs -> {"no", "free", "busy"}]
      /\ fin \in FinType /\ objs \in [Keys -> MaybeObj] /\ NoObj \in MaybeObj
  BY DEF TypeOK, FinType, MaybeObj
<1> DEFINE FinOK == fin' \in FinType /\ (fin'.pc \notin {"idle", "next"} => fin'.cur # NoObj)
<1>1. /\ Continue => FinOK
      /\ fin' = IdleFin => FinOK
      /\ \A pc \in {"prune", "remove", "generate"} :
           Goto(pc) /\ fin.pc \in {"query", "remove"} => FinOK
  <2>1. IdleFin \in FinType
    BY <1>0 DEF IdleFin, FinType
  <2>2. [fin EXCEPT !.pc = "next", !.cur = NoObj] \in FinType
    BY <1>0 DEF FinType
  <2>3. ASSUME NEW pc \in {"prune", "remove", "generate"}, Goto(pc),
               fin.pc \in {"query", "remove"}
        PROVE  FinOK
    <3>1. [fin EXCEPT !.pc = pc] \in FinType
      BY <1>0 DEF FinType
    <3>2. fin.cur # NoObj
      BY <2>3 DEF TypeOK
    <3> QED
      BY <1>0, <2>3, <3>1, <3>2 DEF Goto, FinType
  <2> QED
    BY <1>0, <2>1, <2>2, <2>3 DEF Continue, IdleFin, FinType
<1>d. ASSUME NEW o, DeleteTxObject(o), o.msg \in Msgs PROVE objs' \in [Keys -> MaybeObj]
  BY <1>0, <1>d DEF DeleteTxObject
<1>p. ASSUME NEW M \in SUBSET Msgs, Drop(M)
      PROVE  confirmed' \subseteq Msgs /\ dropped' \subseteq Msgs
  BY <1>p DEF Drop, TypeOK
<1>o. ASSUME fin.pc \notin {"idle", "next"}
      PROVE  fin.cur # NoObj /\ fin.cur.msg \in Msgs /\ Others(fin.cur.msg) \subseteq Msgs
  BY <1>o, <1>0, Objects DEF TypeOK, Others, Stored, FinType
<1>2. CASE UNCHANGED <<chain, engine, objs, past>> /\ FinOK
  BY <1>2 DEF TypeOK, chain, engine, past, MaybeObj, Keys, FinType
<1>3. CASE Tick
  <2>1. {objs[k] : k \in Keys} \ {NoObj} \subseteq MaybeObj \ {NoObj}
    BY <1>0
  <2>2. lastBlock \in Nat
    BY DEF TypeOK
  <2> DEFINE new == [fin EXCEPT !.pc = "next", !.latest = lastBlock,
                        !.list = {objs[k] : k \in Keys} \ {NoObj}]
  <2>3. new \in FinType /\ new.pc = "next"
    BY <1>0, <2>1, <2>2 DEF FinType
  <2> QED
    BY <1>2, <1>3, <2>3 DEF Tick
<1>4. CASE EndOfList
  BY <1>1, <1>2, <1>4 DEF EndOfList
<1>5. CASE Query \/ QueryError
  BY <1>1, <1>2, <1>5 DEF Query, QueryError, At
<1>6. ASSUME NEW o \in fin.list, Take(o) PROVE TypeOK'
  <2>1. o \in MaybeObj /\ o # NoObj
    BY <1>0 DEF FinType
  <2> DEFINE rest == [fin EXCEPT !.list = @ \ {o}]
             took == [rest EXCEPT !.pc = "query", !.cur = o]
  <2>2. rest \in FinType /\ rest.pc = "next"
    BY <1>0, <1>6 DEF FinType, Take, At
  <2>3. took \in FinType /\ took.cur = o
    BY <2>1, <2>2 DEF FinType
  <2>4. fin' = rest \/ fin' = took
    BY <1>6 DEF Take
  <2> HIDE DEF rest, took
  <2> QED
    BY <1>2, <1>6, <2>1, <2>2, <2>3, <2>4 DEF Take
<1>7. CASE Prune
  <2>1. FinOK
    BY <1>1, <1>7 DEF Prune
  <2>2. objs' \in [Keys -> MaybeObj]
    BY <1>d, <1>o, <1>7 DEF Prune, At
  <2>3. confirmed' \subseteq Msgs /\ dropped' \subseteq Msgs
    BY <1>o, <1>p, <1>7 DEF Prune, At
  <2> QED
    BY <1>7, <2>1, <2>2, <2>3 DEF Prune, TypeOK, chain, engine, MaybeObj, Keys, FinType
<1>8. CASE Remove
  <2>1. FinOK
    BY <1>1, <1>8 DEF Remove, At
  <2>2. objs' \in [Keys -> MaybeObj]
    BY <1>d, <1>o, <1>8 DEF Remove, At
  <2>3. confirmed' \subseteq Msgs /\ dropped' \subseteq Msgs
    BY <1>o, <1>p, <1>8 DEF Remove, At
  <2> QED
    BY <1>8, <2>1, <2>2, <2>3 DEF Remove, TypeOK, chain, engine, MaybeObj, Keys, FinType
<1>9. CASE DeleteError("prune") \/ DeleteError("remove")
  BY <1>1, <1>2, <1>9 DEF DeleteError
<1>10. CASE Generate
  <2>1. held' \in [Msgs -> {"no", "free", "busy"}]
    BY <1>0, <1>10 DEF Generate
  <2>2. confirmed' \subseteq Msgs /\ dropped' \subseteq Msgs
    BY <1>o, <1>p, <1>10 DEF Generate, At
  <2> QED
    BY <1>1, <1>10, <2>1, <2>2 DEF Generate, TypeOK, chain, MaybeObj, Keys, FinType
<1>11. CASE GenerateError
  <2>1. confirmed' \subseteq Msgs /\ dropped' \subseteq Msgs
    BY <1>o, <1>p, <1>11 DEF GenerateError, At
  <2> QED
    BY <1>1, <1>11, <2>1 DEF GenerateError, TypeOK, chain, engine, MaybeObj, Keys, FinType
<1>12. CASE GenerateNil
  BY <1>12, Restart
  DEF GenerateNil, TypeOK, chain, JobType, FinType, IdleFin, MaybeObj, Keys
<1> QED
  BY <1>3, <1>4, <1>5, <1>6, <1>7, <1>8, <1>9, <1>10, <1>11, <1>12 DEF CheckFinality

(* Finality.tla: every variable keeps its type; an object that is looked at  *)
(* by CheckFinality (relay.go:423-495) is there.                            *)
THEOREM FinalityTypeCorrect == Spec => []TypeOK
<1>1. TypeOK /\ [Next]_vars => TypeOK'
  <2> SUFFICES ASSUME TypeOK, [Next]_vars PROVE TypeOK'
    OBVIOUS
  <2>1. CASE UNCHANGED vars
    BY <2>1 DEF vars, chain, engine, past, TypeOK, MaybeObj, Keys
  <2> QED
    BY <2>1, ChainTypes, EngineTypes, CheckTypes DEF Next
<1> QED
  BY <1>1, InitTypes, PTL DEF Spec

-----------------------------------------------------------------------------
(* The invariant.                                                           *)

(* A delivery no reorganisation undoes.                                     *)
Settled(m) == \E n \in Attempts : /\ Status(m, n) = "ok"
                                  /\ tx[m][n].at + MaxReorg <= head

(* Heights only grow, so that an object whose height was final stays so,     *)
(* and a transaction that was moved away from that height does not return.  *)
Active == fin.pc \notin {"idle", "next"}
Deep == fin.cur.height \in Nat \ {0} /\ fin.cur.height + FinalityBlock <= head
Unmoved == tx[fin.cur.msg][fin.cur.hash].at = fin.cur.height
Heights ==
  /\ lastBlock <= head /\ fin.latest <= head
  /\ Active => Deep
  /\ fin.pc = "prune" /\ Unmoved => Status(fin.cur.msg, fin.cur.hash) = "ok"

(* What keeps a message from being forgotten when it leaves the cache.       *)
Kept(m) ==
  \/ Settled(m) \/ m \in dropped \/ m \in Stored(m)
  \/ At("generate") /\ fin.cur.msg = m

Watched ==
  /\ \A m \in confirmed : Kept(m) \/ held[m] # "no"
  /\ \A m \in Msgs : job[m].pc = "clear" =>
       m \in confirmed /\ (Kept(m) \/ held[m] = "free")

-----------------------------------------------------------------------------
(* The destination's steps leave alone what is settled, and give no          *)
(* transaction a height that CheckFinality has taken for final.             *)
LEMMA ChainMoves ==
  ASSUME TypeOK, Chain
  PROVE  /\ head' \in Nat /\ head <= head'
         /\ \A m \in Msgs, n \in Attempts :
              \/ tx'[m][n] = tx[m][n]
              \/ /\ ~(Status(m, n) = "ok" /\ tx[m][n].at + MaxReorg <= head)
                 /\ tx'[m][n].at = 0 \/ tx'[m][n].at = head + 1
<1>0. /\ head \in Nat /\ tx \in [Msgs -> [Attempts -> TxType]] /\ MaxReorg \in Nat
  BY Numbers DEF TypeOK, TxType
<1>1. CASE Mine
  BY <1>0, <1>1 DEF Mine
<1>2. ASSUME NEW q \in Msgs, NEW p \in Attempts, Include(q, p)
      PROVE  /\ head' = head + 1
             /\ \A m \in Msgs, n \in Attempts :
                  \/ tx'[m][n] = tx[m][n]
                  \/ Status(m, n) # "ok" /\ tx'[m][n].at = head + 1
  <2> DEFINE new == [st |-> IF Delivered(q) THEN "reverted" ELSE "ok", at |-> head + 1]
  <2>1. new.at = head + 1
    OBVIOUS
  <2>2. head' = head + 1 /\ tx' = [tx EXCEPT ![q][p] = new] /\ Status(q, p) = "pool"
    BY <1>2 DEF Include
  <2> HIDE DEF new
  <2> QED
    BY <1>0, <2>1, <2>2
<1>3. ASSUME NEW d \in 1 .. MaxReorg, Reorg(d)
      PROVE  /\ head' = head
             /\ \A m \in Msgs, n \in Attempts :
                  \/ tx'[m][n] = tx[m][n]
                  \/ tx[m][n].at > head - d /\ tx'[m][n].at = 0
  <2>1. PICK st \in {"pool", "gone"} :
          tx' = [m \in Msgs |-> [n \in Attempts |->
             IF InBlock(m, n) /\ tx[m][n].at > head - d
             THEN [st |-> st, at |-> 0] ELSE tx[m][n]]]
    BY <1>3 DEF Reorg
  <2> QED
    BY <1>3, <2>1 DEF Reorg
<1>4. \A m \in Msgs, n \in Attempts : tx[m][n].at \in Nat
  BY <1>0 DEF TxType
<1> QED
  BY <1>0, <1>1, <1>2, <1>3, <1>4 DEF Chain

(* What is settled stays settled.                                           *)
LEMMA SettledStays ==
  ASSUME TypeOK, [Next]_vars, NEW m \in Msgs, Settled(m)
  PROVE  Settled(m)'
<1>1. PICK n \in Attempts : Status(m, n) = "ok" /\ tx[m][n].at + MaxReorg <= head
  BY DEF Settled
<1>2. tx[m][n].at \in Nat /\ head \in Nat /\ MaxReorg \in Nat
  BY Numbers DEF TypeOK
<1>3. tx'[m][n] = tx[m][n] /\ head' \in Nat /\ head <= head'
  <2>1. CASE Chain
    BY <1>1, <2>1, ChainMoves
  <2>2. ASSUME NEW q \in Msgs, NEW p \in Attempts, Send(q, p)
        PROVE  tx'[m][n] = tx[m][n] /\ head' = head
    BY <1>1, <2>2 DEF Send, Status, TypeOK
  <2>3. CASE Engine
    <3>1. UNCHANGED chain \/ \E q \in Msgs, p \in Attempts : Send(q, p)
      BY <2>3 DEF Engine, Listen, Crash, Received, Succeed, Fail, Clear, StoreTxObject
    <3> QED
      BY <1>2, <2>2, <3>1 DEF chain
  <2>4. CASE CheckFinality
    <3>1. UNCHANGED chain
      BY <2>4
      DEF CheckFinality, Tick, EndOfList, Query, QueryError, Take, Prune, Remove,
          DeleteError, Generate, GenerateError, GenerateNil
    <3> QED
      BY <1>2, <3>1 DEF chain
  <2>5. CASE UNCHANGED vars
    BY <1>2, <2>5 DEF vars, chain
  <2> QED
    BY <2>1, <2>3, <2>4, <2>5 DEF Next
<1>4. tx'[m][n].at + MaxReorg <= head'
  BY <1>1, <1>2, <1>3
<1> QED
  BY <1>1, <1>3, <1>4 DEF Settled, Status

-----------------------------------------------------------------------------
(* Heights, part by part.                                                   *)

LEMMA ChainHeights ==
  ASSUME TypeOK, Heights, Chain PROVE Heights'
<1>0. /\ head \in Nat /\ lastBlock \in Nat /\ fin \in FinType /\ FinalityBlock \in Nat
      /\ head' \in Nat /\ head <= head'
  BY Numbers, ChainMoves DEF TypeOK, FinType
<1>1. UNCHANGED <<lastBlock, fin>>
  BY DEF Chain, Mine, Include, Reorg, engine
<1>2. lastBlock <= head' /\ fin.latest <= head' /\ (Active => Deep')
  BY <1>0, <1>1 DEF Heights, Deep, FinType
<1>3. ASSUME fin.pc = "prune", Unmoved' PROVE Status(fin.cur.msg, fin.cur.hash)' = "ok"
  <2>1. Deep /\ fin.cur.msg \in Msgs /\ fin.cur.hash \in Attempts
    BY <1>0, <1>3, Objects DEF Heights, Active, TypeOK, FinType
  <2>2. tx'[fin.cur.msg][fin.cur.hash] = tx[fin.cur.msg][fin.cur.hash]
    BY <1>0, <1>1, <1>3, <2>1, ChainMoves, Numbers DEF Unmoved, Deep
  <2> QED
    BY <1>1, <1>3, <2>2 DEF Heights, Unmoved, Status
<1> QED
  BY <1>1, <1>2, <1>3 DEF Heights, Active

LEMMA EngineHeights ==
  ASSUME TypeOK, Heights, Engine PROVE Heights'
<1>0. head \in Nat /\ FinalityBlock \in Nat
  BY Numbers DEF TypeOK
<1>1. CASE Crash
  BY <1>0, <1>1 DEF Crash, Restarted, IdleFin, Heights, Active, chain
<1>2. CASE Listen
  BY <1>0, <1>2 DEF Listen, Heights, Active, Deep, Unmoved, Status, chain
<1>3. CASE UNCHANGED <<chain, lastBlock, fin>>
  BY <1>3 DEF Heights, Active, Deep, Unmoved, Status, chain
<1>4. ASSUME NEW m \in Msgs, NEW n \in Attempts, Send(m, n) PROVE Heights'
  <2>1. UNCHANGED <<head, lastBlock, fin>> /\ Status(m, n) = "unsent"
    BY <1>4 DEF Send
  <2>2. \A q \in Msgs, p \in Attempts :
          /\ tx'[q][p].at = tx[q][p].at
          /\ Status(q, p) = "ok" => tx'[q][p] = tx[q][p]
    BY <1>4 DEF Send, Status, TypeOK
  <2>3. Active => fin.cur.msg \in Msgs /\ fin.cur.hash \in Attempts
    BY Objects DEF Active, TypeOK
  <2> QED
    BY <2>1, <2>2, <2>3 DEF Heights, Active, Deep, Unmoved, Status
<1> QED
  <2>1. \/ Crash \/ Listen \/ UNCHANGED <<chain, lastBlock, fin>>
        \/ \E m \in Msgs, n \in Attempts : Send(m, n)
    BY DEF Engine, Received, Succeed, Fail, Clear, StoreTxObject
  <2> QED
    BY <1>1, <1>2, <1>3, <1>4, <2>1

LEMMA CheckHeights ==
  ASSUME TypeOK, Heights, CheckFinality PROVE Heights'
<1>0. /\ head \in Nat /\ lastBlock \in Nat /\ FinalityBlock \in Nat /\ fin \in FinType
  BY Numbers DEF TypeOK, FinType
<1>1. UNCHANGED chain
  BY DEF CheckFinality, Tick, EndOfList, Query, QueryError, Take, Prune, Remove,
         DeleteError, Generate, GenerateError, GenerateNil
<1>2. CASE fin' = IdleFin /\ lastBlock' \in {0, lastBlock}
  BY <1>0, <1>1, <1>2 DEF Heights, IdleFin, Active, chain
<1>3. CASE Continue /\ UNCHANGED lastBlock
  BY <1>0, <1>1, <1>3 DEF Continue, Heights, Active, chain, FinType
<1>4. CASE Tick
  BY <1>0, <1>1, <1>4 DEF Tick, Heights, Active, chain, engine, FinType
<1>5. CASE Query
  <2>1. CASE Goto("prune") /\ Status(fin.cur.msg, fin.cur.hash) = "ok"
    <3>1. /\ fin'.pc = "prune" /\ fin'.cur = fin.cur /\ fin'.latest = fin.latest
          /\ Active
      BY <1>0, <1>5, <2>1 DEF Goto, FinType, Query, At, Active
    <3> QED
      BY <1>1, <1>5, <2>1, <3>1 DEF Query, Heights, Deep, Unmoved, Status, chain, engine
  <2>2. CASE Goto("remove")
    <3>1. /\ fin'.pc = "remove" /\ fin'.cur = fin.cur /\ fin'.latest = fin.latest
          /\ Active
      BY <1>0, <1>5, <2>2 DEF Goto, FinType, Query, At, Active
    <3> QED
      BY <1>1, <1>5, <3>1 DEF Query, Heights, Deep, chain, engine
  <2> QED
    BY <1>3, <1>5, <2>1, <2>2 DEF Query, engine
<1>6. ASSUME NEW o \in fin.list, Take(o) PROVE Heights'
  <2>1. o.height \in Nat
    BY <1>0, Objects DEF FinType
  <2>2. \/ fin'.pc = "next" /\ fin'.latest = fin.latest
        \/ /\ fin'.pc = "query" /\ fin'.cur = o /\ fin'.latest = fin.latest
           /\ o.height # 0 /\ o.height + FinalityBlock <= fin.latest
    BY <1>0, <1>6, <2>1 DEF Take, At, FinType
  <2>3. fin.latest \in Nat /\ fin.latest <= head /\ lastBlock' = lastBlock /\ head' = head
    BY <1>0, <1>1, <1>6 DEF FinType, Heights, Take, engine, chain
  <2> QED
    BY <1>0, <2>1, <2>2, <2>3 DEF Heights, Active, Deep
<1>7. CASE Remove
  <2>1. /\ fin'.pc = "generate" /\ fin'.cur = fin.cur /\ fin'.latest = fin.latest
        /\ Active
    BY <1>0, <1>7 DEF Remove, Goto, FinType, At, Active
  <2> QED
    BY <1>1, <1>7, <2>1 DEF Remove, Heights, Deep, chain, engine
<1>8. \/ fin' = IdleFin /\ lastBlock' \in {0, lastBlock}
      \/ Continue /\ UNCHANGED lastBlock
      \/ Tick \/ Query \/ Remove \/ \E o \in fin.list : Take(o)
  BY DEF CheckFinality, EndOfList, QueryError, Prune, DeleteError, Generate,
         GenerateError, GenerateNil, Restarted, engine
<1> QED
  BY <1>2, <1>3, <1>4, <1>5, <1>6, <1>7, <1>8

-----------------------------------------------------------------------------
(* Watched, action by action.                                               *)

(* A step that changes neither the objects nor what is generated, and at     *)
(* most adds to the dropped messages, keeps what is kept.                   *)
LEMMA KeptStays ==
  ASSUME TypeOK, [Next]_vars, NEW m \in Msgs, Kept(m),
         UNCHANGED <<KeyOf, objs>>, dropped \subseteq dropped',
         At("generate") => UNCHANGED fin
  PROVE  Kept(m)'
<1>1. Settled(m) => Settled(m)'
  BY SettledStays
<1> QED
  BY <1>1 DEF Kept, Stored, At

(* A put or a delete under the key of m: what it forgets is dropped.         *)
LEMMA KeyOverwritten ==
  ASSUME TypeOK, [Next]_vars, NEW q \in Msgs, NEW m \in Msgs, NEW v \in MaybeObj,
         q # m, Kept(q), UNCHANGED KeyOf,
         objs' = [objs EXCEPT ![KeyOf[m]] = v],
         Others(m) \cup dropped \subseteq dropped',
         At("generate") => UNCHANGED fin
  PROVE  Kept(q)'
<1>1. Settled(q) => Settled(q)'
  BY SettledStays
<1>2. KeyOf[q] \in Keys /\ KeyOf[m] \in Keys
  BY KeysOfMessages
<1>3. objs \in [Keys -> MaybeObj]
  BY DEF TypeOK
<1>4. CASE KeyOf[q] = KeyOf[m]
  <2>1. q \in Stored(q) => q \in Others(m)
    BY <1>4 DEF Stored, Others
  <2> QED
    BY <1>1, <2>1 DEF Kept, At
<1>5. CASE KeyOf[q] # KeyOf[m]
  <2>1. objs'[KeyOf[q]] = objs[KeyOf[q]]
    BY <1>2, <1>3, <1>5
  <2> QED
    BY <1>1, <2>1 DEF Kept, Stored, At
<1> QED
  BY <1>4, <1>5

LEMMA RestartWatched ==
  ASSUME TypeOK, Watched, Restarted, UNCHANGED <<chain, objs>>
  PROVE  Watched'
<1>1. \A m \in Msgs : held'[m] = "no" => Kept(m)'
  BY DEF Restarted, Drop, Kept, Stored, chain
<1>2. \A m \in Msgs : job'[m].pc = "idle"
  BY Restart
<1>3. confirmed' \subseteq Msgs
  BY Restart
<1> QED
  BY <1>1, <1>2, <1>3 DEF Watched

LEMMA EngineWatched ==
  ASSUME TypeOK, Watched, Engine PROVE Watched'
<1>0. /\ held \in [Msgs -> {"no", "free", "busy"}] /\ job \in [Msgs -> JobType]
      /\ confirmed \subseteq Msgs /\ [Next]_vars
  BY DEF TypeOK, JobType, Next
<1>1. CASE Crash
  BY <1>1, RestartWatched DEF Crash
<1>2. CASE Listen
  <2>1. \A q \in Msgs : Kept(q) => Kept(q)'
    BY <1>0, <1>2, KeptStays DEF Listen, chain, past
  <2> QED
    BY <1>0, <1>2, <2>1 DEF Listen, Watched, past
<1>3. ASSUME NEW m \in Msgs, Received(m) PROVE Watched'
  <2>1. \A q \in Msgs : Kept(q) => Kept(q)'
    BY <1>0, <1>3, KeptStays DEF Received, Drop, chain
  <2>2. Kept(m)'
    BY <1>3 DEF Received, Drop, Kept, Stored, chain
  <2>3. \A q \in Msgs \ {m} : held'[q] = held[q]
    BY <1>0, <1>3 DEF Received
  <2> QED
    BY <1>0, <1>3, <2>1, <2>2, <2>3 DEF Received, Drop, Watched
<1>4. ASSUME NEW m \in Msgs, Succeed(m) PROVE Watched'
  <2>1. \A q \in Msgs : Kept(q) => Kept(q)'
    BY <1>0, <1>4, KeptStays DEF Succeed, chain, past
  <2>2. \A q \in Msgs : job'[q].pc = "clear" => job[q].pc = "clear"
    BY <1>0, <1>4 DEF Succeed, JobType
  <2> QED
    BY <1>0, <1>4, <2>1, <2>2 DEF Succeed, Watched, past
<1>5. ASSUME NEW m \in Msgs, Fail(m) PROVE Watched'
  <2>1. \A q \in Msgs : Kept(q) => Kept(q)'
    BY <1>0, <1>5, KeptStays DEF Fail, chain, past
  <2>2. \A q \in Msgs : job'[q].pc = "clear" => job[q].pc = "clear"
    BY <1>0, <1>5 DEF Fail, IdleJob
  <2>3. \A q \in Msgs : /\ held'[q] = "no" => held[q] = "no"
                        /\ held[q] = "free" => held'[q] = "free"
    BY <1>0, <1>5 DEF Fail
  <2> QED
    BY <1>0, <1>5, <2>1, <2>2, <2>3 DEF Fail, Watched, past
<1>6. ASSUME NEW m \in Msgs, Clear(m) PROVE Watched'
  <2>1. \A q \in Msgs : Kept(q) => Kept(q)'
    BY <1>0, <1>6, KeptStays DEF Clear, Drop, chain
  <2>2. Kept(m)'
    <3>1. CASE held[m] = "free"
      BY <1>6, <3>1 DEF Clear, Drop, Kept, Stored, chain
    <3>2. CASE held[m] # "free"
      BY <1>6, <3>2, <2>1 DEF Clear, Watched
    <3> QED
      BY <3>1, <3>2
  <2>3. \A q \in Msgs \ {m} : held'[q] = held[q] /\ job'[q] = job[q]
    BY <1>0, <1>6 DEF Clear
  <2>4. job'[m].pc = "idle" /\ confirmed' = confirmed
    BY <1>0, <1>6 DEF Clear, IdleJob, Drop
  <2> QED
    BY <1>0, <2>1, <2>2, <2>3, <2>4 DEF Watched
<1>7. ASSUME NEW m \in Msgs, NEW n \in Attempts, Send(m, n) PROVE Watched'
  <2>1. \A q \in Msgs : Kept(q) => Kept(q)'
    BY <1>0, <1>7, KeptStays DEF Send, past
  <2>2. \A q \in Msgs \ {m} : held'[q] = held[q] /\ job'[q] = job[q]
    BY <1>0, <1>7 DEF Send
  <2>3. held'[m] = "busy" /\ job'[m].pc = "wait" /\ confirmed' = confirmed
    BY <1>0, <1>7 DEF Send, IdleJob, past
  <2> QED
    BY <1>0, <2>1, <2>2, <2>3 DEF Watched
<1>8. ASSUME NEW m \in Msgs, NEW ok \in BOOLEAN, StoreTxObject(m, ok) PROVE Watched'
  <2>0. UNCHANGED <<KeyOf, held, fin>>
    BY <1>8 DEF StoreTxObject, chain
  <2>1. \A q \in Msgs \ {m} : job'[q] = job[q]
    BY <1>0, <1>8 DEF StoreTxObject
  <2>2. CASE held[m] # "no" /\ ok
    <3> DEFINE v == TxObject(m, job[m].hash, job[m].height)
    <3>1. v \in MaybeObj /\ v.msg = m /\ v # NoObj
      <4>1. v \in [msg : Msgs, hash : Attempts, height : Nat] /\ v.msg = m
        BY <1>0, <1>8 DEF TxObject, StoreTxObject, TypeOK, JobType
      <4> QED
        BY <4>1, FinalityAssumption DEF MaybeObj
    <3>2. /\ objs' = [objs EXCEPT ![KeyOf[m]] = v]
          /\ confirmed' = confirmed \cup {m} /\ dropped' = dropped \cup Others(m)
      BY <1>8, <2>2 DEF StoreTxObject
    <3> HIDE DEF v
    <3>3. \A q \in Msgs \ {m} : Kept(q) => Kept(q)'
      BY <1>0, <2>0, <3>1, <3>2, KeyOverwritten
    <3>4. objs'[KeyOf[m]] = v
      BY <3>2, KeysOfMessages DEF TypeOK
    <3>5. Kept(m)'
      BY <2>0, <3>1, <3>4 DEF Kept, Stored
    <3> QED
      BY <1>0, <2>0, <2>1, <3>2, <3>3, <3>5 DEF Watched
  <2>3. CASE ~(held[m] # "no" /\ ok)
    <3>1. job'[m].pc = "idle" /\ UNCHANGED <<objs, past>>
      BY <1>0, <1>8, <2>3 DEF StoreTxObject, IdleJob
    <3>2. \A q \in Msgs : Kept(q) => Kept(q)'
      BY <1>0, <2>0, <3>1, KeptStays DEF past
    <3> QED
      BY <1>0, <2>0, <2>1, <3>1, <3>2 DEF Watched, past
  <2> QED
    BY <2>2, <2>3
<1> QED
  BY <1>1, <1>2, <1>3, <1>4, <1>5, <1>6, <1>7, <1>8 DEF Engine

LEMMA CheckWatched ==
  ASSUME TypeOK, Heights, Watched, CheckFinality, MaxReorg <= FinalityBlock
  PROVE  Watched'
<1>0. /\ fin \in FinType /\ held \in [Msgs -> {"no", "free", "busy"}]
      /\ objs \in [Keys -> MaybeObj] /\ NoObj \in MaybeObj
      /\ confirmed \subseteq Msgs /\ [Next]_vars
  BY DEF TypeOK, FinType, MaybeObj, Next
<1>1. CASE ~At("generate") /\ UNCHANGED <<chain, engine, objs, past>>
  <2>1. \A q \in Msgs : Kept(q) => Kept(q)'
    BY <1>0, <1>1, KeptStays DEF chain, past
  <2> QED
    BY <1>0, <1>1, <2>1 DEF Watched, engine, past
<1>2. CASE Prune
  <2>0. fin.cur.msg \in Msgs /\ fin.cur.hash \in Attempts
    BY <1>0, <1>2, Objects DEF Prune, At, TypeOK
  <2> PICK m \in Msgs : m = fin.cur.msg
    BY <2>0
  <2>2. /\ objs' = [objs EXCEPT ![KeyOf[m]] = NoObj] /\ ~At("generate")
        /\ confirmed' = confirmed /\ UNCHANGED <<KeyOf, head, tx, held, job>>
        /\ dropped' = dropped \cup (IF Moved(fin.cur) THEN {m} ELSE {}) \cup Others(m)
    BY <1>2 DEF Prune, At, DeleteTxObject, Drop, chain, engine
  <2>3. \A q \in Msgs \ {m} : Kept(q) => Kept(q)'
    BY <1>0, <2>2, KeyOverwritten
  <2>4. Kept(m)'
    <3>1. CASE Moved(fin.cur)
      BY <2>2, <3>1 DEF Kept
    <3>2. CASE ~Moved(fin.cur)
      <4>1. Unmoved /\ Status(m, fin.cur.hash) = "ok" /\ Deep
        BY <1>2, <3>2 DEF Moved, Unmoved, Heights, Prune, At, Active
      <4>2. tx[m][fin.cur.hash].at + MaxReorg <= head
        BY <4>1, Numbers DEF Unmoved, Deep, TypeOK
      <4>3. Settled(m)
        BY <2>0, <4>1, <4>2 DEF Settled
      <4> QED
        BY <1>0, <4>3, SettledStays DEF Kept
    <3> QED
      BY <3>1, <3>2
  <2> QED
    BY <1>0, <2>2, <2>3, <2>4 DEF Watched
<1>3. CASE Remove
  <2>0. fin.cur.msg \in Msgs
    BY <1>0, <1>3, Objects DEF Remove, At, TypeOK
  <2> PICK m \in Msgs : m = fin.cur.msg
    BY <2>0
  <2>2. /\ objs' = [objs EXCEPT ![KeyOf[m]] = NoObj] /\ ~At("generate")
        /\ confirmed' = confirmed /\ UNCHANGED <<KeyOf, held, job>>
        /\ dropped' = dropped \cup Others(m)
    BY <1>3 DEF Remove, At, DeleteTxObject, Drop, chain, engine
  <2>3. \A q \in Msgs \ {m} : Kept(q) => Kept(q)'
    BY <1>0, <2>2, KeyOverwritten
  <2>4. Kept(m)'
    BY <1>0, <1>3 DEF Kept, Remove, Goto, At, FinType
  <2> QED
    BY <1>0, <2>2, <2>3, <2>4 DEF Watched
<1>4. ASSUME At("generate"), NEW M, Drop(M), UNCHANGED <<chain, job, objs>>,
             held' = held \/ \E q \in Msgs \cup {Generated(fin.cur.msg)} :
                               held' = [held EXCEPT ![q] = "free"],
             fin.cur.msg \in M \/ held'[fin.cur.msg] = "free"
      PROVE  Watched'
  <2>0. fin.cur.msg \in Msgs
    BY <1>0, <1>4, Objects DEF At, TypeOK
  <2> PICK m \in Msgs : m = fin.cur.msg
    BY <2>0
  <2>2. \A q \in Msgs : /\ held'[q] = "no" => held[q] = "no"
                        /\ held[q] = "free" => held'[q] = "free"
    BY <1>0, <1>4
  <2>3. \A q \in Msgs \ {m} : Kept(q) => Kept(q)'
    <3>1. \A q \in Msgs : Settled(q) => Settled(q)'
      BY <1>0, SettledStays
    <3> QED
      BY <1>4, <3>1 DEF Kept, Drop, Stored, chain
  <2>4. Kept(m)' \/ held'[m] = "free"
    BY <1>4 DEF Kept, Drop
  <2>5. UNCHANGED <<confirmed, job>>
    BY <1>4 DEF Drop
  <2> QED
    BY <1>0, <2>2, <2>3, <2>4, <2>5 DEF Watched
<1>5. CASE Generate
  <2> DEFINE m == Generated(fin.cur.msg)
  <2>1. At("generate") /\ Drop({fin.cur.msg} \ {m}) /\ UNCHANGED <<chain, job, objs>>
        /\ held' = [held EXCEPT ![m] = "free"]
    BY <1>5 DEF Generate
  <2>2. fin.cur.msg \in Msgs
    BY <1>0, <2>1, Objects DEF At, TypeOK
  <2>3. fin.cur.msg \in {fin.cur.msg} \ {m} \/ held'[fin.cur.msg] = "free"
    <3> HIDE DEF m
    <3> QED
      BY <1>0, <2>1, <2>2
  <2> QED
    BY <1>4, <2>1, <2>3
<1>6. CASE GenerateError
  <2>1. At("generate") /\ Drop({fin.cur.msg}) /\ UNCHANGED <<chain, job, objs, held>>
    BY <1>6 DEF GenerateError, engine
  <2> QED
    BY <1>4, <2>1
<1>7. CASE GenerateNil
  BY <1>7, RestartWatched DEF GenerateNil
<1>8. \/ ~At("generate") /\ UNCHANGED <<chain, engine, objs, past>>
      \/ Prune \/ Remove \/ Generate \/ GenerateError \/ GenerateNil
  BY DEF CheckFinality, Tick, EndOfList, Query, QueryError, Take, DeleteError, At
<1> QED
  BY <1>1, <1>2, <1>3, <1>5, <1>6, <1>7, <1>8

-----------------------------------------------------------------------------
IInv == TypeOK /\ Heights /\ Watched

LEMMA IInvHolds == ASSUME MaxReorg <= FinalityBlock PROVE Spec => []IInv
<1>1. Init => IInv
  BY InitTypes DEF Init, IdleFin, IdleJob, IInv, Heights, Active, Watched
<1>2. IInv /\ [Next]_vars => IInv'
  <2> SUFFICES ASSUME IInv, [Next]_vars PROVE IInv'
    OBVIOUS
  <2>1. CASE Chain
    <3>1. \A q \in Msgs : Kept(q) => Kept(q)'
      BY <2>1, KeptStays DEF IInv, Chain, Mine, Include, Reorg, past
    <3>2. UNCHANGED <<held, job, confirmed>>
      BY <2>1 DEF Chain, Mine, Include, Reorg, engine, past
    <3> QED
      BY <2>1, <3>1, <3>2, ChainTypes, ChainHeights DEF IInv, Watched, TypeOK
  <2>2. CASE Engine
    BY <2>2, EngineTypes, EngineHeights, EngineWatched DEF IInv
  <2>3. CASE CheckFinality
    BY <2>3, CheckTypes, CheckHeights, CheckWatched DEF IInv
  <2>4. CASE UNCHANGED vars
    <3>1. TypeOK'
      BY <2>4 DEF vars, chain, engine, past, IInv, TypeOK, MaybeObj, Keys
    <3>2. Heights'
      BY <2>4 DEF vars, chain, engine, IInv, Heights, Active, Deep, Unmoved, Status
    <3>3. Watched'
      BY <2>4 DEF vars, chain, engine, past, IInv, Watched, Kept, Settled, Stored,
                  Status, At
    <3> QED
      BY <3>1, <3>2, <3>3 DEF IInv
  <2> QED
    BY <2>1, <2>2, <2>3, <2>4 DEF Next
<1> QED
  BY <1>1, <1>2, PTL DEF Spec

(* relay.go:439-455, Finality.tla: when no reorganisation replaces more than *)
(* FinalityBlock blocks, a message whose confirmed delivery is undone is     *)
(* tracked or was dropped in one of the ways the code leaves open, through   *)
(* any number of reorganisations, restarts, failing calls and stale answers. *)
THEOREM UndeliveredTracked ==
  ASSUME MaxReorg <= FinalityBlock PROVE Spec => []UndeliveredIsTracked
<1>1. IInv => UndeliveredIsTracked
  <2> SUFFICES ASSUME IInv, NEW m \in confirmed
               PROVE  Delivered(m) \/ Tracked(m) \/ m \in dropped
    BY DEF UndeliveredIsTracked
  <2>1. m \in Msgs /\ KeyOf[m] \in Keys
    BY KeysOfMessages DEF IInv, TypeOK
  <2>2. CASE Settled(m)
    BY <2>2 DEF Settled, Delivered
  <2>3. CASE m \in Stored(m)
    BY <2>1, <2>3 DEF Stored, Tracked
  <2> QED
    BY <2>1, <2>2, <2>3 DEF IInv, Watched, Kept, Tracked
<1> QED
  BY <1>1, IInvHolds, PTL
=============================================================================
