------------------------- MODULE EvmListenerProofs -------------------------
(***************************************************************************)
(* Theorems about EvmListener.tla: whatever fails, is retried or is lost   *)
(* in a restart, the engine is handed consecutive blocks, each only when   *)
(* the chain has a block on top of it; and a listener with one worker      *)
(* hands each block over with its own logs.  For any number of workers,    *)
(* retries, restarts and blocks.                                           *)
(***************************************************************************)
EXTENDS EvmListener, SequenceTheorems, FiniteSetTheorems

Block == [height : Height, logs : SUBSET Height]
Bnq == [st : {"header", "from", "to", "filter", "ok", "nil"},
        retry : 0 .. Retries, logs : SUBSET Height]

(* The ticker is at most one block above the last one, and a height was     *)
(* saved or handed over only if it is one of the chain.                     *)
Bounded == head <= LastHead /\ latest <= LastHead + 1

(* Nothing is held before a listener has begun; workers run only between    *)
(* the start and the end of a batch, and only when bnch is empty.           *)
Held ==
  /\ pc \in {"down", "begin"} => bnch = <<>> /\ lbn = None /\ sent = <<>>
  /\ pc = "down" => next = 0 /\ first = 0
  /\ pc = "fetch" => bnch = <<>>
  /\ pc # "fetch" => DOMAIN query = {}

(* The blocks handed over, the last unverified one and the ones in bnch     *)
(* follow each other, and next is the height after lbn.                     *)
Consecutive ==
  /\ \A i \in 1 .. Len(sent) : sent[i].height = first + i - 1
  /\ lbn = None => sent = <<>> /\ next = first
  /\ lbn # None => lbn.height = first + Len(sent) /\ next = lbn.height + 1
  /\ \A i \in 1 .. Len(bnch) : bnch[i].height = next + i - 1

(* The batch asks for blocks from next on, one per place of bnch, and who   *)
(* has seen a header, or holds a notification, does so of a block the chain *)
(* has.                                                                     *)
Batch ==
  /\ \A h \in DOMAIN query : next <= h /\ h <= LastHead /\ h < next + capacity
  /\ \A h \in DOMAIN query :
       query[h].st \in {"from", "to", "filter", "ok"} => h <= head
  /\ \A i \in 1 .. Len(bnch) : bnch[i].height <= head

IInv == TypeOK /\ Bounded /\ Held /\ Consecutive /\ Batch

-----------------------------------------------------------------------------
(* Lemmas on the operators of the model.                                    *)

LEMMA Heights ==
  /\ Height \subseteq Nat /\ 0 \in Height
  /\ {StartAt, Workers, FinalityBlock, FirstHead, LastHead} \subseteq Height
  /\ FirstHead <= LastHead
  /\ LastHead + 1 \in Height /\ LastHead + 2 \in Height
  /\ \A n \in Nat : n <= LastHead + 2 => n \in Height
  BY WidthAssumption, ListenerAssumption DEF Height

LEMMA NoneIsNoBlock == None \notin Block /\ None \notin Nat
  BY ListenerAssumption DEF Block

LEMMA NoWorkers == DOMAIN NoBatch = {}
  BY DEF NoBatch

(* Where a listener starts is a height, whether or not the subtraction of   *)
(* evm/listener.go:244 wraps.                                               *)
LEMMA StartIsHeight ==
  ASSUME NEW s \in Height, NEW l \in Height
  PROVE  /\ Sub(l, FinalityBlock) \in Height
         /\ EvmStart(s, StartAt, l, FinalityBlock) \in Height
<1>1. Sub(l, FinalityBlock) \in Height
  BY Heights, WidthAssumption DEF Sub, Height
<1> QED
  BY <1>1, Heights DEF EvmStart, Prefer

LEMMA CapacityIsPositive ==
  ASSUME NEW n \in Height, NEW l \in Height
  PROVE  Concurrency(Workers, n, l) \in Nat \ {0}
  BY ConcurrencyBounds, Heights

(* The run that Collect takes, the batch's answered blocks from next on     *)
(* without a hole, is an interval.  Its size is that of the interval it     *)
(* lies in, so that no induction on heights is needed.                      *)
Answered(h) == h \in DOMAIN query /\ query[h].st = "ok"
Run == {h \in DOMAIN query : \A i \in next .. h : Answered(i)}

LEMMA RunIsInterval ==
  ASSUME IInv
  PROVE  /\ Cardinality(Run) \in Nat
         /\ Run = next .. next + Cardinality(Run) - 1
<1>1. next \in Nat /\ LastHead \in Nat /\ DOMAIN query \subseteq Nat
  BY Heights DEF IInv, TypeOK
<1>2. Run \subseteq next .. LastHead
  BY <1>1 DEF Run, IInv, Batch
<1>3. IsFiniteSet(next .. LastHead)
  BY <1>1, FS_Interval
<1>4. IsFiniteSet(Run)
  BY <1>2, <1>3, FS_Subset
<1>5. Cardinality(Run) \in Nat
  BY <1>4, FS_CardinalityType
<1> DEFINE c == Cardinality(Run)
<1>6. ASSUME NEW h \in Run PROVE h \in next .. next + c - 1
  <2>1. h \in Nat /\ next <= h
    BY <1>1, <1>2
  <2>2. next .. h \subseteq Run
    BY <1>1, <2>1 DEF Run, Answered
  <2>3. Cardinality(next .. h) <= c
    BY <2>2, <1>4, FS_Subset
  <2>4. Cardinality(next .. h) = h - next + 1
    BY <1>1, <2>1, FS_Interval
  <2> HIDE DEF c
  <2> QED
    BY <2>1, <2>3, <2>4, <1>1, <1>5 DEF c
<1>7. Run \in SUBSET (next .. next + c - 1)
  BY <1>6
<1>8. IsFiniteSet(next .. next + c - 1) /\ Cardinality(next .. next + c - 1) = c
  <2>1. c \in Nat
    BY <1>5
  <2> HIDE DEF c
  <2>2. next + c - 1 \in Int /\ next \in Int
    BY <2>1, <1>1
  <2> QED
    BY <2>1, <2>2, <1>1, FS_Interval
<1>9. next .. next + c - 1 = Run
  BY <1>7, <1>8, FS_Subset
<1> QED
  BY <1>5, <1>9

-----------------------------------------------------------------------------
(* The inductive invariant.                                                 *)

LEMMA InitInv == Init => IInv
<1> SUFFICES ASSUME Init PROVE IInv
  OBVIOUS
<1>1. TypeOK
  <2>1. DOMAIN query = {}
    BY NoWorkers DEF Init
  <2>2. head \in Height /\ saved \in Height /\ restarts \in Nat
    BY Heights DEF Init
  <2>3. {next, latest, first} \subseteq Height /\ capacity \in Nat
    BY Heights DEF Init
  <2>4. req \in [from : Height, to : Height]
    BY Heights DEF Init
  <2> QED
    BY <2>1, <2>2, <2>3, <2>4 DEF Init, TypeOK
<1>2. Bounded
  <2>1. LastHead \in Nat /\ FirstHead <= LastHead
    BY Heights
  <2> QED
    BY <2>1 DEF Init, Bounded
<1>3. Held
  BY NoWorkers DEF Init, Held
<1>4. Consecutive
  BY DEF Init, Consecutive
<1>5. Batch
  BY NoWorkers DEF Init, Batch
<1> QED
  BY <1>1, <1>2, <1>3, <1>4, <1>5 DEF IInv

(* A step of a worker changes its own bnq, perhaps blockReq and latest.     *)
LEMMA WorkerInv ==
  ASSUME IInv, NEW h \in DOMAIN query,
         pc = "fetch", UNCHANGED <<pc, next, capacity, buffer, feed, world>>,
         DOMAIN query' = DOMAIN query,
         \A i \in DOMAIN query : i # h => query'[i] = query[i],
         query'[h] \in Bnq,
         query'[h].st \in {"header", "nil"} \/ h <= head,
         req' \in [from : Height, to : Height],
         latest' \in Height, latest' <= LastHead + 1
  PROVE  IInv'
<1> USE DEF IInv
<1>1. UNCHANGED <<pc, next, capacity, bnch, lbn, first, sent, handed, head, saved, restarts>>
  BY DEF buffer, feed, world
<1>2. TypeOK'
  <2>1. \A i \in DOMAIN query' : query'[i] \in Bnq
    BY DEF TypeOK, Bnq
  <2> QED
    BY <1>1, <2>1 DEF TypeOK, Bnq
<1>3. Bounded'
  BY <1>1 DEF Bounded
<1>4. Held'
  BY <1>1 DEF Held
<1>5. Consecutive'
  BY <1>1 DEF Consecutive
<1>6. Batch'
  <2>1. \A i \in DOMAIN query' :
          query'[i].st \in {"from", "to", "filter", "ok"} => i <= head'
    BY <1>1 DEF Batch
  <2> QED
    BY <1>1, <2>1 DEF Batch
<1> QED
  BY <1>2, <1>3, <1>4, <1>5, <1>6

LEMMA WorkersInv == ASSUME IInv, NEW h \in DOMAIN query, Worker(h) PROVE IInv'
<1>1. pc = "fetch" /\ UNCHANGED <<pc, next, capacity, buffer, feed, world>>
  BY DEF Worker, Header, SetFrom, SetTo, FilterLogs, Retry, GiveUp, AboveHead,
         At, Failing
<1>2. h \in Height /\ h \in Nat /\ head \in Nat /\ latest \in Height /\ latest \in Nat
  BY Heights DEF IInv, TypeOK
<1>3. latest <= LastHead + 1 /\ LastHead \in Nat
  BY Heights DEF IInv, Bounded
<1>4. query[h] \in Bnq
  BY DEF IInv, TypeOK, Bnq
<1>5. req \in [from : Height, to : Height]
  BY DEF IInv, TypeOK
<1>6. query[h].st \in {"from", "to", "filter", "ok"} => h <= head
  BY DEF IInv, Batch
<1>7. ASSUME NEW st \in {"header", "from", "to", "filter", "ok", "nil"}, Goto(h, st)
      PROVE  /\ DOMAIN query' = DOMAIN query
             /\ \A i \in DOMAIN query : i # h => query'[i] = query[i]
             /\ query'[h] \in Bnq /\ query'[h].st = st
  <2>1. query'[h] = [query[h] EXCEPT !.st = st]
    BY <1>7 DEF Goto
  <2> QED
    BY <1>7, <1>4, <2>1 DEF Goto, Bnq
<1>8. CASE Header(h)
  <2>1. h <= head /\ UNCHANGED <<latest, req>>
    BY <1>8 DEF Header
  <2>2. PICK st \in {"from", "ok"} : Goto(h, st)
    BY <1>8 DEF Header
  <2> QED
    BY <1>1, <1>2, <1>3, <1>5, <1>7, <2>1, <2>2, WorkerInv
<1>9. CASE SetFrom(h)
  <2>1. Goto(h, "to") /\ h <= head /\ UNCHANGED latest
    BY <1>9, <1>6 DEF SetFrom, At
  <2>2. req' \in [from : Height, to : Height]
    BY <1>9, <1>2, <1>5 DEF SetFrom
  <2> QED
    BY <1>1, <1>2, <1>3, <1>7, <2>1, <2>2, WorkerInv
<1>10. CASE SetTo(h)
  <2>1. Goto(h, "filter") /\ h <= head /\ UNCHANGED latest
    BY <1>10, <1>6 DEF SetTo, At
  <2>2. req' \in [from : Height, to : Height]
    BY <1>10, <1>2, <1>5 DEF SetTo
  <2> QED
    BY <1>1, <1>2, <1>3, <1>7, <2>1, <2>2, WorkerInv
<1>11. CASE FilterLogs(h)
  <2>1. h <= head /\ UNCHANGED <<latest, req>>
    BY <1>11, <1>6 DEF FilterLogs, At
  <2> DEFINE logs == (req.from .. req.to) \cap Active
  <2>2. logs \in SUBSET Height
    BY ListenerAssumption
  <2> HIDE DEF logs
  <2>3. query' = [query EXCEPT ![h].st = "ok", ![h].logs = logs]
    BY <1>11 DEF FilterLogs, logs
  <2>4. query'[h] = [query[h] EXCEPT !.st = "ok", !.logs = logs]
    BY <2>3
  <2>5. query'[h] \in Bnq
    BY <1>4, <2>2, <2>4 DEF Bnq
  <2>6. DOMAIN query' = DOMAIN query /\ \A i \in DOMAIN query : i # h => query'[i] = query[i]
    BY <2>3
  <2> QED
    BY <1>1, <1>2, <1>3, <1>5, <2>1, <2>5, <2>6, WorkerInv
<1>12. CASE Retry(h)
  <2>1. UNCHANGED <<latest, req>>
    BY <1>12 DEF Retry
  <2>2. query[h].retry \in 0 .. Retries /\ query[h].retry > 0
    BY <1>12, <1>4 DEF Retry, Bnq
  <2>3. Asking(query[h].retry - 1) \in Bnq /\ Asking(query[h].retry - 1).st = "header"
    BY <2>2, ListenerAssumption DEF Asking, Bnq
  <2>4. query' = [query EXCEPT ![h] = Asking(query[h].retry - 1)]
    BY <1>12 DEF Retry
  <2>5. /\ DOMAIN query' = DOMAIN query
        /\ \A i \in DOMAIN query : i # h => query'[i] = query[i]
        /\ query'[h] \in Bnq /\ query'[h].st = "header"
    BY <2>3, <2>4
  <2> QED
    BY <1>1, <1>2, <1>3, <1>5, <2>1, <2>5, WorkerInv
<1>13. CASE GiveUp(h)
  <2>1. Goto(h, "nil") /\ UNCHANGED <<latest, req>>
    BY <1>13 DEF GiveUp
  <2> QED
    BY <1>1, <1>2, <1>3, <1>5, <1>7, <2>1, WorkerInv
<1>14. CASE AboveHead(h)
  <2>1. Goto(h, "nil") /\ UNCHANGED req
    BY <1>14 DEF AboveHead
  <2>2. h > head /\ latest' = IF latest >= h THEN h - 1 ELSE latest
    BY <1>14 DEF AboveHead
  <2>3. latest' \in Nat /\ latest' <= LastHead + 1
    BY <1>2, <1>3, <2>2
  <2>4. latest' \in Height
    BY <2>3, <1>3, Heights
  <2> QED
    BY <1>1, <1>2, <1>3, <1>5, <1>7, <2>1, <2>3, <2>4, WorkerInv
<1> QED
  BY <1>8, <1>9, <1>10, <1>11, <1>12, <1>13, <1>14 DEF Worker

LEMMA StartInv == ASSUME IInv, Start PROVE IInv'
<1> USE DEF IInv
<1> DEFINE start == EvmStart(saved, StartAt, head, FinalityBlock)
<1>1. start \in Height
  BY StartIsHeight DEF TypeOK
<1> HIDE DEF start
<1>2. /\ pc = "down" /\ next' = start /\ first' = start /\ pc' = "begin"
      /\ UNCHANGED <<latest, capacity, shared, buffer, sent, handed, world>>
  BY DEF Start, start
<1>3. UNCHANGED <<latest, capacity, query, req, bnch, lbn, sent, handed, head, saved, restarts>>
  BY <1>2 DEF shared, buffer, world
<1>4. DOMAIN query = {} /\ bnch = <<>> /\ sent = <<>> /\ lbn = None
  BY <1>2 DEF Held
<1>5. TypeOK'
  BY <1>1, <1>2, <1>3 DEF TypeOK
<1>6. Bounded'
  BY <1>3 DEF Bounded
<1>7. Held'
  BY <1>2, <1>3, <1>4 DEF Held
<1>8. Consecutive'
  BY <1>2, <1>3, <1>4 DEF Consecutive
<1>9. Batch'
  BY <1>3, <1>4 DEF Batch
<1> QED
  BY <1>5, <1>6, <1>7, <1>8, <1>9

LEMMA BeginInv == ASSUME IInv, NEW answered \in BOOLEAN, Begin(answered) PROVE IInv'
<1> USE DEF IInv
<1>1. /\ pc = "begin" /\ pc' = "select"
      /\ latest' \in {head, 0} /\ capacity' = Concurrency(Workers, next, latest')
      /\ UNCHANGED <<next, shared, buffer, feed, world>>
  BY DEF Begin
<1>2. UNCHANGED <<next, query, req, bnch, lbn, first, sent, handed, head, saved, restarts>>
  BY <1>1 DEF shared, buffer, feed, world
<1>3. latest' \in Height /\ head <= LastHead /\ head \in Nat /\ LastHead \in Nat
  BY <1>1, Heights DEF TypeOK, Bounded
<1>4. capacity' \in Nat
  BY <1>1, <1>3, CapacityIsPositive DEF TypeOK
<1>5. DOMAIN query = {} /\ bnch = <<>>
  BY <1>1 DEF Held
<1>6. TypeOK'
  BY <1>1, <1>2, <1>3, <1>4 DEF TypeOK
<1>7. Bounded'
  BY <1>1, <1>2, <1>3 DEF Bounded
<1>8. Held'
  BY <1>1, <1>2, <1>5 DEF Held
<1>9. Consecutive'
  BY <1>2 DEF Consecutive
<1>10. Batch'
  BY <1>2, <1>5 DEF Batch
<1> QED
  BY <1>6, <1>7, <1>8, <1>9, <1>10

(* The ticker and the poll move latest and nothing else.                    *)
LEMMA HeightInv == ASSUME IInv, HeightTick \/ HeightPoll PROVE IInv'
<1> USE DEF IInv
<1>1. head \in Nat /\ latest \in Nat /\ LastHead \in Nat
  BY Heights DEF TypeOK
<1>2. latest' \in Nat /\ latest' <= LastHead + 1
  BY <1>1 DEF HeightTick, HeightPoll, Bounded
<1>3. latest' \in Height
  BY <1>1, <1>2, Heights
<1>4. UNCHANGED <<pc, next, capacity, shared, buffer, feed, world>>
  BY DEF HeightTick, HeightPoll
<1>5. UNCHANGED <<pc, next, capacity, query, req, bnch, lbn, first, sent, handed, head, saved, restarts>>
  BY <1>4 DEF shared, buffer, feed, world
<1>6. TypeOK'
  BY <1>3, <1>5 DEF TypeOK
<1>7. Bounded'
  BY <1>2, <1>5 DEF Bounded
<1>8. Held'
  BY <1>5 DEF Held
<1>9. Consecutive'
  BY <1>5 DEF Consecutive
<1>10. Batch'
  BY <1>5 DEF Batch
<1> QED
  BY <1>6, <1>7, <1>8, <1>9, <1>10

LEMMA StartBatchInv == ASSUME IInv, StartBatch PROVE IInv'
<1> USE DEF IInv
<1> DEFINE D == {i \in next .. latest - 1 : i < next + capacity}
<1>1. /\ next \in Nat /\ latest \in Nat /\ LastHead \in Nat /\ capacity \in Nat
      /\ latest <= LastHead + 1
  BY Heights DEF TypeOK, Bounded
<1>2. \A h \in D : h \in Nat /\ next <= h /\ h <= LastHead /\ h < next + capacity
  BY <1>1
<1>3. D \subseteq Height
  BY <1>1, <1>2, Heights
<1> HIDE DEF D
<1>4. /\ pc = "select" /\ bnch = <<>> /\ pc' = "fetch"
      /\ query' = [h \in D |-> Asking(Retries)]
      /\ UNCHANGED <<next, latest, capacity, req, buffer, feed, world>>
  BY DEF StartBatch, D
<1>5. UNCHANGED <<next, latest, capacity, req, bnch, lbn, first, sent, handed, head, saved, restarts>>
  BY <1>4 DEF buffer, feed, world
<1>6. Asking(Retries) \in Bnq /\ Asking(Retries).st = "header"
  BY ListenerAssumption DEF Asking, Bnq
<1>7. DOMAIN query' = D /\ \A h \in D : query'[h] = Asking(Retries)
  BY <1>4
<1>8. TypeOK'
  BY <1>3, <1>4, <1>5, <1>6, <1>7 DEF TypeOK, Bnq
<1>9. Bounded'
  BY <1>5 DEF Bounded
<1>10. Held'
  BY <1>4, <1>5 DEF Held
<1>11. Consecutive'
  BY <1>5 DEF Consecutive
<1>12. Batch'
  BY <1>2, <1>4, <1>5, <1>6, <1>7 DEF Batch
<1> QED
  BY <1>8, <1>9, <1>10, <1>11, <1>12

(* What Collect puts into bnch.                                             *)
LEMMA CollectedBlocks ==
  ASSUME IInv, Collect
  PROVE  /\ bnch' \in Seq(Block)
         /\ \A i \in 1 .. Len(bnch') :
              /\ next + i - 1 \in Run
              /\ bnch'[i] = Notification(next + i - 1, query[next + i - 1].logs)
<1> USE DEF IInv
<1> DEFINE c == Cardinality(Run)
           taken == [i \in 1 .. c |->
                       Notification(next + i - 1, query[next + i - 1].logs)]
<1>1. c \in Nat /\ Run = next .. next + c - 1
  BY RunIsInterval
<1>2. bnch' = bnch \o taken
  BY DEF Collect, Run, Answered
<1>3. bnch = <<>>
  BY DEF Collect, Held
<1> HIDE DEF c
<1>4. next \in Nat
  BY Heights DEF TypeOK
<1>5. \A i \in 1 .. c : next + i - 1 \in Run
  BY <1>1, <1>4
<1>6. \A h \in Run : h \in Height /\ query[h].logs \in SUBSET Height
  BY DEF Run, TypeOK
<1>7. \A i \in 1 .. c : taken[i] \in Block
  BY <1>5, <1>6 DEF Notification, Block
<1>8. taken \in Seq(Block) /\ Len(taken) = c
  <2>1. taken \in [1 .. c -> Block]
    BY <1>7
  <2> QED
    BY <2>1, <1>1
<1>9. bnch' = taken
  BY <1>2, <1>3, <1>8, ConcatEmptySeq
<1> QED
  BY <1>5, <1>8, <1>9

LEMMA CollectInv == ASSUME IInv, Collect PROVE IInv'
<1> USE DEF IInv
<1>1. /\ pc = "fetch" /\ query' = NoBatch /\ pc' = "select"
      /\ UNCHANGED <<next, latest, capacity, req, lbn, feed, world>>
  BY DEF Collect
<1>2. UNCHANGED <<next, latest, capacity, req, lbn, first, sent, handed, head, saved, restarts>>
  BY <1>1 DEF feed, world
<1>3. DOMAIN query' = {}
  BY <1>1, NoWorkers
<1>4. /\ bnch' \in Seq(Block)
      /\ \A i \in 1 .. Len(bnch') :
           next + i - 1 \in Run /\ bnch'[i].height = next + i - 1
  <2>1. \A h, logs : Notification(h, logs).height = h
    BY DEF Notification
  <2> QED
    BY <2>1, CollectedBlocks
<1>5. TypeOK'
  BY <1>1, <1>2, <1>3, <1>4 DEF TypeOK, Block
<1>6. Bounded'
  BY <1>2 DEF Bounded
<1>7. Held'
  BY <1>1, <1>2, <1>3 DEF Held
<1>8. Consecutive'
  BY <1>2, <1>4 DEF Consecutive
<1>9. Batch'
  <2>1. \A h \in Run : h <= head
    <3>1. ASSUME NEW h \in Run PROVE h <= head
      <4>1. h \in DOMAIN query
        BY <3>1 DEF Run
      <4>2. h \in Nat /\ next \in Nat /\ next <= h
        BY <4>1, Heights DEF TypeOK, Batch
      <4>3. h \in next .. h
        BY <4>2
      <4> QED
        BY <3>1, <4>1, <4>3 DEF Run, Answered, Batch
    <3> QED
      BY <3>1
  <2> QED
    BY <1>2, <1>3, <1>4, <2>1 DEF Batch
<1> QED
  BY <1>5, <1>6, <1>7, <1>8, <1>9

(* What Deliver does to the blocks held and handed over.                    *)
LEMMA Delivered ==
  ASSUME IInv, Deliver
  PROVE  /\ pc \in {"select", "deliver"} /\ pc' \in {"select", "deliver"}
         /\ bnch \in Seq(Block) /\ bnch # <<>> /\ Len(bnch) \in Nat \ {0}
         /\ bnch[1] \in Block /\ bnch[1].height = next
         /\ lbn' = bnch[1] /\ next' = next + 1
         /\ bnch' \in Seq(Block) /\ Len(bnch') = Len(bnch) - 1
         /\ \A i \in 1 .. Len(bnch') : bnch'[i] = bnch[i + 1]
         /\ UNCHANGED <<latest, capacity, query, req, first, head, saved, restarts>>
<1>1. /\ pc \in {"select", "deliver"} /\ bnch # <<>>
      /\ lbn' = Head(bnch) /\ bnch' = Tail(bnch) /\ next' = next + 1
      /\ UNCHANGED <<latest, capacity, shared, first, world>>
  BY DEF Deliver
<1>2. pc' \in {"select", "deliver"}
  BY DEF Deliver
<1>3. bnch \in Seq(Block) /\ Len(bnch) \in Nat \ {0}
  BY <1>1, EmptySeq DEF IInv, TypeOK, Block
<1>4. Head(bnch) = bnch[1] /\ bnch[1] \in Block
  BY <1>1, <1>3
<1>5. bnch[1].height = next
  <2>1. next \in Nat /\ 1 \in 1 .. Len(bnch)
    <3>1. next \in Nat
      BY Heights DEF IInv, TypeOK
    <3> QED
      BY <3>1, <1>3
  <2>2. bnch[1].height = next + 1 - 1
    BY <2>1 DEF IInv, Consecutive
  <2> QED
    BY <2>1, <2>2
<1>6. /\ bnch' \in Seq(Block) /\ Len(bnch') = Len(bnch) - 1
      /\ \A i \in 1 .. Len(bnch') : bnch'[i] = bnch[i + 1]
  BY <1>1, <1>3, HeadTailProperties
<1> QED
  BY <1>1, <1>2, <1>3, <1>4, <1>5, <1>6 DEF shared, world

(* The first block is only kept; after it, each hands over its predecessor. *)
LEMMA HandedOver ==
  ASSUME IInv, Deliver
  PROVE  /\ sent' \in Seq(Block)
         /\ \/ lbn = None /\ sent = <<>> /\ UNCHANGED <<sent, handed>>
            \/ /\ lbn \in Block /\ lbn.height = first + Len(sent)
               /\ next = lbn.height + 1
               /\ handed' = handed \cup {lbn.height}
               /\ Len(sent') = Len(sent) + 1
               /\ sent'[Len(sent) + 1] = lbn
               /\ \A i \in 1 .. Len(sent) : sent'[i] = sent[i]
<1>1. sent \in Seq(Block)
  BY DEF IInv, TypeOK, Block
<1>2. CASE lbn = None
  BY <1>1, <1>2 DEF Deliver, IInv, Consecutive
<1>3. CASE lbn # None
  <2>1. lbn \in Block /\ lbn.height = first + Len(sent) /\ next = lbn.height + 1
    BY <1>3 DEF IInv, TypeOK, Consecutive, Block
  <2>2. sent' = Append(sent, lbn) /\ handed' = handed \cup {lbn.height}
    BY <1>3 DEF Deliver
  <2> QED
    BY <1>1, <2>1, <2>2, AppendProperties
<1> QED
  BY <1>2, <1>3

LEMMA DeliverInv == ASSUME IInv, Deliver PROVE IInv'
<1> USE DEF IInv
<1>1. /\ next \in Nat /\ head \in Nat /\ LastHead \in Nat /\ first \in Nat
      /\ head <= LastHead
  BY Heights DEF TypeOK, Bounded
<1>2. sent \in Seq(Block) /\ Len(sent) \in Nat
  BY DEF TypeOK, Block
<1>3. next <= head /\ next' = next + 1
  BY Delivered DEF Batch
<1>4. next' \in Height /\ next' \in Nat
  BY <1>1, <1>3, Heights
<1>5. lbn' \in Block /\ lbn'.height = next /\ lbn' # None
  BY Delivered, NoneIsNoBlock
<1>6. TypeOK'
  <2>1. handed' \subseteq Height
    BY HandedOver DEF TypeOK, Block
  <2> QED
    BY <1>4, <1>5, <2>1, Delivered, HandedOver DEF TypeOK, Block
<1>7. Bounded'
  BY Delivered DEF Bounded
<1>8. Held'
  BY Delivered DEF Held
<1>9. Consecutive'
  <2>1. /\ \A i \in 1 .. Len(sent') : sent'[i].height = first + i - 1
        /\ lbn'.height = first + Len(sent')
    <3>1. CASE lbn = None
      <4>1. sent = <<>> /\ sent' = <<>> /\ next = first
        BY <3>1, HandedOver, NoneIsNoBlock DEF Consecutive
      <4>2. Len(sent') = 0
        BY <4>1
      <4> QED
        BY <4>1, <4>2, <1>1, <1>5
    <3>2. CASE lbn # None
      <4>1. /\ lbn.height = first + Len(sent) /\ next = lbn.height + 1
            /\ Len(sent') = Len(sent) + 1 /\ sent'[Len(sent) + 1] = lbn
            /\ \A i \in 1 .. Len(sent) : sent'[i] = sent[i]
        BY <3>2, HandedOver
      <4>2. ASSUME NEW i \in 1 .. Len(sent) PROVE sent'[i].height = first + i - 1
        BY <4>1, <4>2 DEF Consecutive
      <4>3. \A i \in 1 .. Len(sent') : i \in 1 .. Len(sent) \/ i = Len(sent) + 1
        BY <4>1, <1>2
      <4>4. lbn.height = first + (Len(sent) + 1) - 1
        BY <4>1, <1>1, <1>2
      <4>5. next = first + (Len(sent) + 1)
        BY <4>1, <1>1, <1>2
      <4> QED
        BY <4>1, <4>2, <4>3, <4>4, <4>5, <1>5
    <3> QED
      BY <3>1, <3>2
  <2>3. \A i \in 1 .. Len(bnch') : bnch'[i].height = next' + i - 1
    <3>1. ASSUME NEW i \in 1 .. Len(bnch')
          PROVE  bnch'[i].height = next' + i - 1
      <4>1. i \in Nat /\ i + 1 \in 1 .. Len(bnch)
        BY Delivered
      <4>2. bnch[i + 1].height = next + (i + 1) - 1
        BY <4>1 DEF Consecutive
      <4> QED
        BY <1>1, <1>3, <4>1, <4>2, Delivered
    <3> QED
      BY <3>1
  <2> QED
    BY <1>3, <1>5, <2>1, <2>3, Delivered DEF Consecutive
<1>10. Batch'
  <2>1. DOMAIN query = {}
    BY Delivered DEF Held
  <2>2. \A i \in 1 .. Len(bnch') : bnch'[i].height <= head
    <3>1. ASSUME NEW i \in 1 .. Len(bnch') PROVE bnch'[i].height <= head
      <4>1. i + 1 \in 1 .. Len(bnch) /\ bnch'[i] = bnch[i + 1]
        BY Delivered
      <4> QED
        BY <4>1 DEF Batch
    <3> QED
      BY <3>1
  <2> QED
    BY <2>1, <2>2, Delivered DEF Batch
<1> QED
  BY <1>6, <1>7, <1>8, <1>9, <1>10

(* Listener returns: everything stays as it is.                             *)
LEMMA ReturnInv == ASSUME IInv, StartFails \/ FindMessagesFails PROVE IInv'
<1> USE DEF IInv
<1>1. /\ pc \in {"down", "select", "deliver"} /\ pc' = "returned"
      /\ UNCHANGED <<next, latest, capacity, shared, buffer, feed, world>>
  BY DEF StartFails, FindMessagesFails
<1>2. UNCHANGED <<next, latest, capacity, query, req, bnch, lbn, first, sent, handed, head, saved, restarts>>
  BY <1>1 DEF shared, buffer, feed, world
<1>3. TypeOK'
  BY <1>1, <1>2 DEF TypeOK
<1>4. Bounded' /\ Consecutive' /\ Batch'
  BY <1>2 DEF Bounded, Consecutive, Batch
<1>5. Held'
  BY <1>1, <1>2 DEF Held
<1> QED
  BY <1>3, <1>4, <1>5

LEMMA MineInv == ASSUME IInv, Mine PROVE IInv'
<1> USE DEF IInv
<1>1. /\ head < LastHead /\ head' = head + 1
      /\ UNCHANGED <<pc, next, latest, capacity, shared, buffer, feed, saved, restarts>>
  BY DEF Mine
<1>2. UNCHANGED <<pc, next, latest, capacity, query, req, bnch, lbn, first, sent, handed, saved, restarts>>
  BY <1>1 DEF shared, buffer, feed
<1>3. head \in Nat /\ LastHead \in Nat
  BY Heights DEF TypeOK
<1>4. head' \in Nat /\ head' <= LastHead /\ head' \in Height
  BY <1>1, <1>3, Heights
<1>5. TypeOK'
  BY <1>2, <1>4 DEF TypeOK
<1>6. Bounded'
  BY <1>2, <1>4 DEF Bounded
<1>7. Held' /\ Consecutive'
  BY <1>2 DEF Held, Consecutive
<1>8. Batch'
  <2>1. \A n \in Nat : n <= head => n <= head'
    BY <1>1, <1>3
  <2>2. \A i \in 1 .. Len(bnch) : bnch[i].height \in Nat
    <3>1. bnch \in Seq(Block)
      BY DEF TypeOK, Block
    <3>2. \A i \in 1 .. Len(bnch) : bnch[i] \in Block
      BY <3>1, ElementOfSeq
    <3>3. \A b \in Block : b.height \in Nat
      BY Heights DEF Block
    <3> QED
      BY <3>2, <3>3
  <2>3. \A h \in DOMAIN query : h \in Nat
    BY Heights DEF TypeOK
  <2> QED
    BY <1>2, <2>1, <2>2, <2>3 DEF Batch
<1> QED
  BY <1>5, <1>6, <1>7, <1>8

LEMMA SaveInv == ASSUME IInv, Save PROVE IInv'
<1> USE DEF IInv
<1>1. UNCHANGED <<pc, next, latest, capacity, shared, buffer, feed, head, restarts>>
  BY DEF Save
<1>2. UNCHANGED <<pc, next, latest, capacity, query, req, bnch, lbn, first, sent, handed, head, restarts>>
  BY <1>1 DEF shared, buffer, feed
<1>3. saved' \in Height
  <2>1. sent \in Seq(Block) /\ DOMAIN sent = 1 .. Len(sent)
    BY LenProperties DEF TypeOK, Block
  <2>2. PICK i \in 1 .. Len(sent) : saved' = sent[i].height
    BY <2>1 DEF Save
  <2>3. sent[i] \in Block
    BY <2>1, ElementOfSeq
  <2> QED
    BY <2>2, <2>3 DEF Block
<1>4. TypeOK'
  BY <1>2, <1>3 DEF TypeOK
<1>5. Bounded' /\ Held' /\ Consecutive' /\ Batch'
  BY <1>2 DEF Bounded, Held, Consecutive, Batch
<1> QED
  BY <1>4, <1>5

LEMMA CrashInv == ASSUME IInv, Crash PROVE IInv'
<1> USE DEF IInv
<1>1. /\ restarts' = restarts + 1 /\ pc' = "down"
      /\ next' = 0 /\ latest' = 0 /\ capacity' = 0 /\ first' = 0
      /\ bnch' = <<>> /\ lbn' = None /\ sent' = <<>>
      /\ query' = NoBatch /\ req' = [from |-> 0, to |-> 0]
      /\ UNCHANGED <<handed, head, saved>>
  BY DEF Crash
<1>2. DOMAIN query' = {}
  BY <1>1, NoWorkers
<1>3. head <= LastHead /\ head \in Nat /\ LastHead \in Nat /\ 0 \in Height
  BY Heights DEF TypeOK, Bounded
<1>4. TypeOK'
  BY <1>1, <1>2, <1>3 DEF TypeOK
<1>5. Bounded'
  BY <1>1, <1>3 DEF Bounded
<1>6. Held' /\ Consecutive' /\ Batch'
  BY <1>1, <1>2 DEF Held, Consecutive, Batch
<1> QED
  BY <1>4, <1>5, <1>6

LEMMA StutterInv == ASSUME IInv, UNCHANGED vars PROVE IInv'
<1>1. UNCHANGED <<pc, next, latest, capacity, query, req, bnch, lbn, first, sent, handed, head, saved, restarts>>
  BY DEF vars, shared, buffer, feed, world
<1> QED
  BY <1>1 DEF IInv, TypeOK, Bounded, Held, Consecutive, Batch

LEMMA StepInv == ASSUME IInv, [Next]_vars PROVE IInv'
<1>1. CASE Loop
  BY <1>1, StartInv, BeginInv, HeightInv, StartBatchInv, CollectInv, DeliverInv
     DEF Loop
<1>2. CASE StartFails \/ FindMessagesFails
  BY <1>2, ReturnInv
<1>3. CASE \E h \in DOMAIN query : Worker(h)
  BY <1>3, WorkersInv
<1>4. CASE Mine \/ Save \/ Crash
  BY <1>4, MineInv, SaveInv, CrashInv
<1>5. CASE UNCHANGED vars
  BY <1>5, StutterInv
<1> QED
  BY <1>1, <1>2, <1>3, <1>4, <1>5 DEF Next

(* The inductive invariant holds in every reachable state.                  *)
LEMMA ListenerInvariant == Spec => []IInv
<1>1. IInv /\ [Next]_vars => IInv'
  BY StepInv
<1> QED
  BY InitInv, <1>1, PTL DEF Spec

(* Types: no height leaves uint64, next included, which counts on with      *)
(* every notification (evm/listener.go:88), and whatever a worker hands on  *)
(* is a bnq with as many retries as it may have.                            *)
THEOREM EvmListenerTypeOK == Spec => []TypeOK
<1>1. IInv => TypeOK
  BY DEF IInv
<1> QED
  BY ListenerInvariant, <1>1, PTL

-----------------------------------------------------------------------------
(* Blocks are handed over only below the head.                              *)

LEMMA SentSeq == ASSUME IInv PROVE sent \in Seq(Block) /\ DOMAIN sent = 1 .. Len(sent)
  BY LenProperties DEF IInv, TypeOK, Block

LEMMA HeldSeq == ASSUME IInv PROVE bnch \in Seq(Block) /\ DOMAIN bnch = 1 .. Len(bnch)
  BY LenProperties DEF IInv, TypeOK, Block

(* Only Deliver and Crash touch what was handed over in this life.          *)
LEMMA SentChanges ==
  ASSUME IInv, [Next]_vars, ~ Deliver, ~ Crash
  PROVE  UNCHANGED <<sent, handed>> /\ head' >= head
<1>1. head \in Nat
  BY Heights DEF IInv, TypeOK
<1>2. CASE Loop
  BY <1>1, <1>2 DEF Loop, Start, Begin, HeightTick, HeightPoll, StartBatch,
                    Collect, feed, world
<1>3. CASE StartFails \/ FindMessagesFails \/ Mine \/ Save
  BY <1>1, <1>3 DEF StartFails, FindMessagesFails, Mine, Save, feed, world
<1>4. CASE \E h \in DOMAIN query : Worker(h)
  BY <1>1, <1>4 DEF Worker, Header, SetFrom, SetTo, FilterLogs, Retry, GiveUp,
                    AboveHead, feed, world
<1>5. CASE UNCHANGED vars
  BY <1>1, <1>5 DEF vars, feed, world
<1> QED
  BY <1>2, <1>3, <1>4, <1>5 DEF Next

LEMMA BuriedStep == ASSUME IInv, Buried, [Next]_vars PROVE Buried'
<1>0. sent \in Seq(Block) /\ DOMAIN sent = 1 .. Len(sent) /\ Len(sent) \in Nat
  BY SentSeq, LenProperties
<1>1. DOMAIN sent' = 1 .. Len(sent')
  BY StepInv, SentSeq
<1>2. head \in Nat /\ next \in Nat
  BY Heights DEF IInv, TypeOK
<1>3. \A i \in 1 .. Len(sent) : sent[i].height \in Nat
  <2>1. \A i \in 1 .. Len(sent) : sent[i] \in Block
    BY <1>0, ElementOfSeq
  <2>2. \A b \in Block : b.height \in Nat
    BY Heights DEF Block
  <2> QED
    BY <2>1, <2>2
<1>4. CASE ~ Deliver /\ ~ Crash
  <2>1. sent' = sent /\ head' >= head /\ head' \in Nat
    BY <1>4, StepInv, SentChanges, Heights DEF IInv, TypeOK
  <2>2. ASSUME NEW i \in 1 .. Len(sent) PROVE sent[i].height < head'
    BY <1>0, <1>2, <1>3, <2>1 DEF Buried
  <2> QED
    BY <1>0, <2>1, <2>2 DEF Buried
<1>5. CASE Crash
  BY <1>1, <1>5 DEF Crash, Buried
<1>6. CASE Deliver
  <2>1. next <= head /\ head' = head
    BY <1>6, Delivered DEF IInv, Batch
  <2>2. CASE lbn = None
    BY <1>0, <1>6, <2>1, <2>2, HandedOver, NoneIsNoBlock DEF Buried
  <2>3. CASE lbn # None
    <3>1. /\ lbn \in Block /\ next = lbn.height + 1
          /\ Len(sent') = Len(sent) + 1 /\ sent'[Len(sent) + 1] = lbn
          /\ \A i \in 1 .. Len(sent) : sent'[i] = sent[i]
      BY <1>6, <2>3, HandedOver
    <3>2. \A i \in 1 .. Len(sent') : i \in 1 .. Len(sent) \/ i = Len(sent) + 1
      BY <3>1, <1>0
    <3>3. lbn.height \in Nat
      BY <3>1, Heights DEF Block
    <3>4. lbn.height < head
      BY <3>1, <3>3, <2>1, <1>2
    <3> QED
      BY <1>0, <1>1, <2>1, <3>1, <3>2, <3>4 DEF Buried
  <2> QED
    BY <2>2, <2>3
<1> QED
  BY <1>4, <1>5, <1>6

(* A block is handed over only when the chain has a block on top of it:     *)
(* evm/listener.go:59 "last unverified block notification", however far the *)
(* ticker (evm/listener.go:72) has counted beyond the head.                 *)
THEOREM EvmListenerBuried == Spec => []Buried
<1>1. Init => Buried
  BY DEF Init, Buried
<1>2. IInv /\ Buried /\ [Next]_vars => Buried'
  BY BuriedStep
<1> QED
  BY <1>1, <1>2, ListenerInvariant, PTL DEF Spec

-----------------------------------------------------------------------------
(* A listener with one worker.  blockReq is the worker's own, so that its    *)
(* two writes are still there when FilterLogs reads them, and every block    *)
(* that is answered, held or handed over has its own logs.                   *)

OwnQuery ==
  \A h \in DOMAIN query :
    /\ query[h].st = "header" => query[h].logs = {}
    /\ query[h].st \in {"to", "filter"} => req.from = h
    /\ query[h].st = "filter" => req.to = h
    /\ query[h].st = "ok" => query[h].logs = {h} \cap Active

OwnBlocks ==
  /\ \A i \in 1 .. Len(bnch) : OwnLogs(bnch[i])
  /\ lbn # None => OwnLogs(lbn)
  /\ \A i \in 1 .. Len(sent) : OwnLogs(sent[i])

Alone == capacity = 1 => OwnQuery /\ OwnBlocks

LEMMA OneWorker ==
  ASSUME IInv, capacity = 1, NEW h \in DOMAIN query
  PROVE  h \in Nat /\ \A i \in DOMAIN query : i = h
<1>1. \A i \in DOMAIN query : i \in Nat /\ next <= i /\ i < next + 1
  BY Heights DEF IInv, TypeOK, Batch
<1>2. next \in Nat
  BY Heights DEF IInv, TypeOK
<1> QED
  BY <1>1, <1>2

LEMMA AloneWorker ==
  ASSUME IInv, capacity = 1, OwnQuery, NEW h \in DOMAIN query, Worker(h)
  PROVE  OwnQuery'
<1>1. DOMAIN query = {h} /\ h \in Nat
  BY OneWorker
<1>2. query[h] \in Bnq /\ req \in [from : Height, to : Height]
  BY DEF IInv, TypeOK, Bnq
<1>3. ASSUME NEW st \in {"header", "from", "to", "filter", "ok", "nil"}, Goto(h, st)
      PROVE  /\ DOMAIN query' = {h}
             /\ query'[h].st = st /\ query'[h].logs = query[h].logs
  <2>1. query'[h] = [query[h] EXCEPT !.st = st] /\ DOMAIN query' = DOMAIN query
    BY <1>3 DEF Goto
  <2> QED
    BY <1>1, <1>2, <2>1 DEF Bnq
<1>4. CASE Header(h)
  <2>1. query[h].logs = {}
    BY <1>4 DEF Header, At, OwnQuery
  <2>2. CASE h \in Active
    <3>1. Goto(h, "from")
      BY <1>4, <2>2 DEF Header
    <3> QED
      BY <1>3, <3>1 DEF OwnQuery
  <2>3. CASE h \notin Active
    <3>1. Goto(h, "ok")
      BY <1>4, <2>3 DEF Header
    <3> QED
      BY <1>3, <2>1, <2>3, <3>1 DEF OwnQuery
  <2> QED
    BY <2>2, <2>3
<1>5. CASE SetFrom(h)
  <2>1. Goto(h, "to") /\ req'.from = h
    BY <1>5, <1>2 DEF SetFrom
  <2> QED
    BY <1>3, <2>1 DEF OwnQuery
<1>6. CASE SetTo(h)
  <2>1. Goto(h, "filter") /\ req'.from = req.from /\ req'.to = h
    BY <1>6, <1>2 DEF SetTo
  <2>2. req.from = h
    BY <1>6 DEF SetTo, At, OwnQuery
  <2> QED
    BY <1>3, <2>1, <2>2 DEF OwnQuery
<1>7. CASE FilterLogs(h)
  <2>1. req.from = h /\ req.to = h
    BY <1>7 DEF FilterLogs, At, OwnQuery
  <2>2. (req.from .. req.to) \cap Active = {h} \cap Active
    BY <1>1, <2>1
  <2> DEFINE logs == (req.from .. req.to) \cap Active
  <2>3. /\ query'[h] = [query[h] EXCEPT !.st = "ok", !.logs = logs]
        /\ DOMAIN query' = DOMAIN query
    BY <1>7 DEF FilterLogs
  <2> HIDE DEF logs
  <2>4. query'[h].st = "ok" /\ query'[h].logs = logs
    BY <1>2, <2>3 DEF Bnq
  <2> QED
    BY <1>1, <2>2, <2>3, <2>4 DEF OwnQuery, logs
<1>8. CASE Retry(h)
  <2>1. /\ query'[h] = Asking(query[h].retry - 1) /\ DOMAIN query' = DOMAIN query
    BY <1>8 DEF Retry
  <2>2. query'[h].st = "header" /\ query'[h].logs = {}
    BY <2>1 DEF Asking
  <2> QED
    BY <1>1, <2>1, <2>2 DEF OwnQuery
<1>9. CASE GiveUp(h) \/ AboveHead(h)
  <2>1. Goto(h, "nil")
    BY <1>9 DEF GiveUp, AboveHead
  <2> QED
    BY <1>3, <2>1 DEF OwnQuery
<1> QED
  BY <1>4, <1>5, <1>6, <1>7, <1>8, <1>9 DEF Worker

LEMMA AloneCollect == ASSUME IInv, OwnQuery, OwnBlocks, Collect PROVE OwnBlocks'
<1>1. UNCHANGED <<lbn, sent>>
  BY DEF Collect, feed
<1>2. ASSUME NEW i \in 1 .. Len(bnch') PROVE OwnLogs(bnch'[i])
  <2> DEFINE h == next + i - 1
  <2>1. h \in Run /\ bnch'[i] = Notification(h, query[h].logs)
    BY <1>2, CollectedBlocks
  <2> HIDE DEF h
  <2>2. h \in DOMAIN query /\ h \in next .. h
    <3>1. h \in DOMAIN query
      BY <2>1 DEF Run
    <3>2. h \in Nat /\ next \in Nat /\ next <= h
      BY <3>1, Heights DEF IInv, TypeOK, Batch
    <3> QED
      BY <3>1, <3>2
  <2>3. query[h].st = "ok"
    BY <2>1, <2>2 DEF Run, Answered
  <2>4. query[h].logs = {h} \cap Active
    BY <2>2, <2>3 DEF OwnQuery
  <2> QED
    BY <2>1, <2>4 DEF OwnLogs, Notification
<1> QED
  BY <1>1, <1>2 DEF OwnBlocks

LEMMA AloneDeliver == ASSUME IInv, OwnBlocks, Deliver PROVE OwnBlocks'
<1>1. OwnLogs(bnch[1])
  BY Delivered DEF OwnBlocks
<1>2. ASSUME NEW i \in 1 .. Len(bnch') PROVE OwnLogs(bnch'[i])
  <2>1. i + 1 \in 1 .. Len(bnch) /\ bnch'[i] = bnch[i + 1]
    BY Delivered
  <2> QED
    BY <2>1 DEF OwnBlocks
<1>3. ASSUME NEW i \in 1 .. Len(sent') PROVE OwnLogs(sent'[i])
  <2>1. CASE lbn = None
    BY <2>1, HandedOver, NoneIsNoBlock DEF OwnBlocks
  <2>2. CASE lbn # None
    <3>1. /\ Len(sent') = Len(sent) + 1 /\ sent'[Len(sent) + 1] = lbn
          /\ \A j \in 1 .. Len(sent) : sent'[j] = sent[j]
      BY <2>2, HandedOver
    <3>2. Len(sent) \in Nat
      BY SentSeq, LenProperties
    <3>3. i \in 1 .. Len(sent) \/ i = Len(sent) + 1
      BY <3>1, <3>2
    <3> QED
      BY <2>2, <3>1, <3>3 DEF OwnBlocks
  <2> QED
    BY <2>1, <2>2
<1> QED
  BY <1>1, <1>2, <1>3, Delivered DEF OwnBlocks

LEMMA AloneStep == ASSUME IInv, Alone, [Next]_vars PROVE Alone'
<1>1. CASE Start
  <2>1. UNCHANGED <<capacity, query, req, bnch, lbn, sent>>
    BY <1>1 DEF Start, shared, buffer
  <2> QED
    BY <2>1 DEF Alone, OwnQuery, OwnBlocks
<1>2. CASE \E answered \in BOOLEAN : Begin(answered)
  <2>1. UNCHANGED <<query, bnch, lbn, sent>> /\ pc = "begin"
    BY <1>2 DEF Begin, shared, buffer, feed
  <2>2. DOMAIN query = {} /\ Len(bnch) = 0 /\ lbn = None /\ Len(sent) = 0
    BY <2>1 DEF IInv, Held
  <2> QED
    BY <2>1, <2>2 DEF Alone, OwnQuery, OwnBlocks
<1>3. CASE HeightTick \/ HeightPoll
  BY <1>3 DEF HeightTick, HeightPoll, shared, buffer, feed, Alone, OwnQuery, OwnBlocks
<1>4. CASE StartBatch
  <2> DEFINE D == {i \in next .. latest - 1 : i < next + capacity}
  <2>1. query' = [h \in D |-> Asking(Retries)]
    BY <1>4 DEF StartBatch
  <2> HIDE DEF D
  <2>2. \A h \in DOMAIN query' : query'[h].st = "header" /\ query'[h].logs = {}
    BY <2>1 DEF Asking
  <2>3. UNCHANGED <<capacity, bnch, lbn, sent>>
    BY <1>4 DEF StartBatch, buffer, feed
  <2> QED
    BY <2>2, <2>3 DEF Alone, OwnQuery, OwnBlocks
<1>5. CASE Collect
  <2>1. DOMAIN query' = {} /\ UNCHANGED capacity
    BY <1>5, NoWorkers DEF Collect
  <2> QED
    BY <1>5, <2>1, AloneCollect DEF Alone, OwnQuery
<1>6. CASE Deliver
  <2>1. UNCHANGED <<capacity, query, req>>
    BY <1>6, Delivered
  <2> QED
    BY <1>6, <2>1, AloneDeliver DEF Alone, OwnQuery
<1>7. CASE StartFails \/ FindMessagesFails \/ Mine \/ Save
  BY <1>7 DEF StartFails, FindMessagesFails, Mine, Save, shared, buffer, feed,
              Alone, OwnQuery, OwnBlocks
<1>8. CASE \E h \in DOMAIN query : Worker(h)
  <2>1. UNCHANGED <<capacity, bnch, lbn, sent>>
    BY <1>8 DEF Worker, Header, SetFrom, SetTo, FilterLogs, Retry, GiveUp,
                AboveHead, buffer, feed
  <2> QED
    BY <1>8, <2>1, AloneWorker DEF Alone, OwnBlocks
<1>9. CASE Crash
  <2>1. capacity' # 1
    BY <1>9 DEF Crash
  <2> QED
    BY <2>1 DEF Alone
<1>10. CASE UNCHANGED vars
  BY <1>10 DEF vars, shared, buffer, feed, Alone, OwnQuery, OwnBlocks
<1> QED
  BY <1>1, <1>2, <1>3, <1>4, <1>5, <1>6, <1>7, <1>8, <1>9, <1>10 DEF Next, Loop

(* A listener whose channel has one place has one worker at a time, so that  *)
(* the unlocked writes to blockReq (evm/listener.go:171, the workers share   *)
(* one filter query) cannot mix the logs of two blocks.                      *)
THEOREM EvmListenerAloneOwnLogs == Spec => []AloneOwnLogs
<1>1. Init => Alone
  BY DEF Init, Alone
<1>2. IInv /\ Alone /\ [Next]_vars => Alone'
  BY AloneStep
<1>3. IInv /\ Alone => AloneOwnLogs
  BY SentSeq DEF Alone, OwnBlocks, AloneOwnLogs
<1> QED
  BY <1>1, <1>2, <1>3, ListenerInvariant, PTL DEF Spec

-----------------------------------------------------------------------------
(* The listener implements BlockFeed.                                       *)

(* The block handed over next, while a listener runs.                       *)
Upcoming == first + Len(sent)

(* No block from StartAt on is missing below the one handed over next, nor  *)
(* below the saved one, from which a restarted listener goes on.            *)
NothingMissed ==
  /\ pc # "down" => StartAt .. Upcoming - 1 \subseteq handed
  /\ StartAt .. saved \subseteq handed

LEMMA UpcomingIsNat ==
  ASSUME IInv
  PROVE  first \in Nat /\ Len(sent) \in Nat /\ Upcoming \in Nat
<1>1. first \in Nat
  BY Heights DEF IInv, TypeOK
<1>2. Len(sent) \in Nat
  BY SentSeq, LenProperties
<1> QED
  BY <1>1, <1>2 DEF Upcoming

(* Wherever a listener starts, the blocks between StartAt and there have    *)
(* been handed over: it starts at the saved block, at StartAt or below it.   *)
LEMMA StartPassesNothing ==
  ASSUME IInv, NothingMissed, StartAt # 0
  PROVE  StartAt .. EvmStart(saved, StartAt, head, FinalityBlock) - 1 \subseteq handed
<1> DEFINE start == EvmStart(saved, StartAt, head, FinalityBlock)
           q == Sub(head, FinalityBlock)
<1>1. saved \in Nat /\ StartAt \in Nat /\ q \in Nat
  BY StartIsHeight, Heights DEF IInv, TypeOK
<1>2. start = Prefer(saved, StartAt, q)
  BY DEF EvmStart
<1> HIDE DEF start, q
<1>3. start = saved \/ start \in 0 .. StartAt
  BY <1>1, <1>2 DEF Prefer
<1>4. start = saved => StartAt .. start - 1 \subseteq StartAt .. saved
  BY <1>1
<1>5. start \in 0 .. StartAt => StartAt .. start - 1 = {}
  BY <1>1
<1>6. StartAt .. start - 1 \subseteq handed
  BY <1>3, <1>4, <1>5 DEF NothingMissed
<1> QED
  BY <1>6 DEF start

(* Every step of the listener is one of the feed, or changes nothing of it. *)
LEMMA StartIsFeedStart ==
  ASSUME IInv, NothingMissed, StartAt # 0, Start \/ StartFails
  PROVE  Feed!Start /\ NothingMissed'
<1>1. pc = "down" /\ sent = <<>> /\ first = 0
  BY DEF Start, StartFails, IInv, Held
<1>2. UNCHANGED <<sent, handed, saved>> /\ pc' # "down"
  BY DEF Start, StartFails, feed, world
<1>3. Len(sent') = 0
  BY <1>1, <1>2
<1>4. /\ first' \in Nat
      /\ StartAt .. first' - 1 \subseteq handed
  <2>1. CASE Start
    <3>1. first' = EvmStart(saved, StartAt, head, FinalityBlock)
      BY <2>1 DEF Start
    <3>2. first' \in Nat
      BY <3>1, StartIsHeight, Heights DEF IInv, TypeOK
    <3> QED
      BY <3>1, <3>2, StartPassesNothing
  <2>2. CASE StartFails
    <3>1. first' = 0
      BY <1>1, <2>2 DEF StartFails, feed
    <3>2. StartAt \in Nat
      BY Heights
    <3>3. StartAt .. 0 - 1 = {}
      BY <3>2
    <3> QED
      BY <3>1, <3>3
  <2> QED
    BY <2>1, <2>2
<1>5. Upcoming' = first' /\ first' + Len(sent') = first'
  <2>1. \A n \in Nat : n + 0 = n
    OBVIOUS
  <2>2. first' + Len(sent') = first' + 0
    BY <1>3
  <2> QED
    BY <1>4, <2>1, <2>2 DEF Upcoming
<1>6. NothingMissed'
  BY <1>2, <1>4, <1>5 DEF NothingMissed
<1>7. Feed!Start
  BY <1>1, <1>2, <1>4, <1>5 DEF Feed!Start
<1> QED
  BY <1>6, <1>7

LEMMA DeliverIsHandOver ==
  ASSUME IInv, NothingMissed, Deliver
  PROVE  NothingMissed' /\ (Feed!HandOver \/ UNCHANGED <<pc = "down", Upcoming, handed>>)
<1>1. pc # "down" /\ pc' # "down" /\ UNCHANGED <<first, saved>>
  BY Delivered
<1>2. CASE lbn = None
  <2>1. UNCHANGED <<sent, handed>>
    BY <1>2, HandedOver, NoneIsNoBlock
  <2>2. Upcoming' = Upcoming
    BY <1>1, <2>1 DEF Upcoming
  <2> QED
    BY <1>1, <2>1, <2>2 DEF NothingMissed
<1>3. CASE lbn # None
  <2>1. handed' = handed \cup {Upcoming} /\ Len(sent') = Len(sent) + 1
    BY <1>3, HandedOver DEF Upcoming
  <2>2. Upcoming' = Upcoming + 1
    BY <1>1, <2>1, UpcomingIsNat DEF Upcoming
  <2>3. first' + Len(sent') = first + Len(sent) + 1
    BY <2>2 DEF Upcoming
  <2>4. Feed!HandOver
    BY <1>1, <2>1, <2>3, UpcomingIsNat, NoneIsNoBlock DEF Feed!HandOver, Upcoming
  <2>5. \A h \in StartAt .. Upcoming' - 1 : h \in StartAt .. Upcoming - 1 \/ h = Upcoming
    BY <2>2, UpcomingIsNat, Heights
  <2>6. NothingMissed'
    BY <1>1, <2>1, <2>5 DEF NothingMissed
  <2> QED
    BY <2>4, <2>6
<1> QED
  BY <1>2, <1>3

LEMMA CrashIsStop == ASSUME NothingMissed, Crash PROVE Feed!Stop /\ NothingMissed'
  BY DEF Crash, Feed!Stop, NothingMissed

(* Only a height that was handed over in this life is saved.                *)
LEMMA SavePassesNothing ==
  ASSUME IInv, NothingMissed, Save
  PROVE  NothingMissed' /\ UNCHANGED <<pc, first, sent, handed>>
<1>1. UNCHANGED <<pc, first, sent, handed>>
  BY DEF Save, feed
<1>2. PICK i \in 1 .. Len(sent) : saved' = sent[i].height
  BY SentSeq DEF Save
<1>3. saved' = first + i - 1
  BY <1>2 DEF IInv, Consecutive
<1>4. pc # "down"
  BY <1>2 DEF IInv, Held
<1>5. StartAt .. saved' \subseteq StartAt .. Upcoming - 1
  BY <1>2, <1>3, UpcomingIsNat, Heights DEF Upcoming
<1> QED
  BY <1>1, <1>4, <1>5 DEF NothingMissed, Upcoming

LEMMA OthersPassNothing ==
  ASSUME [Next]_vars, ~ Start, ~ StartFails, ~ Deliver, ~ Crash, ~ Save
  PROVE  UNCHANGED <<first, sent, handed, saved, pc = "down">>
<1>1. CASE Loop
  BY <1>1 DEF Loop, Begin, HeightTick, HeightPoll, StartBatch, Collect, feed, world
<1>2. CASE FindMessagesFails \/ Mine
  BY <1>2 DEF FindMessagesFails, Mine, feed, world
<1>3. CASE \E h \in DOMAIN query : Worker(h)
  BY <1>3 DEF Worker, Header, SetFrom, SetTo, FilterLogs, Retry, GiveUp,
              AboveHead, feed, world
<1>4. CASE UNCHANGED vars
  BY <1>4 DEF vars, feed, world
<1> QED
  BY <1>1, <1>2, <1>3, <1>4 DEF Next

LEMMA FeedStep ==
  ASSUME IInv, NothingMissed, StartAt # 0, [Next]_vars
  PROVE  /\ NothingMissed'
         /\ [Feed!Next]_<<IF pc = "down" THEN None ELSE first + Len(sent), handed>>
<1>1. CASE Start \/ StartFails
  BY <1>1, StartIsFeedStart DEF Feed!Next
<1>2. CASE Deliver
  BY <1>2, DeliverIsHandOver DEF Feed!Next, Upcoming
<1>3. CASE Crash
  BY <1>3, CrashIsStop DEF Feed!Next
<1>4. CASE Save
  BY <1>4, SavePassesNothing
<1>5. CASE ~ (Start \/ StartFails \/ Deliver \/ Crash \/ Save)
  BY <1>5, OthersPassNothing DEF NothingMissed, Upcoming
<1> QED
  BY <1>1, <1>2, <1>3, <1>4, <1>5

(* The engine is handed consecutive blocks, and after any failure, retry or *)
(* restart none from the configured start on is passed by                   *)
(* (evm/listener.go:83-101, 180-196): the listener implements BlockFeed.    *)
(* StartHeight has to be set: without it nothing says from which block on   *)
(* the engine wants to know (evm/listener.go:264 starts at the head).       *)
THEOREM EvmListenerHandsOverInOrder ==
  ASSUME StartAt # 0
  PROVE  Spec => HandsOverInOrder
<1>1. Init => Feed!Init /\ NothingMissed
  <2> SUFFICES ASSUME Init PROVE Feed!Init /\ NothingMissed
    OBVIOUS
  <2>1. StartAt \in Nat
    BY Heights
  <2>2. StartAt .. 0 = {}
    BY <2>1
  <2> QED
    BY <2>2 DEF Init, Feed!Init, NothingMissed
<1>2. IInv /\ NothingMissed /\ [Next]_vars
        => /\ NothingMissed'
           /\ [Feed!Next]_<<IF pc = "down" THEN None ELSE first + Len(sent), handed>>
  BY FeedStep
<1> QED
  BY <1>1, <1>2, ListenerInvariant, PTL DEF Spec, HandsOverInOrder, Feed!Spec
=============================================================================
