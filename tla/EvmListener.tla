---------------------------- MODULE EvmListener ----------------------------
(***************************************************************************)
(* The block listener of an EVM chain: EVMProvider.Listener                *)
(* (chains/evm/listener.go) with its batch of concurrent workers, the      *)
(* buffered channel of block notifications, and the one filter query that  *)
(* all workers share (EVMProvider.blockReq).                               *)
(*                                                                         *)
(* A notification carries the logs of the blocks in "logs": the ones its    *)
(* filter query named.  Whoever reads blockInfoChan is the engine, which    *)
(* saves some of the heights it is handed.  The order in which answers      *)
(* reach the batch is left out: the code sorts them.                        *)
(***************************************************************************)
EXTENDS StartHeight, Sequences, FiniteSets

CONSTANTS
  StartAt,          \* StartHeight of the configuration
  Workers,          \* Concurrency of the configuration
  FinalityBlock,
  Retries,          \* bnq.retry: 3
  Active,           \* the blocks with GasUsed > 0
  FirstHead,        \* the chain's height when the relayer is first started
  LastHead,         \* bound: the chain's height
  MaxRestarts,      \* bound
  None              \* the nil notification

ASSUME ListenerAssumption ==
  /\ {StartAt, Workers, FinalityBlock, FirstHead, LastHead} \subseteq Height
  /\ FirstHead <= LastHead /\ LastHead + 2 < Modulus
  /\ Retries \in Nat /\ MaxRestarts \in Nat
  /\ Active \subseteq Height
  /\ None \notin [height : Height, logs : SUBSET Height] \cup Nat

VARIABLES
  head,       \* the chain's height
  saved,      \* the height in the relayer's database
  pc,         \* down, begin, select, fetch, deliver or returned
  next, latest,
  capacity,   \* cap(bnch)
  bnch,       \* notifications in the channel
  lbn,        \* last unverified block notification
  query,      \* the batch: per height a bnq
  req,        \* FromBlock and ToBlock of blockReq
  first,      \* history: where this life started
  sent,       \* history: what this life put into blockInfoChan
  handed,     \* history: the heights of every life
  restarts

shared == <<query, req>>
buffer == <<bnch, lbn>>
feed   == <<first, sent, handed>>
world  == <<head, saved, restarts>>
vars == <<pc, next, latest, capacity, shared, buffer, feed, world>>

Notification(h, logs) == [height |-> h, logs |-> logs]

(* A bnq whose worker has just been started. *)
Asking(retry) == [st |-> "header", retry |-> retry, logs |-> {}]
NoBatch == [h \in {} |-> Asking(0)]

Init ==
  /\ head = FirstHead /\ saved = 0 /\ restarts = 0
  /\ pc = "down" /\ next = 0 /\ latest = 0 /\ capacity = 0
  /\ bnch = <<>> /\ lbn = None
  /\ query = NoBatch /\ req = [from |-> 0, to |-> 0]
  /\ first = 0 /\ sent = <<>> /\ handed = {}

-----------------------------------------------------------------------------
(* The loop of Listener. *)

Start ==
  /\ pc = "down"
  /\ LET start == EvmStart(saved, StartAt, head, FinalityBlock)
     IN  next' = start /\ first' = start
  /\ pc' = "begin"
  /\ UNCHANGED <<latest, capacity, shared, buffer, sent, handed, world>>

(* The chain may have grown since startFromHeight asked; latestHeight is 0  *)
(* when the node does not answer.                                           *)
Begin(answered) ==
  /\ pc = "begin"
  /\ latest' = IF answered THEN head ELSE 0
  /\ capacity' = Concurrency(Workers, next, latest')
  /\ pc' = "select"
  /\ UNCHANGED <<next, shared, buffer, feed, world>>

(* startFromHeight fails: Listener returns.                                 *)
StartFails ==
  /\ pc = "down"
  /\ pc' = "returned"
  /\ UNCHANGED <<next, latest, capacity, shared, buffer, feed, world>>

(* The ticker counts on whether or not the chain has grown.                 *)
HeightTick ==
  /\ pc = "select" /\ latest < LastHead + 1
  /\ latest' = latest + 1
  /\ UNCHANGED <<pc, next, capacity, shared, buffer, feed, world>>

HeightPoll ==
  /\ pc = "select" /\ head > latest
  /\ latest' = head
  /\ UNCHANGED <<pc, next, capacity, shared, buffer, feed, world>>

(* A mutant: one request more than bnch holds.                             *)
StartBatchOneMore ==
  /\ pc = "select" /\ bnch = <<>> /\ next < latest
  /\ query' = [h \in {i \in next .. latest - 1 : i <= next + capacity} |->
                 Asking(Retries)]
  /\ pc' = "fetch"
  /\ UNCHANGED <<next, latest, capacity, req, buffer, feed, world>>

(* The default case: a batch of blocks below latest, as many as bnch holds. *)
StartBatch ==
  /\ pc = "select" /\ bnch = <<>> /\ next < latest
  /\ query' = [h \in {i \in next .. latest - 1 : i < next + capacity} |->
                 Asking(Retries)]
  /\ pc' = "fetch"
  /\ UNCHANGED <<next, latest, capacity, req, buffer, feed, world>>

(* A mutant: whatever was answered goes into the channel.                  *)
CollectWithGaps ==
  LET run == {h \in DOMAIN query : query[h].st = "ok"}
      Nth(i) == CHOOSE h \in run : Cardinality({k \in run : k <= h}) = i
  IN
  /\ pc = "fetch" /\ \A h \in DOMAIN query : query[h].st \in {"ok", "nil"}
  /\ Len(bnch) + Cardinality(run) <= capacity
  /\ bnch' = bnch \o [i \in 1 .. Cardinality(run) |->
                        Notification(Nth(i), query[Nth(i)].logs)]
  /\ query' = NoBatch
  /\ pc' = "select"
  /\ UNCHANGED <<next, latest, capacity, req, lbn, feed, world>>

(* All workers have answered: the run of blocks that starts at next goes    *)
(* into the channel.                                                        *)
Collect ==
  LET Answered(h) == h \in DOMAIN query /\ query[h].st = "ok"
      run == {h \in DOMAIN query : \A i \in next .. h : Answered(i)}
  IN
  /\ pc = "fetch" /\ \A h \in DOMAIN query : query[h].st \in {"ok", "nil"}
  /\ Len(bnch) + Cardinality(run) <= capacity
  /\ bnch' = bnch \o [i \in 1 .. Cardinality(run) |->
                        Notification(next + i - 1, query[next + i - 1].logs)]
  /\ query' = NoBatch
  /\ pc' = "select"
  /\ UNCHANGED <<next, latest, capacity, req, lbn, feed, world>>

(* A mutant: a block is handed over as soon as it is fetched.              *)
DeliverAtOnce ==
  /\ pc \in {"select", "deliver"} /\ bnch # <<>>
  /\ sent' = Append(sent, Head(bnch))
  /\ handed' = handed \cup {Head(bnch).height}
  /\ lbn' = Head(bnch) /\ bnch' = Tail(bnch)
  /\ next' = next + 1
  /\ pc' = IF Len(bnch) = 1 THEN "select" ELSE "deliver"
  /\ UNCHANGED <<latest, capacity, shared, first, world>>

(* The notification case takes all of bnch; a block goes to blockInfoChan   *)
(* when the notification of its successor is here.                          *)
Deliver ==
  /\ pc \in {"select", "deliver"} /\ bnch # <<>>
  /\ IF lbn = None THEN UNCHANGED <<sent, handed>>
     ELSE /\ sent' = Append(sent, lbn)
          /\ handed' = handed \cup {lbn.height}
  /\ lbn' = Head(bnch) /\ bnch' = Tail(bnch)
  /\ next' = next + 1
  /\ pc' = IF Len(bnch) = 1 THEN "select" ELSE "deliver"
  /\ UNCHANGED <<latest, capacity, shared, first, world>>

(* FindMessages cannot parse a log: Listener returns for good.              *)
FindMessagesFails ==
  /\ pc \in {"select", "deliver"} /\ bnch # <<>>
  /\ lbn # None /\ lbn.logs # {}
  /\ pc' = "returned"
  /\ UNCHANGED <<next, latest, capacity, shared, buffer, feed, world>>

-----------------------------------------------------------------------------
(* The worker of block h. *)

At(h, st) == pc = "fetch" /\ h \in DOMAIN query /\ query[h].st = st
Goto(h, st) == query' = [query EXCEPT ![h].st = st]

(* GetHeaderByHeight; the header says whether the block has used gas.       *)
Header(h) ==
  /\ At(h, "header") /\ h <= head
  /\ Goto(h, IF h \in Active THEN "from" ELSE "ok")
  /\ UNCHANGED <<pc, next, latest, capacity, req, buffer, feed, world>>

(* blockReq is a field of the provider: the workers write it unlocked ...   *)
SetFrom(h) ==
  /\ At(h, "from")
  /\ Goto(h, "to") /\ req' = [req EXCEPT !.from = h]
  /\ UNCHANGED <<pc, next, latest, capacity, buffer, feed, world>>

SetTo(h) ==
  /\ At(h, "to")
  /\ Goto(h, "filter") /\ req' = [req EXCEPT !.to = h]
  /\ UNCHANGED <<pc, next, latest, capacity, buffer, feed, world>>

(* ... and FilterLogs gets a copy of whatever it holds then.                *)
FilterLogs(h) ==
  /\ At(h, "filter")
  /\ query' = [query EXCEPT ![h].st = "ok",
                            ![h].logs = (req.from .. req.to) \cap Active]
  /\ UNCHANGED <<pc, next, latest, capacity, req, buffer, feed, world>>

(* A call fails: asked again while there are retries left.                  *)
Failing(h) == At(h, "header") \/ At(h, "filter")

(* A mutant: retries are not counted.                                      *)
RetryForEver(h) ==
  /\ Failing(h) /\ query[h].retry > 0
  /\ query' = [query EXCEPT ![h] = Asking(query[h].retry)]
  /\ UNCHANGED <<pc, next, latest, capacity, req, buffer, feed, world>>

(* A mutant: a call is repeated with no retries left.                      *)
RetryAlways(h) ==
  /\ Failing(h)
  /\ query' = [query EXCEPT ![h] = Asking(query[h].retry - 1)]
  /\ UNCHANGED <<pc, next, latest, capacity, req, buffer, feed, world>>

Retry(h) ==
  /\ Failing(h) /\ query[h].retry > 0
  /\ query' = [query EXCEPT ![h] = Asking(query[h].retry - 1)]
  /\ UNCHANGED <<pc, next, latest, capacity, req, buffer, feed, world>>

GiveUp(h) ==
  /\ Failing(h) /\ query[h].retry = 0
  /\ Goto(h, "nil")
  /\ UNCHANGED <<pc, next, latest, capacity, req, buffer, feed, world>>

(* "requested block number greater than current block number"               *)
AboveHead(h) ==
  /\ At(h, "header") /\ h > head /\ query[h].retry > 0
  /\ Goto(h, "nil")
  /\ latest' = IF latest >= h THEN h - 1 ELSE latest
  /\ UNCHANGED <<pc, next, capacity, req, buffer, feed, world>>

-----------------------------------------------------------------------------
(* The environment. *)

Mine ==
  /\ head < LastHead
  /\ head' = head + 1
  /\ UNCHANGED <<pc, next, latest, capacity, shared, buffer, feed, saved, restarts>>

(* The engine saves a height it was handed: SaveBlockHeight.                *)
Save ==
  /\ \E i \in DOMAIN sent : saved' = sent[i].height
  /\ UNCHANGED <<pc, next, latest, capacity, shared, buffer, feed, head, restarts>>

Crash ==
  /\ pc # "down" /\ restarts < MaxRestarts
  /\ restarts' = restarts + 1
  /\ pc' = "down" /\ next' = 0 /\ latest' = 0 /\ capacity' = 0
  /\ bnch' = <<>> /\ lbn' = None
  /\ query' = NoBatch /\ req' = [from |-> 0, to |-> 0]
  /\ first' = 0 /\ sent' = <<>>
  /\ UNCHANGED <<handed, head, saved>>

-----------------------------------------------------------------------------

Worker(h) ==
  \/ Header(h) \/ SetFrom(h) \/ SetTo(h) \/ FilterLogs(h)
  \/ Retry(h) \/ GiveUp(h) \/ AboveHead(h)

Loop ==
  \/ Start \/ \E answered \in BOOLEAN : Begin(answered)
  \/ HeightTick \/ HeightPoll \/ StartBatch \/ Collect \/ Deliver

Next ==
  \/ Loop \/ StartFails \/ FindMessagesFails
  \/ \E h \in DOMAIN query : Worker(h)
  \/ Mine \/ Save \/ Crash

(* The program is scheduled; select picks at random among what is ready, so *)
(* the ticker has its turn.  The node is not down for ever: a call for the   *)
(* next block that is made again and again is answered in the end.          *)
Fairness ==
  /\ WF_vars(Loop \/ \E h \in DOMAIN query : Worker(h))
  /\ SF_vars(HeightTick)
  /\ SF_vars(Header(next)) /\ SF_vars(FilterLogs(next))

Spec == Init /\ [][Next]_vars
FairSpec == Spec /\ Fairness

-----------------------------------------------------------------------------

(* Types.                                                                   *)
TypeOK ==
  /\ head \in Height /\ saved \in Height /\ restarts \in Nat
  /\ pc \in {"down", "begin", "select", "fetch", "deliver", "returned"}
  /\ {next, latest, first} \subseteq Height /\ capacity \in Nat
  /\ bnch \in Seq([height : Height, logs : SUBSET Height])
  /\ lbn = None \/ lbn \in [height : Height, logs : SUBSET Height]
  /\ DOMAIN query \subseteq Height
  /\ \A h \in DOMAIN query :
       query[h] \in [st : {"header", "from", "to", "filter", "ok", "nil"},
                     retry : 0 .. Retries, logs : SUBSET Height]
  /\ req \in [from : Height, to : Height]
  /\ sent \in Seq([height : Height, logs : SUBSET Height])
  /\ handed \subseteq Height

(* Properties. *)

(* evm/listener.go:180-196 drops failed answers, sorts the rest and forwards *)
(* the run that starts at next; evm/listener.go:83-101 hands over all but    *)
(* the last: whatever fails, is retried or is lost in a restart, the engine  *)
(* is handed consecutive blocks, and none from the configured start on is    *)
(* passed by.                                                                *)
Feed == INSTANCE BlockFeed WITH
  First <- StartAt, Down <- None,
  upcoming <- IF pc = "down" THEN None ELSE first + Len(sent)
HandsOverInOrder == Feed!Spec

(* evm/listener.go:59 "last unverified block notification": a block is       *)
(* handed over only when the chain has a block on top of it, however far the *)
(* ticker has counted beyond the head.                                       *)
Buried == \A i \in DOMAIN sent : sent[i].height < head

(* evm/listener.go:53-58, 171: a listener that started with a capacity of    *)
(* one has one worker at a time, so that blockReq is its own and each block  *)
(* comes with its own logs.                                                  *)
OwnLogs(bn) == bn.logs = {bn.height} \cap Active
AloneOwnLogs == capacity = 1 => \A i \in DOMAIN sent : OwnLogs(sent[i])

(* evm/listener.go:228 "so that we avoid duplicate block number is picked up *)
(* by multiple workers": no two workers of a batch bring the logs of the     *)
(* same block.                                                               *)
NoDuplicates ==
  \A h, i \in DOMAIN query : h # i => query[h].logs \cap query[i].logs = {}

(* Every block that has a successor is handed over in the end, or the        *)
(* listener has returned: the ticker that runs ahead of the chain, answers   *)
(* for blocks that do not exist yet (evm/listener.go:136) and batches with   *)
(* holes only delay it.                                                      *)
EventuallyHanded ==
  \A h \in StartAt .. LastHead - 1 :
    (h < head) ~> (h \in handed \/ pc = "returned")
=============================================================================
