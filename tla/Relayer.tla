------------------------------ MODULE Relayer ------------------------------
(***************************************************************************)
(* The relay engine: package relayer (relay.go, chain_runtime.go), with    *)
(* the message cache and the route message of types/types.go and the       *)
(* message and block stores as far as the engine uses them.                *)
(*                                                                         *)
(* Goroutines of the program and where they are here:                      *)
(*   a chain's listener and its channel            next                    *)
(*   a chain's block processor                     recv, ProcessBlock      *)
(*   one mergeMessages goroutine per block         merging, Merge          *)
(*   the router (route tick, flush tick)           router                  *)
(*   one RouteMessage goroutine per attempt        routes                  *)
(* The destination contract and the mempools are the environment.          *)
(*                                                                         *)
(* A *RouteMessage is shared by pointer between the cache, the router and  *)
(* the goroutines, and another copy of the same message may replace it in  *)
(* the cache: pointers are the members of Objs, what they point to is      *)
(* heap[m][o].                                                             *)
(***************************************************************************)
EXTENDS Naturals, FiniteSets

CONSTANTS
  Chains,            \* NIDs of the configured chains
  Msgs,              \* messages, numbered in the order of their store keys
  SrcOf, DstOf,      \* a message's source and destination NID
  HeightOf,          \* the block of its event (MessageHeight)
  Final,             \* the chains whose FinalityBlock is > 0
  Routes,            \* bound: RouteMessage goroutines alive at once
  Objs,              \* bound: RouteMessage copies of one message alive at once
  Nil,               \* the nil pointer
  NoRec,             \* no record under a key
  DefaultTxRetry,    \* types.go: 3
  FlushRounds,       \* types.go: TotalMaxRetryTx = DefaultTxRetry * 5
  SaveHeightMaxAfter,
  MaxFlush,          \* maxFlushMessage
  ChanCap,           \* listenerChannelBufferSize
  MaxHeight,         \* bound: the last block of each chain
  MaxRetry,          \* bound: Retry of a RouteMessage
  MaxCrashes,        \* bound: restarts of the relayer
  MaxDbErrors        \* bound: failing writes to the database

ASSUME ConstantsAssumption ==
  /\ Msgs \subseteq Nat
  /\ SrcOf \in [Msgs -> Chains]
  /\ HeightOf \in [Msgs -> Nat \ {0}]
  /\ MaxHeight \in [Chains -> Nat]
  /\ Nil \notin Objs
  /\ DefaultTxRetry \in Nat \ {0} /\ FlushRounds \in Nat \ {0}
  /\ {SaveHeightMaxAfter, ChanCap, MaxFlush} \subseteq Nat
  /\ {MaxRetry, MaxCrashes, MaxDbErrors} \subseteq Nat
  /\ NoRec \notin [retry : Nat, processing : BOOLEAN]

VARIABLES
  next,        \* per chain, the block its listener emits next
  recv,        \* per chain, the block its processor takes next:
               \* listenerChan holds the blocks recv .. next - 1
  lastSaved,   \* ChainRuntime.LastSavedHeight
  blockStore,  \* the height in the database, 0 when there is none
  merging,     \* messages a mergeMessages goroutine has yet to add
  cache,       \* the chains' MessageCaches: a key holds its Src
  heap,        \* what the *RouteMessage pointers point to
  msgStore,    \* the message store
  txStore,     \* messages with a transaction object in the finality store
  router,      \* the router goroutine
  routes,      \* the RouteMessage goroutines
  delivered,   \* messages the destination contract has received
  mempool,     \* messages with a transaction nobody waits for any more
  crashes, dbErrors,
  seen,        \* history: per chain, one more than the last block processed
  lost         \* history: messages a restart forgot

stores  == <<blockStore, msgStore, txStore>>
world   == <<delivered, mempool>>
blocks  == <<next, recv, lastSaved, seen>>
history == <<crashes, dbErrors, lost>>
vars == <<blocks, merging, cache, heap, stores, router, routes, world, history>>

-----------------------------------------------------------------------------
(* types.go *)

RouteMessage == [retry : Nat, processing : BOOLEAN]
NewRouteMessage == [retry |-> 0, processing |-> FALSE]

TotalMaxRetryTx == DefaultTxRetry * FlushRounds
IsStale(r) == r.retry >= TotalMaxRetryTx

Known(m) == DstOf[m] \in Chains

(* The pointers to copies of m that something still holds, and the sweep   *)
(* that forgets the other copies: nothing can read them again.             *)
Live(m) ==
  {o \in Objs : \/ cache[m] = o
                \/ router.pc = "query" /\ router.msg = m /\ router.obj = o
                \/ \E g \in Routes : /\ routes[g].pc # "idle"
                                     /\ routes[g].msg = m
                                     /\ routes[g].obj = o}

Swept(h) == [m \in Msgs |-> [o \in Objs |->
              IF o \in Live(m)' THEN h[m][o] ELSE NewRouteMessage]]

(* A pointer nothing holds: the next copy of m is allocated there.         *)
Fresh(m) == LET free == Objs \ Live(m)
            IN  {o \in free : \A p \in free : o <= p}

(* MessageCache.Add: whatever copy the key had is replaced.                *)
Add(m, o, r) ==
  /\ cache' = [cache EXCEPT ![m] = o]
  /\ heap' = Swept([heap EXCEPT ![m][o] = r])

(* MessageCache.Remove: by key, whichever copy is there now.               *)
Remove(m) ==
  /\ cache' = [cache EXCEPT ![m] = Nil]
  /\ heap' = Swept(heap)

(* A write to LevelDB succeeds or returns an error. *)
Write(ok) ==
  /\ ok \/ dbErrors < MaxDbErrors
  /\ dbErrors' = IF ok THEN dbErrors ELSE dbErrors + 1

IdleRouter == [pc |-> "select", todo |-> {}, msg |-> Nil, obj |-> Nil,
               unread |-> {}, batch |-> [m \in Msgs |-> NoRec], up |-> FALSE]
IdleRoute  == [pc |-> "idle", msg |-> Nil, obj |-> Nil, cnt |-> 0,
               tx |-> "none"]

Init ==
  /\ next = [c \in Chains |-> 1] /\ recv = next /\ seen = next
  /\ lastSaved = [c \in Chains |-> 0] /\ blockStore = lastSaved
  /\ merging = {}
  /\ cache = [m \in Msgs |-> Nil]
  /\ heap = [m \in Msgs |-> [o \in Objs |-> NewRouteMessage]]
  /\ msgStore = [m \in Msgs |-> NoRec] /\ txStore = {}
  /\ router = IdleRouter
  /\ routes = [g \in Routes |-> IdleRoute]
  /\ delivered = {} /\ mempool = {}
  /\ crashes = 0 /\ dbErrors = 0 /\ lost = {}

-----------------------------------------------------------------------------
(* Blocks: listener, block processor, mergeMessages.                       *)

(* A listener hands its next block to the channel; it blocks on a full one. *)
(* Start launches the listeners after the first flush.                      *)
Emit(c) ==
  /\ router.up
  /\ next[c] <= MaxHeight[c] /\ next[c] - recv[c] < ChanCap
  /\ next' = [next EXCEPT ![c] = @ + 1]
  /\ UNCHANGED <<recv, lastSaved, seen, merging, cache, heap, stores, router,
                 routes, world, history>>

EventsAt(c, h) == {m \in Msgs : SrcOf[m] = c /\ HeightOf[m] = h}

(* SaveBlockHeight: the difference is a uint64, which wraps when the block  *)
(* is below the saved height.                                               *)
ShouldSave(c, h) ==
  \/ EventsAt(c, h) # {}
  \/ h < lastSaved[c]
  \/ h - lastSaved[c] > SaveHeightMaxAfter

(* listenerChan has a block for the chain's processor.                      *)
HasBlock(c) == recv[c] < next[c]

(* A mutant: the height the listener has reached is saved.                 *)
ProcessBlockAhead(c, ok) ==
  LET h == recv[c] IN
  /\ HasBlock(c)
  /\ recv' = [recv EXCEPT ![c] = h + 1]
  /\ seen' = [seen EXCEPT ![c] = IF @ > h THEN @ ELSE h + 1]
  /\ IF ShouldSave(c, h)
       THEN /\ lastSaved' = [lastSaved EXCEPT ![c] = next[c]]
            /\ Write(ok)
            /\ blockStore' = IF ok THEN [blockStore EXCEPT ![c] = next[c]]
                                   ELSE blockStore
       ELSE ok /\ UNCHANGED <<lastSaved, blockStore, dbErrors>>
  /\ merging' = merging \cup EventsAt(c, h)
  /\ UNCHANGED <<next, cache, heap, msgStore, txStore, router, routes, world,
                 crashes, lost>>

(* A mutant: processBlockInfo returns when SaveBlockHeight fails.          *)
ProcessBlockOrReturn(c, ok) ==
  LET h == recv[c] IN
  /\ HasBlock(c)
  /\ recv' = [recv EXCEPT ![c] = h + 1]
  /\ seen' = [seen EXCEPT ![c] = IF @ > h THEN @ ELSE h + 1]
  /\ IF ShouldSave(c, h)
       THEN /\ lastSaved' = [lastSaved EXCEPT ![c] = h]
            /\ Write(ok)
            /\ blockStore' = IF ok THEN [blockStore EXCEPT ![c] = h]
                                   ELSE blockStore
       ELSE ok /\ UNCHANGED <<lastSaved, blockStore, dbErrors>>
  /\ merging' = IF ok THEN merging \cup EventsAt(c, h) ELSE merging
  /\ UNCHANGED <<next, cache, heap, msgStore, txStore, router, routes, world,
                 crashes, lost>>

(* processBlockInfo: LastBlockHeight is recv[c] - 1 from here on.           *)
ProcessBlock(c, ok) ==
  LET h == recv[c] IN
  /\ HasBlock(c)
  /\ recv' = [recv EXCEPT ![c] = h + 1]
  /\ seen' = [seen EXCEPT ![c] = IF @ > h THEN @ ELSE h + 1]
  /\ IF ShouldSave(c, h)
       THEN /\ lastSaved' = [lastSaved EXCEPT ![c] = h]
            /\ Write(ok)
            /\ blockStore' = IF ok THEN [blockStore EXCEPT ![c] = h]
                                   ELSE blockStore
       ELSE ok /\ UNCHANGED <<lastSaved, blockStore, dbErrors>>
  /\ merging' = merging \cup EventsAt(c, h)
  /\ UNCHANGED <<next, cache, heap, msgStore, txStore, router, routes, world,
                 crashes, lost>>

(* mergeMessages: one message of the block enters the cache.                *)
Merge(m) ==
  /\ m \in merging
  /\ merging' = merging \ {m}
  /\ UNCHANGED <<blocks, stores, router, routes, world, history>>
  /\ \E o \in Fresh(m) : Add(m, o, NewRouteMessage)

-----------------------------------------------------------------------------
(* The router: StartRouter, flushMessages, processMessages.                *)

(* GetMessages: the records of the chain's messages.                        *)
RecordsOf(c) == {m \in Msgs : SrcOf[m] = c /\ msgStore[m] # NoRec}

(* getActiveMessagesFromStore: the first maxFlushMessage + 1 records that   *)
(* are not stale, in key order.                                             *)
ActiveOf(c) ==
  LET active == {m \in RecordsOf(c) : ~IsStale(msgStore[m])}
  IN  {m \in active : Cardinality({n \in active : n < m}) <= MaxFlush}

(* flushMessages: nothing to do when the store is empty; otherwise ...      *)
FlushTick ==
  /\ router.pc = "select"
  /\ router' = IF \A m \in Msgs : msgStore[m] = NoRec
               THEN [router EXCEPT !.up = TRUE]
               ELSE [router EXCEPT !.pc = "flush", !.unread = Chains]
  /\ UNCHANGED <<blocks, merging, cache, heap, stores, routes, world, history>>

Flushed == \A m \in Msgs : router.batch[m] = NoRec

(* ... it reads the records of one chain after the other ...                *)
FlushRead(c) ==
  /\ router.pc = "flush" /\ c \in router.unread /\ Flushed
  /\ router' = [router EXCEPT !.unread = @ \ {c}, !.batch =
                  [m \in Msgs |-> IF m \in ActiveOf(c) THEN msgStore[m]
                                                       ELSE NoRec]]
  /\ UNCHANGED <<blocks, merging, cache, heap, stores, routes, world, history>>

(* ... and adds the copies to the cache one by one.                         *)
FlushAdd(m) ==
  /\ router.pc = "flush" /\ router.batch[m] # NoRec
  /\ router' = [router EXCEPT !.batch[m] = NoRec]
  /\ UNCHANGED <<blocks, merging, stores, routes, world, history>>
  /\ \E o \in Fresh(m) : Add(m, o, router.batch[m])

FlushEnd ==
  /\ router.pc = "flush" /\ router.unread = {} /\ Flushed
  /\ router' = [router EXCEPT !.pc = "select", !.up = TRUE]
  /\ UNCHANGED <<blocks, merging, cache, heap, stores, routes, world, history>>

(* processMessages ranges over the entries of the caches.                   *)
RouteTick ==
  /\ router.pc = "select" /\ router.up
  /\ \E m \in Msgs : cache[m] # Nil
  /\ router' = [router EXCEPT !.pc = "pass",
                              !.todo = {m \in Msgs : cache[m] # Nil}]
  /\ UNCHANGED <<blocks, merging, cache, heap, stores, routes, world, history>>

PassEnd ==
  /\ router.pc = "pass" /\ \A m \in router.todo : cache[m] = Nil
  /\ router' = [router EXCEPT !.pc = "select", !.todo = {}]
  /\ UNCHANGED <<blocks, merging, cache, heap, stores, routes, world, history>>

(* shouldSendMessage: ShouldReceiveMessage and ShouldSendMessage of both     *)
(* kinds of chain return true.                                              *)
ShouldSend(m) == ~heap[m][cache[m]].processing

(* A mutant: shouldSendMessage without the test of IsProcessing.           *)
VisitBlindly(m) ==
  LET rest == [router EXCEPT !.todo = @ \ {m}] IN
  /\ router.pc = "pass" /\ m \in router.todo /\ cache[m] # Nil
  /\ router' = IF ~Known(m) THEN [rest EXCEPT !.pc = "clear", !.msg = m]
               ELSE [rest EXCEPT !.pc = "query", !.msg = m, !.obj = cache[m]]
  /\ UNCHANGED <<blocks, merging, cache, heap, stores, routes, world, history>>

(* An entry of the pass: one whose destination is not configured            *)
(* (FindChainRuntime) is cleared, one in processing is skipped, for any      *)
(* other the destination is asked.                                          *)
Visit(m) ==
  LET rest == [router EXCEPT !.todo = @ \ {m}] IN
  /\ router.pc = "pass" /\ m \in router.todo /\ cache[m] # Nil
  /\ router' = IF ~Known(m) THEN [rest EXCEPT !.pc = "clear", !.msg = m]
               ELSE IF ~ShouldSend(m) THEN rest
               ELSE [rest EXCEPT !.pc = "query", !.msg = m, !.obj = cache[m]]
  /\ UNCHANGED <<blocks, merging, cache, heap, stores, routes, world, history>>

NextEntry(r) == [r EXCEPT !.pc = "pass", !.msg = Nil, !.obj = Nil]

(* MessageReceived returns an error.                                        *)
QueryError ==
  /\ router.pc = "query"
  /\ router' = NextEntry(router)
  /\ UNCHANGED <<blocks, merging, cache, stores, routes, world, history>>
  /\ heap' = Swept(heap)

(* A mutant: shouldSendMessage does not clear a received message.          *)
QueryReceivedOnly ==
  /\ router.pc = "query" /\ router.msg \in delivered
  /\ router' = NextEntry(router)
  /\ UNCHANGED <<blocks, merging, cache, stores, routes, world, history>>
  /\ heap' = Swept(heap)

QueryReceived ==
  /\ router.pc = "query" /\ router.msg \in delivered
  /\ router' = [router EXCEPT !.pc = "clear", !.obj = Nil]
  /\ UNCHANGED <<blocks, merging, cache, stores, routes, world, history>>
  /\ heap' = Swept(heap)

(* Not received yet: go r.RouteMessage(...).                                *)
Spawn(g) ==
  /\ router.pc = "query" /\ router.msg \notin delivered
  /\ routes[g].pc = "idle"
  /\ routes' = [routes EXCEPT ![g] =
                 [IdleRoute EXCEPT !.pc = "spawned", !.msg = router.msg,
                                   !.obj = router.obj]]
  /\ router' = NextEntry(router)
  /\ UNCHANGED <<blocks, merging, cache, heap, stores, world, history>>

(* ClearMessages: from the cache, then from the database.                   *)
RouterClear ==
  /\ router.pc = "clear"
  /\ router' = [router EXCEPT !.pc = "delete"]
  /\ UNCHANGED <<blocks, merging, stores, routes, world, history>>
  /\ Remove(router.msg)

DeleteMessage(m, ok) ==
  /\ Write(ok)
  /\ msgStore' = IF ok THEN [msgStore EXCEPT ![m] = NoRec] ELSE msgStore

RouterDelete(ok) ==
  /\ router.pc = "delete"
  /\ DeleteMessage(router.msg, ok)
  /\ router' = NextEntry(router)
  /\ UNCHANGED <<blocks, merging, cache, heap, blockStore, txStore, routes,
                 world, crashes, lost>>

-----------------------------------------------------------------------------
(* RouteMessage, its callback and HandleMessageFailed, in goroutine g.      *)

At(g, pc) == routes[g].pc = pc
Goto(g, pc) == routes' = [routes EXCEPT ![g].pc = pc]
(* A mutant: a goroutine that has ended still follows its transaction.     *)
ReturnTracking(g) == routes' = [routes EXCEPT ![g] = [IdleRoute EXCEPT !.tx = routes[g].tx]]

Return(g) == routes' = [routes EXCEPT ![g] = IdleRoute]

(* SetIsProcessing(true), and IncrementRetry reads Retry ...                *)
Begin(g) ==
  LET m == routes[g].msg  o == routes[g].obj IN
  /\ At(g, "spawned")
  /\ routes' = [routes EXCEPT ![g].pc = "incr", ![g].cnt = heap[m][o].retry]
  /\ UNCHANGED <<blocks, merging, cache, stores, router, world, history>>
  /\ heap' = Swept([heap EXCEPT ![m][o].processing = TRUE])

(* ... and writes it: another goroutine's increment in between is lost.     *)
Increment(g) ==
  LET m == routes[g].msg  o == routes[g].obj IN
  /\ At(g, "incr") /\ routes[g].cnt < MaxRetry
  /\ routes' = [routes EXCEPT ![g].pc = "send", ![g].cnt = 0]
  /\ UNCHANGED <<blocks, merging, cache, stores, router, world, history>>
  /\ heap' = Swept([heap EXCEPT ![m][o].retry = routes[g].cnt + 1])

(* Provider.Route sends the transaction and waits for its result.           *)
Send(g) ==
  /\ At(g, "send")
  /\ routes' = [routes EXCEPT ![g].pc = "wait", ![g].tx = "pending"]
  /\ UNCHANGED <<blocks, merging, cache, heap, stores, router, world, history>>

(* Provider.Route returns an error, before or after the node has taken the  *)
(* transaction: HandleMessageFailed(m, ...) with this goroutine's copy.     *)
SendError(g, taken) ==
  /\ At(g, "send")
  /\ Goto(g, "fail")
  /\ mempool' = IF taken THEN mempool \cup {routes[g].msg} ELSE mempool
  /\ UNCHANGED <<blocks, merging, cache, heap, stores, router, delivered,
                 history>>

(* A mutant: the callback does not look at the Code.                       *)
ResultAnyCode(g, ok) ==
  LET m == routes[g].msg IN
  /\ At(g, "wait") /\ routes[g].tx # "none"
  /\ IF DstOf[m] \notin Final
       THEN ok /\ Goto(g, "clear") /\ UNCHANGED <<txStore, dbErrors>>
       ELSE IF cache[m] = Nil
       THEN ok /\ Return(g) /\ UNCHANGED <<txStore, dbErrors>>
       ELSE /\ Write(ok)
            /\ IF ok THEN txStore' = txStore \cup {m} /\ Goto(g, "clear")
                     ELSE UNCHANGED txStore /\ Return(g)
  /\ UNCHANGED <<blocks, merging, cache, blockStore, msgStore, router, world,
                 crashes, lost>>
  /\ heap' = Swept(heap)

(* callback with Code = Success. The transaction object is stored under the *)
(* entry's MessageHeight, so an entry that is gone ends the callback.       *)
ResultSuccess(g, ok) ==
  LET m == routes[g].msg IN
  /\ At(g, "wait") /\ routes[g].tx = "ok"
  /\ IF DstOf[m] \notin Final
       THEN ok /\ Goto(g, "clear") /\ UNCHANGED <<txStore, dbErrors>>
       ELSE IF cache[m] = Nil
       THEN ok /\ Return(g) /\ UNCHANGED <<txStore, dbErrors>>
       ELSE /\ Write(ok)
            /\ IF ok THEN txStore' = txStore \cup {m} /\ Goto(g, "clear")
                     ELSE UNCHANGED txStore /\ Return(g)
  /\ UNCHANGED <<blocks, merging, cache, blockStore, msgStore, router, world,
                 crashes, lost>>
  /\ heap' = Swept(heap)

(* A mutant: a failed message is cleared.                                  *)
ResultFailedClears(g) ==
  LET m == routes[g].msg IN
  /\ At(g, "wait")
  /\ mempool' = IF routes[g].tx = "pending" THEN mempool \cup {m} ELSE mempool
  /\ IF cache[m] = Nil THEN Return(g)
     ELSE routes' = [routes EXCEPT ![g].pc = "clear", ![g].obj = cache[m],
                                   ![g].tx = "none"]
  /\ UNCHANGED <<blocks, merging, cache, stores, router, delivered, history>>
  /\ heap' = Swept(heap)

(* callback with any other Code: the transaction failed, or its result      *)
(* could not be had in time, whatever has or will become of it.             *)
(* HandleMessageFailed gets the copy the cache holds now.                   *)
ResultFailed(g) ==
  LET m == routes[g].msg IN
  /\ At(g, "wait")
  /\ mempool' = IF routes[g].tx = "pending" THEN mempool \cup {m} ELSE mempool
  /\ IF cache[m] = Nil THEN Return(g)
     ELSE routes' = [routes EXCEPT ![g].pc = "fail", ![g].obj = cache[m],
                                   ![g].tx = "none"]
  /\ UNCHANGED <<blocks, merging, cache, stores, router, delivered, history>>
  /\ heap' = Swept(heap)

(* A mutant: HandleMessageFailed leaves IsProcessing set.                  *)
FailInProcessing(g) ==
  LET m == routes[g].msg  o == routes[g].obj IN
  /\ At(g, "fail")
  /\ Goto(g, "store")
  /\ UNCHANGED <<blocks, merging, cache, stores, router, world, history>>
  /\ heap' = Swept([heap EXCEPT ![m][o].processing = TRUE])

(* HandleMessageFailed: SetIsProcessing(false) ...                          *)
Fail(g) ==
  LET m == routes[g].msg  o == routes[g].obj IN
  /\ At(g, "fail")
  /\ Goto(g, "store")
  /\ UNCHANGED <<blocks, merging, cache, stores, router, world, history>>
  /\ heap' = Swept([heap EXCEPT ![m][o].processing = FALSE])

(* A mutant: every failure removes the entry, stored or not.               *)
StoreMessageOrRemove(g, ok) ==
  LET m == routes[g].msg  r == heap[m][routes[g].obj] IN
  /\ At(g, "store")
  /\ IF r.retry # 0 /\ r.retry % DefaultTxRetry = 0
       THEN /\ Write(ok)
            /\ IF ok THEN msgStore' = [msgStore EXCEPT ![m] = r] /\ Goto(g, "remove")
                     ELSE UNCHANGED msgStore /\ Return(g)
       ELSE ok /\ UNCHANGED <<msgStore, dbErrors>> /\ Goto(g, "remove")
  /\ UNCHANGED <<blocks, merging, cache, blockStore, txStore, router, world,
                 crashes, lost>>
  /\ heap' = Swept(heap)

(* ... on every DefaultTxRetry-th attempt StoreMessage ...                  *)
StoreMessage(g, ok) ==
  LET m == routes[g].msg  r == heap[m][routes[g].obj] IN
  /\ At(g, "store")
  /\ IF r.retry # 0 /\ r.retry % DefaultTxRetry = 0
       THEN /\ Write(ok)
            /\ IF ok THEN msgStore' = [msgStore EXCEPT ![m] = r] /\ Goto(g, "remove")
                     ELSE UNCHANGED msgStore /\ Return(g)
       ELSE ok /\ UNCHANGED <<msgStore, dbErrors>> /\ Return(g)
  /\ UNCHANGED <<blocks, merging, cache, blockStore, txStore, router, world,
                 crashes, lost>>
  /\ heap' = Swept(heap)

(* ... and the entry leaves the cache.                                      *)
RemoveStored(g) ==
  /\ At(g, "remove")
  /\ Return(g)
  /\ UNCHANGED <<blocks, merging, stores, router, world, history>>
  /\ Remove(routes[g].msg)

(* ClearMessages after a success.                                           *)
Clear(g) ==
  /\ At(g, "clear")
  /\ Goto(g, "delete")
  /\ UNCHANGED <<blocks, merging, stores, router, world, history>>
  /\ Remove(routes[g].msg)

Delete(g, ok) ==
  /\ At(g, "delete")
  /\ DeleteMessage(routes[g].msg, ok)
  /\ Return(g)
  /\ UNCHANGED <<blocks, merging, cache, blockStore, txStore, router, world,
                 crashes, lost>>
  /\ heap' = Swept(heap)

-----------------------------------------------------------------------------
(* The environment. The destination contract accepts a message once: a     *)
(* second transaction for it reverts.                                       *)

Include(g) ==
  LET m == routes[g].msg IN
  /\ At(g, "wait") /\ routes[g].tx = "pending"
  /\ routes' = [routes EXCEPT ![g].tx = IF m \in delivered THEN "reverted"
                                                          ELSE "ok"]
  /\ delivered' = delivered \cup {m}
  /\ UNCHANGED <<blocks, merging, cache, heap, stores, router, mempool, history>>

IncludeLate(m) ==
  /\ m \in mempool
  /\ delivered' = delivered \cup {m} /\ mempool' = mempool \ {m}
  /\ UNCHANGED <<blocks, merging, cache, heap, stores, router, routes, history>>

Drop(m) ==
  /\ m \in mempool
  /\ mempool' = mempool \ {m}
  /\ UNCHANGED <<blocks, merging, cache, heap, stores, router, routes,
                 delivered, history>>

(* Where a restarted listener may begin, given the saved height h and a     *)
(* configured StartHeight of 1: module StartHeight.                         *)
Starts(h) == IF h = 0 THEN {1} ELSE 1 .. h

(* The process dies and starts again on the same database: NewRelayer reads *)
(* the saved heights, everything else in memory is gone.                    *)
Crash ==
  /\ crashes < MaxCrashes /\ crashes' = crashes + 1
  /\ \E start \in [Chains -> UNION {Starts(blockStore[c]) : c \in Chains}] :
       /\ \A c \in Chains : start[c] \in Starts(blockStore[c])
       /\ next' = start /\ recv' = start
       /\ lost' = {m \in Msgs : /\ HeightOf[m] < seen[SrcOf[m]]
                                /\ HeightOf[m] < start[SrcOf[m]]
                                /\ m \notin delivered /\ msgStore[m] = NoRec
                                /\ Known(m)}
  /\ lastSaved' = blockStore
  /\ merging' = {} /\ cache' = [m \in Msgs |-> Nil]
  /\ heap' = [m \in Msgs |-> [o \in Objs |-> NewRouteMessage]]
  /\ router' = IdleRouter /\ routes' = [g \in Routes |-> IdleRoute]
  /\ mempool' = mempool \cup
       {routes[g].msg : g \in {q \in Routes : routes[q].tx = "pending"}}
  /\ UNCHANGED <<seen, stores, delivered, dbErrors>>

-----------------------------------------------------------------------------

Router ==
  \/ FlushTick \/ FlushEnd \/ RouteTick \/ PassEnd
  \/ \E c \in Chains : FlushRead(c)
  \/ QueryError \/ QueryReceived \/ RouterClear
  \/ \E m \in Msgs : FlushAdd(m) \/ Visit(m)
  \/ \E g \in Routes : Spawn(g)
  \/ \E ok \in BOOLEAN : RouterDelete(ok)

Goroutine(g) ==
  \/ Begin(g) \/ Increment(g) \/ Send(g) \/ ResultFailed(g) \/ Fail(g)
  \/ RemoveStored(g) \/ Clear(g)
  \/ \E taken \in BOOLEAN : SendError(g, taken)
  \/ \E ok \in BOOLEAN :
       ResultSuccess(g, ok) \/ StoreMessage(g, ok) \/ Delete(g, ok)

Environment ==
  \/ \E g \in Routes : Include(g)
  \/ \E m \in Msgs : IncludeLate(m) \/ Drop(m)
  \/ Crash

Next ==
  \/ \E c \in Chains : Emit(c) \/ \E ok \in BOOLEAN : ProcessBlock(c, ok)
  \/ \E m \in Msgs : Merge(m)
  \/ Router
  \/ \E g \in Routes : Goroutine(g)
  \/ Environment

Spec == Init /\ [][Next]_vars

-----------------------------------------------------------------------------
(* Types. *)

MaybeObj == Objs \cup {Nil}
MaybeMsg == Msgs \cup {Nil}
MaybeRec == RouteMessage \cup {NoRec}

RouterState ==
  [pc : {"select", "flush", "pass", "query", "clear", "delete"},
   todo : SUBSET Msgs, msg : MaybeMsg, obj : MaybeObj,
   unread : SUBSET Chains, batch : [Msgs -> MaybeRec], up : BOOLEAN]

RouteState ==
  [pc : {"idle", "spawned", "incr", "send", "wait", "fail", "store", "remove",
         "clear", "delete"},
   msg : MaybeMsg, obj : MaybeObj, cnt : Nat,
   tx : {"none", "pending", "ok", "reverted"}]

(* A goroutine at work has a message and a copy of it, an idle one follows  *)
(* no transaction.                                                          *)
TypeOK ==
  /\ next \in [Chains -> Nat] /\ recv \in [Chains -> Nat]
  /\ seen \in [Chains -> Nat \ {0}]
  /\ lastSaved \in [Chains -> Nat] /\ blockStore \in [Chains -> Nat]
  /\ merging \subseteq Msgs /\ txStore \subseteq Msgs /\ lost \subseteq Msgs
  /\ delivered \subseteq Msgs /\ mempool \subseteq Msgs
  /\ cache \in [Msgs -> MaybeObj]
  /\ heap \in [Msgs -> [Objs -> RouteMessage]]
  /\ msgStore \in [Msgs -> MaybeRec]
  /\ router \in RouterState
  /\ router.pc \in {"query", "clear", "delete"} => router.msg \in Msgs
  /\ router.pc = "query" => router.obj \in Objs
  /\ routes \in [Routes -> RouteState]
  /\ \A g \in Routes :
       IF At(g, "idle") THEN routes[g].tx = "none"
                        ELSE routes[g].msg \in Msgs /\ routes[g].obj \in Objs
  /\ crashes \in Nat /\ dbErrors \in Nat

-----------------------------------------------------------------------------
(* Properties. *)

(* Where the relayer can still find message m: it is delivered, in a cache, *)
(* in the database, about to be merged, or in a block yet to be processed.  *)
(* (One for an unknown destination is dropped on purpose, relay.go:247.)    *)
Accounted(m) ==
  \/ m \in delivered \/ ~Known(m)
  \/ cache[m] # Nil \/ msgStore[m] # NoRec \/ m \in merging
  \/ HeightOf[m] >= recv[SrcOf[m]]

(* What the goroutines rely on without a lock: a callback or the router      *)
(* clears a message only once it is delivered (or has no destination), and   *)
(* what HandleMessageFailed removes from the cache is in the store.          *)
ClearJustified ==
  /\ \A g \in Routes :
       /\ ~At(g, "idle") => Known(routes[g].msg)
       /\ At(g, "clear") \/ At(g, "delete") \/ routes[g].tx = "ok"
            => routes[g].msg \in delivered
       /\ At(g, "remove") => \/ routes[g].msg \in delivered
                            \/ msgStore[routes[g].msg] # NoRec
  /\ router.pc = "query" => Known(router.msg)
  /\ router.pc \in {"clear", "delete"} =>
       router.msg \in delivered \/ ~Known(router.msg)
  /\ \A m \in Msgs : msgStore[m] # NoRec => Known(m)

(* No interleaving of merges, flushes, retries, callbacks, clears and       *)
(* failing writes loses a message: one the relayer can no longer find was   *)
(* undelivered, unstored and below the starting height of a restart.        *)
NoLoss == \A m \in Msgs : Accounted(m) \/ m \in lost

(* The height in the database is never ahead of the blocks handed to the    *)
(* cache (relay.go:278 saves before relay.go:283 merges): the block at the  *)
(* saved height is one the relayer has processed, and reads again.          *)
SavedHeightProcessed == \A c \in Chains : blockStore[c] < seen[c]

(* ClearMessages deletes a record, HandleMessageFailed overwrites it, both  *)
(* from any number of goroutines: the record of an undelivered message      *)
(* survives, restarts included.                                             *)
StoredSurvives ==
  [][\A m \in Msgs : msgStore[m] # NoRec /\ msgStore'[m] = NoRec
                       => m \in delivered]_vars

(* A transaction object is kept (relay.go:330) only for a message that the  *)
(* destination has received: CheckFinality never chases a failed attempt.   *)
TxObjectsDelivered == txStore \subseteq delivered

(* relay.go:319 "cannot clear incase of finality block": when the last      *)
(* trace of a delivered message goes, and its destination has a finality    *)
(* depth, the finality store tracks its transaction.                        *)
HasTrace(m) == cache[m] # Nil \/ msgStore[m] # NoRec
FinalityTracked ==
  [][\A m \in Msgs : HasTrace(m) /\ ~HasTrace(m)' /\ crashes' = crashes
                       /\ m \in delivered /\ DstOf[m] \in Final
                       => m \in txStore]_vars

(* relay.go:45 "flush all the packet and then continue": the router skips a *)
(* copy that is in processing, so only a record that is not can be flushed  *)
(* back into routing.                                                       *)
StoredIsRoutable ==
  \A m \in Msgs : msgStore[m] # NoRec => ~msgStore[m].processing

(* The engine implements Delivery.                                          *)
StatusOf(m) ==
  IF m \in delivered THEN "delivered"
  ELSE IF msgStore[m] # NoRec THEN "stored"
  ELSE IF HeightOf[m] >= seen[SrcOf[m]] THEN "unseen"
  ELSE IF cache[m] # Nil \/ m \in merging \/ HeightOf[m] >= recv[SrcOf[m]]
       THEN "held"
  ELSE "forgotten"

Promise == INSTANCE Delivery WITH
  Routable <- {m \in Msgs : Known(m)}, status <- [m \in Msgs |-> StatusOf(m)]

(* Whatever the goroutines do, each message goes through the life cycle     *)
(* that Delivery allows.                                                    *)
ImplementsDelivery == Promise!Spec

=============================================================================
