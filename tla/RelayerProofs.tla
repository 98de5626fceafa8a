--------------------------- MODULE RelayerProofs ---------------------------
(***************************************************************************)
(* Theorems about Relayer: type correctness, that no interleaving loses a  *)
(* message, and that the engine implements Delivery; and about RelayerLive: *)
(* one attempt at a time, and no record that cannot be routed again.       *)
(***************************************************************************)
EXTENDS RelayerLive, FiniteSetTheorems, TLAPS

(* A copy that is swept keeps its type (types.go:33 RouteMessage).          *)
LEMMA SweptType ==
  ASSUME NEW h \in [Msgs -> [Objs -> RouteMessage]]
  PROVE  Swept(h) \in [Msgs -> [Objs -> RouteMessage]]
BY DEF Swept, RouteMessage, NewRouteMessage

(* What an Add or a Remove leaves in the cache and the heap is well typed.  *)
LEMMA AddType ==
  ASSUME TypeOK, NEW m \in Msgs, NEW o \in Fresh(m), NEW r \in RouteMessage,
         Add(m, o, r)
  PROVE  /\ o \in Objs
         /\ cache' = [cache EXCEPT ![m] = o]
         /\ cache' \in [Msgs -> MaybeObj]
         /\ heap' \in [Msgs -> [Objs -> RouteMessage]]
<1>1. o \in Objs
  BY DEF Fresh
<1>2. [heap EXCEPT ![m][o] = r] \in [Msgs -> [Objs -> RouteMessage]]
  BY <1>1 DEF TypeOK
<1> QED
  BY <1>1, <1>2, SweptType DEF Add, TypeOK, MaybeObj

(* MessageCache.Remove (types.go:131) leaves cache and copies well typed.    *)
LEMMA RemoveType ==
  ASSUME TypeOK, NEW m \in Msgs, Remove(m)
  PROVE  /\ cache' \in [Msgs -> MaybeObj]
         /\ heap' \in [Msgs -> [Objs -> RouteMessage]]
BY SweptType DEF Remove, TypeOK, MaybeObj

(* The copy a goroutine at work writes to (relay.go:353-354, 364).          *)
LEMMA WriteType ==
  ASSUME TypeOK, NEW m \in Msgs, NEW o \in Objs
  PROVE  /\ heap[m][o] \in RouteMessage
         /\ heap[m][o].retry \in Nat /\ heap[m][o].processing \in BOOLEAN
         /\ \A b \in BOOLEAN : [heap EXCEPT ![m][o].processing = b]
                                 \in [Msgs -> [Objs -> RouteMessage]]
         /\ \A n \in Nat : [heap EXCEPT ![m][o].retry = n]
                                 \in [Msgs -> [Objs -> RouteMessage]]
<1>1. heap[m] \in [Objs -> RouteMessage] /\ heap[m][o] \in RouteMessage
  BY DEF TypeOK
<1>2. heap[m][o].retry \in Nat /\ heap[m][o].processing \in BOOLEAN
  BY <1>1 DEF RouteMessage
<1>3. ASSUME NEW b \in BOOLEAN
      PROVE  [heap EXCEPT ![m][o].processing = b]
               \in [Msgs -> [Objs -> RouteMessage]]
  <2> DEFINE r == [heap[m][o] EXCEPT !.processing = b]
  <2>1. r \in RouteMessage
    BY <1>1 DEF RouteMessage
  <2>2. [heap[m] EXCEPT ![o] = r] \in [Objs -> RouteMessage]
    BY <1>1, <2>1
  <2> QED
    BY <2>2 DEF TypeOK
<1>4. ASSUME NEW n \in Nat
      PROVE  [heap EXCEPT ![m][o].retry = n]
               \in [Msgs -> [Objs -> RouteMessage]]
  <2> DEFINE r == [heap[m][o] EXCEPT !.retry = n]
  <2>1. r \in RouteMessage
    BY <1>1 DEF RouteMessage
  <2>2. [heap[m] EXCEPT ![o] = r] \in [Objs -> RouteMessage]
    BY <1>1, <2>1
  <2> QED
    BY <2>2 DEF TypeOK
<1> QED
  BY <1>1, <1>2, <1>3, <1>4

(* A database write (lvldb.go:36) counts at most one more error.            *)
LEMMA WriteErrors ==
  ASSUME TypeOK, NEW ok \in BOOLEAN, Write(ok)
  PROVE  dbErrors' \in Nat
BY DEF Write, TypeOK

(* A goroutine's record may become any well typed one that still names its  *)
(* message and its copy, as RouteMessage and its callback keep both.        *)
RouteTypes == /\ routes \in [Routes -> RouteState]
              /\ \A g \in Routes :
                   IF At(g, "idle") THEN routes[g].tx = "none"
                   ELSE routes[g].msg \in Msgs /\ routes[g].obj \in Objs

(* A goroutine's record changes to another well typed one.                  *)
LEMMA RouteType ==
  ASSUME TypeOK, NEW g \in Routes, NEW r \in RouteState,
         IF r.pc = "idle" THEN r.tx = "none" ELSE r.msg \in Msgs /\ r.obj \in Objs,
         routes' = [routes EXCEPT ![g] = r]
  PROVE  RouteTypes'
BY DEF TypeOK, At, RouteTypes

(* What a goroutine between "go r.RouteMessage" and its return holds.       *)
LEMMA WorkingRoute ==
  ASSUME TypeOK, NEW g \in Routes, ~At(g, "idle")
  PROVE  /\ routes[g] \in RouteState /\ routes[g].cnt \in Nat
         /\ routes[g].msg \in Msgs /\ routes[g].obj \in Objs
BY DEF TypeOK, At, RouteState

(* A goroutine that returns (relay.go:361) leaves a well typed idle slot.    *)
LEMMA ReturnType ==
  ASSUME TypeOK, NEW g \in Routes, Return(g)
  PROVE  RouteTypes'
<1>1. /\ IdleRoute \in RouteState
      /\ IdleRoute.pc = "idle" /\ IdleRoute.tx = "none"
  BY DEF IdleRoute, RouteState, MaybeMsg, MaybeObj
<1> QED
  BY <1>1, RouteType DEF Return

(* A goroutine that moves on keeps its message and its copy.                *)
LEMMA GotoType ==
  ASSUME TypeOK, NEW g \in Routes, ~At(g, "idle"),
         NEW pc \in {"incr", "send", "wait", "fail", "store", "remove", "clear",
                     "delete"},
         Goto(g, pc)
  PROVE  RouteTypes'
<1> DEFINE r == [routes[g] EXCEPT !.pc = pc]
<1>1. r \in RouteState /\ r.pc # "idle" /\ r.msg \in Msgs /\ r.obj \in Objs
  BY WorkingRoute DEF RouteState
<1>2. routes' = [routes EXCEPT ![g] = r]
  BY DEF Goto
<1> QED
  BY <1>1, <1>2, RouteType

(* The initial state is well typed.                                         *)
LEMMA TypeInit == Init => TypeOK
BY ConstantsAssumption
   DEF Init, TypeOK, IdleRouter, IdleRoute, RouterState, RouteState, MaybeObj,
       MaybeMsg, MaybeRec, RouteMessage, NewRouteMessage, At

(* Every step keeps the types: one step of the proof per action.            *)
LEMMA TypeStep == TypeOK /\ [Next]_vars => TypeOK'
<1> SUFFICES ASSUME TypeOK, [Next]_vars PROVE TypeOK'
  OBVIOUS
<1> USE ConstantsAssumption
<1>1. CASE UNCHANGED vars
  BY <1>1 DEF vars, blocks, stores, world, history, TypeOK, At
<1>2. ASSUME NEW c \in Chains, Emit(c)
       PROVE  TypeOK'
  BY <1>2 DEF Emit, vars, blocks, stores, world, history, TypeOK, At
<1>3. ASSUME NEW c \in Chains, NEW ok \in BOOLEAN, ProcessBlock(c, ok)
       PROVE  TypeOK'
  <2>1. recv[c] \in Nat /\ recv[c] + 1 \in Nat \ {0}
    BY DEF TypeOK
  <2>2. recv' \in [Chains -> Nat] /\ seen' \in [Chains -> Nat \ {0}]
    BY <1>3, <2>1 DEF ProcessBlock, TypeOK
  <2>3. /\ lastSaved' \in [Chains -> Nat] /\ blockStore' \in [Chains -> Nat]
        /\ dbErrors' \in Nat
    BY <1>3, <2>1, WriteErrors DEF ProcessBlock, TypeOK
  <2>4. merging' \subseteq Msgs
    BY <1>3 DEF ProcessBlock, EventsAt, TypeOK
  <2> QED
    BY <1>3, <2>2, <2>3, <2>4
    DEF ProcessBlock, vars, blocks, stores, world, history, TypeOK, At
<1>4. ASSUME NEW m \in Msgs, Merge(m)
       PROVE  TypeOK'
  BY <1>4, AddType DEF Merge, NewRouteMessage, RouteMessage, vars, blocks,
     stores, world, history, TypeOK, At
<1>5. CASE FlushTick
  BY <1>5 DEF FlushTick, RouterState, MaybeObj, MaybeMsg, MaybeRec, vars,
     blocks, stores, world, history, TypeOK, At
<1>5a. ASSUME NEW c \in Chains, FlushRead(c)
       PROVE  TypeOK'
  BY <1>5a DEF FlushRead, RouterState, MaybeObj, MaybeMsg, MaybeRec, vars,
     blocks, stores, world, history, TypeOK, At
<1>5b. CASE FlushEnd
  BY <1>5b DEF FlushEnd, RouterState, MaybeObj, MaybeMsg, MaybeRec, vars,
     blocks, stores, world, history, TypeOK, At
<1>6. ASSUME NEW m \in Msgs, FlushAdd(m)
       PROVE  TypeOK'
  BY <1>6, AddType DEF FlushAdd, RouterState, MaybeObj, MaybeMsg,
     MaybeRec, vars, blocks, stores, world, history, TypeOK, At
<1>7. CASE RouteTick
  BY <1>7 DEF RouteTick, RouterState, MaybeObj, MaybeMsg, MaybeRec, vars,
     blocks, stores, world, history, TypeOK, At
<1>8. CASE PassEnd
  BY <1>8 DEF PassEnd, RouterState, MaybeObj, MaybeMsg, MaybeRec, vars,
     blocks, stores, world, history, TypeOK, At
<1>9. ASSUME NEW m \in Msgs, Visit(m)
       PROVE  TypeOK'
  BY <1>9 DEF Visit, RouterState, MaybeObj, MaybeMsg, MaybeRec, vars,
     blocks, stores, world, history, TypeOK, At
<1>10. CASE QueryError
  BY <1>10, SweptType DEF QueryError, NextEntry, RouterState, MaybeObj,
     MaybeMsg, MaybeRec, vars, blocks, stores, world, history, TypeOK, At
<1>11. CASE QueryReceived
  BY <1>11, SweptType DEF QueryReceived, RouterState, MaybeObj, MaybeMsg,
     MaybeRec, vars, blocks, stores, world, history, TypeOK, At
<1>12. ASSUME NEW g \in Routes, Spawn(g)
       PROVE  TypeOK'
  BY <1>12 DEF Spawn, IdleRoute, NextEntry, RouteState, RouterState,
     MaybeObj, MaybeMsg, MaybeRec, vars, blocks, stores, world, history,
     TypeOK, At
<1>13. CASE RouterClear
  BY <1>13, RemoveType DEF RouterClear, RouterState, MaybeObj, MaybeMsg,
     MaybeRec, vars, blocks, stores, world, history, TypeOK, At
<1>14. ASSUME NEW ok \in BOOLEAN, RouterDelete(ok)
       PROVE  TypeOK'
  BY <1>14, WriteErrors DEF RouterDelete, DeleteMessage, NextEntry,
     RouterState, MaybeObj, MaybeMsg, MaybeRec, vars, blocks, stores,
     world, history, TypeOK, At
<1>15. ASSUME NEW g \in Routes, Begin(g)
       PROVE  TypeOK'
  <2> DEFINE m == routes[g].msg
             o == routes[g].obj
             r == [routes[g] EXCEPT !.pc = "incr", !.cnt = heap[m][o].retry]
  <2>1. m \in Msgs /\ o \in Objs /\ routes[g] \in RouteState
    BY <1>15, WorkingRoute DEF Begin, At
  <2>2. r \in RouteState /\ r.pc # "idle" /\ r.msg \in Msgs /\ r.obj \in Objs
    BY <2>1, WriteType DEF RouteState
  <2>3. routes' = [routes EXCEPT ![g] = r]
    BY <1>15 DEF Begin
  <2>4. RouteTypes'
    BY <2>2, <2>3, RouteType
  <2>5. heap' \in [Msgs -> [Objs -> RouteMessage]]
    BY <1>15, <2>1, WriteType, SweptType DEF Begin
  <2> QED
    BY <1>15, <2>4, <2>5 DEF Begin, vars, blocks, stores, world, history, TypeOK, RouteTypes
<1>16. ASSUME NEW g \in Routes, Increment(g)
       PROVE  TypeOK'
  <2> DEFINE m == routes[g].msg
             o == routes[g].obj
             r == [routes[g] EXCEPT !.pc = "send", !.cnt = 0]
  <2>1. /\ m \in Msgs /\ o \in Objs /\ routes[g] \in RouteState
        /\ routes[g].cnt + 1 \in Nat
    BY <1>16, WorkingRoute DEF Increment, At
  <2>2. r \in RouteState /\ r.pc # "idle" /\ r.msg \in Msgs /\ r.obj \in Objs
    BY <2>1 DEF RouteState
  <2>3. routes' = [routes EXCEPT ![g] = r]
    BY <1>16 DEF Increment
  <2>4. RouteTypes'
    BY <2>2, <2>3, RouteType
  <2>5. heap' \in [Msgs -> [Objs -> RouteMessage]]
    BY <1>16, <2>1, WriteType, SweptType DEF Increment
  <2> QED
    BY <1>16, <2>4, <2>5 DEF Increment, vars, blocks, stores, world, history, TypeOK, RouteTypes
<1>17. ASSUME NEW g \in Routes, Send(g)
       PROVE  TypeOK'
  <2> DEFINE r == [routes[g] EXCEPT !.pc = "wait", !.tx = "pending"]
  <2>1. r \in RouteState /\ r.pc # "idle" /\ r.msg \in Msgs /\ r.obj \in Objs
    BY <1>17, WorkingRoute DEF Send, At, RouteState
  <2>2. routes' = [routes EXCEPT ![g] = r]
    BY <1>17 DEF Send
  <2>3. RouteTypes'
    BY <2>1, <2>2, RouteType
  <2> QED
    BY <1>17, <2>3 DEF Send, vars, blocks, stores, world, history, TypeOK, RouteTypes
<1>18. ASSUME NEW g \in Routes, NEW taken \in BOOLEAN, SendError(g, taken)
       PROVE  TypeOK'
  <2>1. RouteTypes'
    BY <1>18, GotoType DEF SendError, At
  <2>2. mempool' \subseteq Msgs
    BY <1>18, WorkingRoute DEF SendError, At, TypeOK
  <2> QED
    BY <1>18, <2>1, <2>2 DEF SendError, vars, blocks, stores, world, history, TypeOK, RouteTypes
<1>19. ASSUME NEW g \in Routes, NEW ok \in BOOLEAN, ResultSuccess(g, ok)
       PROVE  TypeOK'
  <2>1. RouteTypes'
    BY <1>19, GotoType, ReturnType DEF ResultSuccess, At
  <2>2. heap' \in [Msgs -> [Objs -> RouteMessage]]
    BY <1>19, SweptType DEF ResultSuccess, TypeOK
  <2>3. routes[g].msg \in Msgs
    BY <1>19, WorkingRoute DEF ResultSuccess, At
  <2>4. txStore' \subseteq Msgs /\ dbErrors' \in Nat
    BY <1>19, <2>3, WriteErrors DEF ResultSuccess, TypeOK
  <2> QED
    BY <1>19, <2>1, <2>2, <2>4 DEF ResultSuccess, vars, blocks, stores, world, history, TypeOK, RouteTypes
<1>20. ASSUME NEW g \in Routes, ResultFailed(g)
       PROVE  TypeOK'
  <2> DEFINE m == routes[g].msg
             r == [routes[g] EXCEPT !.pc = "fail", !.obj = cache[m],
                                    !.tx = "none"]
  <2>1. m \in Msgs /\ routes[g] \in RouteState
    BY <1>20, WorkingRoute DEF ResultFailed, At
  <2>2. RouteTypes'
    <3>1. CASE cache[m] = Nil
      BY <1>20, <3>1, ReturnType DEF ResultFailed
    <3>2. CASE cache[m] # Nil
      <4>1. cache[m] \in Objs
        BY <2>1, <3>2 DEF TypeOK, MaybeObj
      <4>2. r \in RouteState /\ r.pc # "idle" /\ r.msg \in Msgs /\ r.obj \in Objs
        BY <2>1, <4>1 DEF RouteState, MaybeObj
      <4>3. routes' = [routes EXCEPT ![g] = r]
        BY <1>20, <3>2 DEF ResultFailed
      <4> QED
        BY <4>2, <4>3, RouteType
    <3> QED
      BY <3>1, <3>2
  <2>3. heap' \in [Msgs -> [Objs -> RouteMessage]]
    BY <1>20, SweptType DEF ResultFailed, TypeOK
  <2>4. mempool' \subseteq Msgs
    BY <1>20, <2>1 DEF ResultFailed, TypeOK
  <2> QED
    BY <1>20, <2>2, <2>3, <2>4 DEF ResultFailed, vars, blocks, stores, world, history, TypeOK, RouteTypes
<1>21. ASSUME NEW g \in Routes, Fail(g)
       PROVE  TypeOK'
  <2>1. routes[g].msg \in Msgs /\ routes[g].obj \in Objs
    BY <1>21, WorkingRoute DEF Fail, At
  <2>2. RouteTypes'
    BY <1>21, GotoType DEF Fail, At
  <2>3. heap' \in [Msgs -> [Objs -> RouteMessage]]
    BY <1>21, <2>1, WriteType, SweptType DEF Fail
  <2> QED
    BY <1>21, <2>2, <2>3 DEF Fail, vars, blocks, stores, world, history, TypeOK, RouteTypes
<1>22. ASSUME NEW g \in Routes, NEW ok \in BOOLEAN, StoreMessage(g, ok)
       PROVE  TypeOK'
  <2> DEFINE r == heap[routes[g].msg][routes[g].obj]
  <2>1. routes[g].msg \in Msgs /\ routes[g].obj \in Objs
    BY <1>22, WorkingRoute DEF StoreMessage, At
  <2>2. RouteTypes'
    BY <1>22, GotoType, ReturnType DEF StoreMessage, At
  <2>3. heap' \in [Msgs -> [Objs -> RouteMessage]]
    BY <1>22, SweptType DEF StoreMessage, TypeOK
  <2>4. r \in MaybeRec
    BY <2>1, WriteType DEF MaybeRec
  <2>5. /\ msgStore' = msgStore \/ msgStore' = [msgStore EXCEPT ![routes[g].msg] = r]
        /\ dbErrors' = dbErrors \/ Write(ok)
    BY <1>22 DEF StoreMessage
  <2>6. msgStore' \in [Msgs -> MaybeRec] /\ dbErrors' \in Nat
    BY <2>4, <2>5, WriteErrors DEF TypeOK
  <2> QED
    BY <1>22, <2>2, <2>3, <2>6 DEF StoreMessage, vars, blocks, stores, world, history, TypeOK, RouteTypes
<1>23. ASSUME NEW g \in Routes, RemoveStored(g)
       PROVE  TypeOK'
  <2>1. RouteTypes'
    BY <1>23, ReturnType DEF RemoveStored
  <2>2. /\ cache' \in [Msgs -> MaybeObj]
        /\ heap' \in [Msgs -> [Objs -> RouteMessage]]
    BY <1>23, WorkingRoute, RemoveType DEF RemoveStored, At
  <2> QED
    BY <1>23, <2>1, <2>2 DEF RemoveStored, vars, blocks, stores, world, history, TypeOK, RouteTypes
<1>24. ASSUME NEW g \in Routes, Clear(g)
       PROVE  TypeOK'
  <2>1. RouteTypes'
    BY <1>24, GotoType DEF Clear, At
  <2>2. /\ cache' \in [Msgs -> MaybeObj]
        /\ heap' \in [Msgs -> [Objs -> RouteMessage]]
    BY <1>24, WorkingRoute, RemoveType DEF Clear, At
  <2> QED
    BY <1>24, <2>1, <2>2 DEF Clear, vars, blocks, stores, world, history, TypeOK, RouteTypes
<1>25. ASSUME NEW g \in Routes, NEW ok \in BOOLEAN, Delete(g, ok)
       PROVE  TypeOK'
  <2>1. RouteTypes'
    BY <1>25, ReturnType DEF Delete
  <2>2. heap' \in [Msgs -> [Objs -> RouteMessage]]
    BY <1>25, SweptType DEF Delete, TypeOK
  <2>3. msgStore' \in [Msgs -> MaybeRec] /\ dbErrors' \in Nat
    BY <1>25, WriteErrors DEF Delete, DeleteMessage, MaybeRec, TypeOK
  <2> QED
    BY <1>25, <2>1, <2>2, <2>3 DEF Delete, vars, blocks, stores, world, history, TypeOK, RouteTypes
<1>26. ASSUME NEW g \in Routes, Include(g)
       PROVE  TypeOK'
  <2> DEFINE r == [routes[g] EXCEPT !.tx =
                     IF routes[g].msg \in delivered THEN "reverted" ELSE "ok"]
  <2>1. r \in RouteState /\ r.pc # "idle" /\ r.msg \in Msgs /\ r.obj \in Objs
    BY <1>26, WorkingRoute DEF Include, At, RouteState
  <2>2. routes' = [routes EXCEPT ![g] = r]
    BY <1>26 DEF Include
  <2>3. RouteTypes'
    BY <2>1, <2>2, RouteType
  <2> QED
    BY <1>26, <2>1, <2>3 DEF Include, vars, blocks, stores, world, history, TypeOK, RouteTypes
<1>27. ASSUME NEW m \in Msgs, IncludeLate(m)
       PROVE  TypeOK'
  BY <1>27 DEF IncludeLate, vars, blocks, stores, world, history, TypeOK,
     At
<1>28. ASSUME NEW m \in Msgs, Drop(m)
       PROVE  TypeOK'
  BY <1>28 DEF Drop, vars, blocks, stores, world, history, TypeOK, At
<1>29. CASE Crash
  <2>1. PICK start \in [Chains -> UNION {Starts(blockStore[c]) : c \in Chains}] :
          next' = start /\ recv' = start
    BY <1>29 DEF Crash
  <2>2. \A c \in Chains : Starts(blockStore[c]) \subseteq Nat
    BY DEF Starts, TypeOK
  <2>3. next' \in [Chains -> Nat] /\ recv' \in [Chains -> Nat]
    BY <2>1, <2>2
  <2>4. /\ lost' \subseteq Msgs /\ merging' \subseteq Msgs
        /\ cache' \in [Msgs -> MaybeObj]
        /\ lastSaved' \in [Chains -> Nat] /\ crashes' \in Nat
    BY <1>29 DEF Crash, TypeOK, MaybeObj
  <2>5. heap' \in [Msgs -> [Objs -> RouteMessage]]
    BY <1>29 DEF Crash, RouteMessage, NewRouteMessage
  <2>6. router' \in RouterState /\ router'.pc = "select"
    BY <1>29 DEF Crash, IdleRouter, RouterState, MaybeMsg, MaybeObj, MaybeRec
  <2>7. RouteTypes'
    BY <1>29 DEF Crash, IdleRoute, RouteState, MaybeMsg, MaybeObj, At, RouteTypes
  <2>8. \A g \in Routes : routes[g].tx = "pending" => routes[g].msg \in Msgs
    BY DEF TypeOK, At
  <2>9. mempool' \subseteq Msgs
    BY <1>29, <2>8 DEF Crash, TypeOK
  <2> QED
    BY <1>29, <2>3, <2>4, <2>5, <2>6, <2>7, <2>9
    DEF Crash, stores, TypeOK, RouteTypes
<1> QED
  BY <1>1, <1>2, <1>3, <1>4, <1>5, <1>5a, <1>5b, <1>6, <1>7, <1>8, <1>9, <1>10,
     <1>11,
     <1>12, <1>13, <1>14, <1>15, <1>16, <1>17, <1>18, <1>19, <1>20, <1>21,
     <1>22, <1>23, <1>24, <1>25, <1>26, <1>27, <1>28, <1>29 DEF Next,
     Router, Goroutine, Environment

(* Type correctness of the engine, for every number of chains, messages,    *)
(* goroutines and retries.                                                  *)
THEOREM TypeCorrect == Spec => []TypeOK
BY TypeInit, TypeStep, PTL DEF Spec

-----------------------------------------------------------------------------
(* No message is lost.                                                     *)

(* The flags and places the goroutines rely on without a lock stay true:    *)
(* what is being cleared is delivered (relay.go:264, 337), what is removed   *)
(* after a failure is stored (relay.go:368, 374).                           *)
LEMMA ClearStep ==
  TypeOK /\ ClearJustified /\ [Next]_vars => ClearJustified'
<1> SUFFICES ASSUME TypeOK, ClearJustified, [Next]_vars
             PROVE  ClearJustified'
  OBVIOUS
<1> USE ConstantsAssumption
<1>1. CASE UNCHANGED vars
  BY <1>1 DEF vars, blocks, stores, world, history, TypeOK,
     ClearJustified, Known, At, RouteState, RouterState
<1>2. ASSUME NEW c \in Chains, Emit(c)
       PROVE  ClearJustified'
  BY <1>2 DEF Emit, vars, blocks, stores, world, history, TypeOK,
     ClearJustified, Known, At, RouteState, RouterState
<1>3. ASSUME NEW c \in Chains, NEW ok \in BOOLEAN, ProcessBlock(c, ok)
       PROVE  ClearJustified'
  BY <1>3 DEF ProcessBlock, vars, blocks, stores, world, history, TypeOK,
     ClearJustified, Known, At, RouteState, RouterState
<1>4. ASSUME NEW m \in Msgs, Merge(m)
       PROVE  ClearJustified'
  BY <1>4 DEF Merge, vars, blocks, stores, world, history, TypeOK,
     ClearJustified, Known, At, RouteState, RouterState
<1>5. CASE FlushTick
  BY <1>5 DEF FlushTick, vars, blocks, stores, world, history, TypeOK,
     ClearJustified, Known, At, RouteState, RouterState
<1>5a. ASSUME NEW c \in Chains, FlushRead(c)
       PROVE  ClearJustified'
  BY <1>5a DEF FlushRead, vars, blocks, stores, world, history, TypeOK,
     ClearJustified, Known, At, RouteState, RouterState
<1>5b. CASE FlushEnd
  BY <1>5b DEF FlushEnd, vars, blocks, stores, world, history, TypeOK,
     ClearJustified, Known, At, RouteState, RouterState
<1>6. ASSUME NEW m \in Msgs, FlushAdd(m)
       PROVE  ClearJustified'
  BY <1>6 DEF FlushAdd, vars, blocks, stores, world, history, TypeOK,
     ClearJustified, Known, At, RouteState, RouterState
<1>7. CASE RouteTick
  BY <1>7 DEF RouteTick, vars, blocks, stores, world, history, TypeOK,
     ClearJustified, Known, At, RouteState, RouterState
<1>8. CASE PassEnd
  BY <1>8 DEF PassEnd, vars, blocks, stores, world, history, TypeOK,
     ClearJustified, Known, At, RouteState, RouterState
<1>9. ASSUME NEW m \in Msgs, Visit(m)
       PROVE  ClearJustified'
  BY <1>9 DEF Visit, vars, blocks, stores, world, history, TypeOK,
     ClearJustified, Known, At, RouteState, RouterState
<1>10. CASE QueryError
  BY <1>10 DEF QueryError, NextEntry, vars, blocks, stores, world,
     history, TypeOK, ClearJustified, Known, At, RouteState, RouterState
<1>11. CASE QueryReceived
  BY <1>11 DEF QueryReceived, vars, blocks, stores, world, history,
     TypeOK, ClearJustified, Known, At, RouteState, RouterState
<1>12. ASSUME NEW g \in Routes, Spawn(g)
       PROVE  ClearJustified'
  BY <1>12 DEF Spawn, NextEntry, IdleRoute, vars, blocks, stores, world,
     history, TypeOK, ClearJustified, Known, At, RouteState, RouterState
<1>13. CASE RouterClear
  BY <1>13 DEF RouterClear, vars, blocks, stores, world, history, TypeOK,
     ClearJustified, Known, At, RouteState, RouterState
<1>14. ASSUME NEW ok \in BOOLEAN, RouterDelete(ok)
       PROVE  ClearJustified'
  BY <1>14 DEF RouterDelete, NextEntry, DeleteMessage, vars, blocks,
     stores, world, history, TypeOK, ClearJustified, Known, At,
     RouteState, RouterState
<1>15. ASSUME NEW g \in Routes, Begin(g)
       PROVE  ClearJustified'
  BY <1>15 DEF Begin, vars, blocks, stores, world, history, TypeOK,
     ClearJustified, Known, At, RouteState, RouterState
<1>16. ASSUME NEW g \in Routes, Increment(g)
       PROVE  ClearJustified'
  BY <1>16 DEF Increment, vars, blocks, stores, world, history, TypeOK,
     ClearJustified, Known, At, RouteState, RouterState
<1>17. ASSUME NEW g \in Routes, Send(g)
       PROVE  ClearJustified'
  BY <1>17 DEF Send, vars, blocks, stores, world, history, TypeOK,
     ClearJustified, Known, At, RouteState, RouterState
<1>18. ASSUME NEW g \in Routes, NEW taken \in BOOLEAN, SendError(g, taken)
       PROVE  ClearJustified'
  BY <1>18 DEF SendError, Goto, vars, blocks, stores, world, history,
     TypeOK, ClearJustified, Known, At, RouteState, RouterState
<1>19. ASSUME NEW g \in Routes, NEW ok \in BOOLEAN, ResultSuccess(g, ok)
       PROVE  ClearJustified'
  <2>1. routes[g].pc = "wait" /\ routes[g].tx = "ok" /\ routes[g] \in RouteState
    BY <1>19 DEF ResultSuccess, At, TypeOK
  <2>2. \A q \in Routes \ {g} : routes'[q] = routes[q]
    BY <1>19 DEF ResultSuccess, Goto, Return, TypeOK
  <2>3. \/ routes'[g] = IdleRoute
        \/ /\ routes'[g].pc = "clear" /\ routes'[g].tx = "ok"
           /\ routes'[g].msg = routes[g].msg
    <3>1. Return(g) \/ Goto(g, "clear")
      BY <1>19 DEF ResultSuccess
    <3> QED
      BY <3>1, <2>1 DEF Return, Goto, RouteState, TypeOK
  <2>4. IdleRoute.pc = "idle" /\ IdleRoute.tx = "none"
    BY DEF IdleRoute
  <2>5. /\ delivered' = delivered /\ msgStore' = msgStore /\ router' = router
    BY <1>19 DEF ResultSuccess, world
  <2> QED
    BY <1>19, <2>1, <2>2, <2>3, <2>4, <2>5
    DEF ResultSuccess, ClearJustified, Known, At, TypeOK, blocks, stores, world,
        history
<1>20. ASSUME NEW g \in Routes, ResultFailed(g)
       PROVE  ClearJustified'
  <2>1. routes[g].pc = "wait" /\ routes[g] \in RouteState
    BY <1>20 DEF ResultFailed, At, TypeOK
  <2>2. \A q \in Routes \ {g} : routes'[q] = routes[q]
    BY <1>20 DEF ResultFailed, Goto, Return, TypeOK
  <2>3. \/ routes'[g] = IdleRoute
        \/ /\ routes'[g].pc = "fail" /\ routes'[g].tx = "none"
           /\ routes'[g].msg = routes[g].msg
    <3>1. CASE cache[routes[g].msg] = Nil
      BY <1>20, <3>1 DEF ResultFailed, Return, TypeOK
    <3>2. CASE cache[routes[g].msg] # Nil
      BY <1>20, <3>2, <2>1 DEF ResultFailed, RouteState, TypeOK
    <3> QED
      BY <3>1, <3>2
  <2>4. IdleRoute.pc = "idle" /\ IdleRoute.tx = "none"
    BY DEF IdleRoute
  <2>5. /\ delivered' = delivered /\ msgStore' = msgStore /\ router' = router
    BY <1>20 DEF ResultFailed, stores
  <2> QED
    BY <1>20, <2>1, <2>2, <2>3, <2>4, <2>5
    DEF ResultFailed, ClearJustified, Known, At, TypeOK, blocks, stores, world,
        history
<1>21. ASSUME NEW g \in Routes, Fail(g)
       PROVE  ClearJustified'
  BY <1>21 DEF Fail, Goto, vars, blocks, stores, world, history, TypeOK,
     ClearJustified, Known, At, RouteState, RouterState
<1>22. ASSUME NEW g \in Routes, NEW ok \in BOOLEAN, StoreMessage(g, ok)
       PROVE  ClearJustified'
  <2> DEFINE r == heap[routes[g].msg][routes[g].obj]
  <2>1. /\ routes[g].pc = "store" /\ routes[g] \in RouteState
        /\ routes[g].msg \in Msgs /\ routes[g].obj \in Objs
    BY <1>22 DEF StoreMessage, At, TypeOK
  <2>2. \A q \in Routes \ {g} : routes'[q] = routes[q]
    BY <1>22 DEF StoreMessage, Goto, Return, TypeOK
  <2>3. \/ routes'[g] = IdleRoute /\ msgStore' = msgStore
        \/ /\ routes'[g].pc = "remove" /\ routes'[g].tx = routes[g].tx
           /\ routes'[g].msg = routes[g].msg
           /\ msgStore' = [msgStore EXCEPT ![routes[g].msg] = r]
    <3>1. \/ Return(g) /\ msgStore' = msgStore
          \/ /\ Goto(g, "remove")
             /\ msgStore' = [msgStore EXCEPT ![routes[g].msg] = r]
      BY <1>22 DEF StoreMessage
    <3> QED
      BY <3>1, <2>1 DEF Return, Goto, RouteState, TypeOK
  <2>4. IdleRoute.pc = "idle" /\ IdleRoute.tx = "none"
    BY DEF IdleRoute
  <2>5. r # NoRec
    BY <2>1, WriteType, ConstantsAssumption DEF RouteMessage
  <2>6. /\ delivered' = delivered /\ router' = router
    BY <1>22 DEF StoreMessage, world
  <2>7. /\ \A m \in Msgs : msgStore[m] # NoRec => msgStore'[m] # NoRec
        /\ routes'[g].pc = "remove" => msgStore'[routes[g].msg] # NoRec
    BY <2>1, <2>3, <2>4, <2>5 DEF TypeOK
  <2>8. \A m \in Msgs : msgStore'[m] # NoRec => Known(m)
    BY <2>1, <2>3 DEF ClearJustified, At, TypeOK
  <2>9. /\ ~At(g, "idle") /\ Known(routes[g].msg)
        /\ routes[g].tx = "ok" => routes[g].msg \in delivered
    BY <2>1 DEF ClearJustified, At
  <2>10. ASSUME NEW q \in Routes
         PROVE  /\ ~At(q, "idle")' => Known(routes'[q].msg)
                /\ (At(q, "clear") \/ At(q, "delete") \/ routes[q].tx = "ok")'
                     => routes'[q].msg \in delivered'
                /\ At(q, "remove")' => \/ routes'[q].msg \in delivered'
                                       \/ msgStore'[routes'[q].msg] # NoRec
    <3>1. CASE q = g
      BY <3>1, <2>3, <2>4, <2>6, <2>7, <2>9 DEF At
    <3>2. CASE q # g
      BY <3>2, <2>2, <2>6, <2>7 DEF At, ClearJustified, TypeOK
    <3> QED
      BY <3>1, <3>2
  <2> QED
    BY <2>6, <2>8, <2>10 DEF ClearJustified, Known
<1>23. ASSUME NEW g \in Routes, RemoveStored(g)
       PROVE  ClearJustified'
  BY <1>23 DEF RemoveStored, Return, IdleRoute, vars, blocks, stores,
     world, history, TypeOK, ClearJustified, Known, At, RouteState,
     RouterState
<1>24. ASSUME NEW g \in Routes, Clear(g)
       PROVE  ClearJustified'
  BY <1>24 DEF Clear, Goto, vars, blocks, stores, world, history, TypeOK,
     ClearJustified, Known, At, RouteState, RouterState
<1>25. ASSUME NEW g \in Routes, NEW ok \in BOOLEAN, Delete(g, ok)
       PROVE  ClearJustified'
  BY <1>25 DEF Delete, Return, IdleRoute, DeleteMessage, vars, blocks,
     stores, world, history, TypeOK, ClearJustified, Known, At,
     RouteState, RouterState
<1>26. ASSUME NEW g \in Routes, Include(g)
       PROVE  ClearJustified'
  BY <1>26 DEF Include, vars, blocks, stores, world, history, TypeOK,
     ClearJustified, Known, At, RouteState, RouterState
<1>27. ASSUME NEW m \in Msgs, IncludeLate(m)
       PROVE  ClearJustified'
  BY <1>27 DEF IncludeLate, vars, blocks, stores, world, history, TypeOK,
     ClearJustified, Known, At, RouteState, RouterState
<1>28. ASSUME NEW m \in Msgs, Drop(m)
       PROVE  ClearJustified'
  BY <1>28 DEF Drop, vars, blocks, stores, world, history, TypeOK,
     ClearJustified, Known, At, RouteState, RouterState
<1>29. CASE Crash
  BY <1>29 DEF Crash, IdleRouter, IdleRoute, vars, blocks, stores, world,
     history, TypeOK, ClearJustified, Known, At, RouteState, RouterState
<1> QED
  BY <1>1, <1>2, <1>3, <1>4, <1>5, <1>5a, <1>5b, <1>6, <1>7, <1>8, <1>9, <1>10,
     <1>11,
     <1>12, <1>13, <1>14, <1>15, <1>16, <1>17, <1>18, <1>19, <1>20, <1>21,
     <1>22, <1>23, <1>24, <1>25, <1>26, <1>27, <1>28, <1>29 DEF Next,
     Router, Goroutine, Environment

(* relay.go:278 saves the height of the block it is processing.             *)
LEMMA SavedStep ==
  TypeOK /\ SavedHeightProcessed /\ [Next]_vars => SavedHeightProcessed'
<1> SUFFICES ASSUME TypeOK, SavedHeightProcessed, [Next]_vars
             PROVE  SavedHeightProcessed'
  OBVIOUS
<1>1. ASSUME NEW c \in Chains, NEW ok \in BOOLEAN, ProcessBlock(c, ok)
      PROVE  SavedHeightProcessed'
  <2>1. /\ recv[c] \in Nat /\ seen'[c] > recv[c] /\ seen'[c] >= seen[c]
        /\ \A d \in Chains \ {c} : seen'[d] = seen[d]
    BY <1>1 DEF ProcessBlock, TypeOK
  <2>2. \/ blockStore' = blockStore
        \/ blockStore' = [blockStore EXCEPT ![c] = recv[c]]
    BY <1>1 DEF ProcessBlock
  <2>3. seen' \in [Chains -> Nat \ {0}] /\ blockStore' \in [Chains -> Nat]
    BY <1>1, TypeStep DEF TypeOK
  <2> QED
    BY <2>1, <2>2, <2>3 DEF SavedHeightProcessed, TypeOK
<1>2. ASSUME ~(\E c \in Chains, ok \in BOOLEAN : ProcessBlock(c, ok))
      PROVE  UNCHANGED <<blockStore, seen>>
  BY <1>2 DEF Next, Router, Goroutine, Environment, Emit, Merge,
     FlushTick, FlushRead, FlushAdd, FlushEnd, RouteTick, PassEnd,
     Visit, QueryError,
     QueryReceived, Spawn, RouterClear, RouterDelete, Begin, Increment,
     Send, SendError, ResultSuccess, ResultFailed, Fail, StoreMessage,
     RemoveStored, Clear, Delete, Include, IncludeLate, Drop, Crash, vars,
     blocks, stores, world, history
<1> QED
  BY <1>1, <1>2 DEF SavedHeightProcessed

(* A transaction object is stored by the callback of a successful           *)
(* transaction only (relay.go:328).                                         *)
LEMMA TxObjectStep ==
  TypeOK /\ ClearJustified /\ TxObjectsDelivered /\ [Next]_vars
    => TxObjectsDelivered'
<1> SUFFICES ASSUME TypeOK, ClearJustified, TxObjectsDelivered, [Next]_vars
             PROVE  TxObjectsDelivered'
  OBVIOUS
<1>1. ASSUME NEW g \in Routes, NEW ok \in BOOLEAN, ResultSuccess(g, ok)
      PROVE  TxObjectsDelivered'
  BY <1>1 DEF ResultSuccess, ClearJustified, TxObjectsDelivered, world
<1>2. ASSUME ~(\E g \in Routes, ok \in BOOLEAN : ResultSuccess(g, ok))
      PROVE  txStore' = txStore /\ delivered \subseteq delivered'
  BY <1>2 DEF Next, Router, Goroutine, Environment, Emit, ProcessBlock,
     Merge, FlushTick, FlushRead, FlushAdd, FlushEnd, RouteTick, PassEnd,
     Visit, QueryError,
     QueryReceived, Spawn, RouterClear, RouterDelete, Begin, Increment,
     Send, SendError, ResultFailed, Fail, StoreMessage, RemoveStored,
     Clear, Delete, Include, IncludeLate, Drop, Crash, vars, blocks,
     stores, world, history
<1> QED
  BY <1>1, <1>2 DEF TxObjectsDelivered

(* A step that takes nothing away from a message keeps it accounted for.    *)
Keeps(m) ==
  /\ m \in delivered => m \in delivered'
  /\ msgStore[m] # NoRec => msgStore'[m] # NoRec \/ m \in delivered
  /\ cache[m] # Nil => \/ cache'[m] # Nil \/ m \in delivered \/ ~Known(m)
                       \/ msgStore[m] # NoRec
  /\ m \in merging => m \in merging' \/ cache'[m] # Nil
  /\ HeightOf[m] >= recv[SrcOf[m]] =>
       HeightOf[m] >= recv'[SrcOf[m]] \/ m \in merging'
  /\ m \in lost => m \in lost'

(* A message that keeps what it has stays accounted for.                    *)
LEMMA KeptAccounted ==
  ASSUME NEW m \in Msgs, Accounted(m) \/ m \in lost, Keeps(m)
  PROVE  Accounted(m)' \/ m \in lost'
BY DEF Accounted, Keeps, Known

(* Every step but a restart keeps every message.                            *)
LEMMA KeepsStep ==
  ASSUME TypeOK, ClearJustified, Next, ~Crash, NEW n \in Msgs
  PROVE  Keeps(n)
<1> USE ConstantsAssumption
<1>1. CASE UNCHANGED vars
  BY <1>1 DEF vars, blocks, stores, world, history, Keeps, TypeOK,
     ClearJustified, At, Known
<1>2. ASSUME NEW c \in Chains, Emit(c)
       PROVE  Keeps(n)
  BY <1>2 DEF Emit, vars, blocks, stores, world, history, Keeps, TypeOK,
     ClearJustified, At, Known
<1>3. ASSUME NEW c \in Chains, NEW ok \in BOOLEAN, ProcessBlock(c, ok)
       PROVE  Keeps(n)
  <2>1. SrcOf[n] \in Chains /\ HeightOf[n] \in Nat /\ recv[c] \in Nat
    BY DEF TypeOK
  <2>2. /\ recv' = [recv EXCEPT ![c] = recv[c] + 1]
        /\ merging' = merging \cup EventsAt(c, recv[c])
    BY <1>3 DEF ProcessBlock
  <2>3. HeightOf[n] >= recv[SrcOf[n]] =>
          HeightOf[n] >= recv'[SrcOf[n]] \/ n \in merging'
    <3> SUFFICES ASSUME HeightOf[n] >= recv[SrcOf[n]]
                 PROVE  HeightOf[n] >= recv'[SrcOf[n]] \/ n \in merging'
      OBVIOUS
    <3>1. CASE SrcOf[n] # c
      <4>1. recv'[SrcOf[n]] = recv[SrcOf[n]]
        BY <2>1, <2>2, <3>1 DEF TypeOK
      <4> QED
        BY <4>1
    <3>2. CASE SrcOf[n] = c /\ HeightOf[n] = recv[c]
      <4>1. n \in EventsAt(c, recv[c])
        BY <3>2 DEF EventsAt
      <4> QED
        BY <2>2, <4>1
    <3>3. CASE SrcOf[n] = c /\ HeightOf[n] > recv[c]
      <4>1. recv'[SrcOf[n]] = recv[c] + 1
        BY <2>2, <3>3 DEF TypeOK
      <4> QED
        BY <2>1, <3>3, <4>1
    <3> QED
      BY <2>1, <3>1, <3>2, <3>3
  <2>4. UNCHANGED <<delivered, msgStore, cache, lost>>
    BY <1>3 DEF ProcessBlock, world
  <2> QED
    BY <2>2, <2>3, <2>4 DEF Keeps
<1>4. ASSUME NEW m \in Msgs, Merge(m)
       PROVE  Keeps(n)
  <2>1. PICK o \in Fresh(m) : Add(m, o, NewRouteMessage)
    BY <1>4 DEF Merge
  <2>2. cache' = [cache EXCEPT ![m] = o] /\ o # Nil
    BY <2>1 DEF Add, Fresh
  <2>3. merging' = merging \ {m} /\ UNCHANGED <<delivered, msgStore, recv, lost>>
    BY <1>4 DEF Merge, blocks, stores, world, history
  <2> QED
    BY <2>2, <2>3 DEF Keeps, TypeOK
<1>5. CASE FlushTick
  BY <1>5 DEF FlushTick, vars, blocks, stores, world, history, Keeps,
     TypeOK, ClearJustified, At, Known
<1>5a. ASSUME NEW c \in Chains, FlushRead(c)
       PROVE  Keeps(n)
  BY <1>5a DEF FlushRead, vars, blocks, stores, world, history, Keeps,
     TypeOK, ClearJustified, At, Known
<1>5b. CASE FlushEnd
  BY <1>5b DEF FlushEnd, vars, blocks, stores, world, history, Keeps,
     TypeOK, ClearJustified, At, Known
<1>6. ASSUME NEW m \in Msgs, FlushAdd(m)
       PROVE  Keeps(n)
  BY <1>6, AddType DEF FlushAdd, RouterState, MaybeRec, vars, blocks,
     stores, world, history, Keeps, TypeOK, ClearJustified, At, Known
<1>7. CASE RouteTick
  BY <1>7 DEF RouteTick, vars, blocks, stores, world, history, Keeps,
     TypeOK, ClearJustified, At, Known
<1>8. CASE PassEnd
  BY <1>8 DEF PassEnd, vars, blocks, stores, world, history, Keeps,
     TypeOK, ClearJustified, At, Known
<1>9. ASSUME NEW m \in Msgs, Visit(m)
       PROVE  Keeps(n)
  BY <1>9 DEF Visit, vars, blocks, stores, world, history, Keeps, TypeOK,
     ClearJustified, At, Known
<1>10. CASE QueryError
  BY <1>10 DEF QueryError, vars, blocks, stores, world, history, Keeps,
     TypeOK, ClearJustified, At, Known
<1>11. CASE QueryReceived
  BY <1>11 DEF QueryReceived, vars, blocks, stores, world, history, Keeps,
     TypeOK, ClearJustified, At, Known
<1>12. ASSUME NEW g \in Routes, Spawn(g)
       PROVE  Keeps(n)
  BY <1>12 DEF Spawn, vars, blocks, stores, world, history, Keeps, TypeOK,
     ClearJustified, At, Known
<1>13. CASE RouterClear
  BY <1>13 DEF RouterClear, Remove, vars, blocks, stores, world, history,
     Keeps, TypeOK, ClearJustified, At, Known
<1>14. ASSUME NEW ok \in BOOLEAN, RouterDelete(ok)
       PROVE  Keeps(n)
  BY <1>14 DEF RouterDelete, DeleteMessage, vars, blocks, stores, world,
     history, Keeps, TypeOK, ClearJustified, At, Known
<1>15. ASSUME NEW g \in Routes, Begin(g)
       PROVE  Keeps(n)
  BY <1>15 DEF Begin, vars, blocks, stores, world, history, Keeps, TypeOK,
     ClearJustified, At, Known
<1>16. ASSUME NEW g \in Routes, Increment(g)
       PROVE  Keeps(n)
  BY <1>16 DEF Increment, vars, blocks, stores, world, history, Keeps,
     TypeOK, ClearJustified, At, Known
<1>17. ASSUME NEW g \in Routes, Send(g)
       PROVE  Keeps(n)
  BY <1>17 DEF Send, vars, blocks, stores, world, history, Keeps, TypeOK,
     ClearJustified, At, Known
<1>18. ASSUME NEW g \in Routes, NEW taken \in BOOLEAN, SendError(g, taken)
       PROVE  Keeps(n)
  BY <1>18 DEF SendError, Goto, vars, blocks, stores, world, history,
     Keeps, TypeOK, ClearJustified, At, Known
<1>19. ASSUME NEW g \in Routes, NEW ok \in BOOLEAN, ResultSuccess(g, ok)
       PROVE  Keeps(n)
  BY <1>19 DEF ResultSuccess, vars, blocks, stores, world, history, Keeps,
     TypeOK, ClearJustified, At, Known
<1>20. ASSUME NEW g \in Routes, ResultFailed(g)
       PROVE  Keeps(n)
  BY <1>20 DEF ResultFailed, vars, blocks, stores, world, history, Keeps,
     TypeOK, ClearJustified, At, Known
<1>21. ASSUME NEW g \in Routes, Fail(g)
       PROVE  Keeps(n)
  BY <1>21 DEF Fail, Goto, vars, blocks, stores, world, history, Keeps,
     TypeOK, ClearJustified, At, Known
<1>22. ASSUME NEW g \in Routes, NEW ok \in BOOLEAN, StoreMessage(g, ok)
       PROVE  Keeps(n)
  <2>1. heap[routes[g].msg][routes[g].obj] # NoRec
    BY <1>22, WorkingRoute, WriteType DEF StoreMessage, At, RouteMessage
  <2>2. \/ msgStore' = msgStore
        \/ msgStore' = [msgStore EXCEPT ![routes[g].msg] =
                          heap[routes[g].msg][routes[g].obj]]
    BY <1>22 DEF StoreMessage
  <2> QED
    BY <1>22, <2>1, <2>2 DEF StoreMessage, Keeps, TypeOK, blocks, world
<1>23. ASSUME NEW g \in Routes, RemoveStored(g)
       PROVE  Keeps(n)
  BY <1>23 DEF RemoveStored, Return, Remove, vars, blocks, stores, world,
     history, Keeps, TypeOK, ClearJustified, At, Known
<1>24. ASSUME NEW g \in Routes, Clear(g)
       PROVE  Keeps(n)
  BY <1>24 DEF Clear, Goto, Remove, vars, blocks, stores, world, history,
     Keeps, TypeOK, ClearJustified, At, Known
<1>25. ASSUME NEW g \in Routes, NEW ok \in BOOLEAN, Delete(g, ok)
       PROVE  Keeps(n)
  BY <1>25 DEF Delete, DeleteMessage, vars, blocks, stores, world,
     history, Keeps, TypeOK, ClearJustified, At, Known
<1>26. ASSUME NEW g \in Routes, Include(g)
       PROVE  Keeps(n)
  BY <1>26 DEF Include, vars, blocks, stores, world, history, Keeps,
     TypeOK, ClearJustified, At, Known
<1>27. ASSUME NEW m \in Msgs, IncludeLate(m)
       PROVE  Keeps(n)
  BY <1>27 DEF IncludeLate, vars, blocks, stores, world, history, Keeps,
     TypeOK, ClearJustified, At, Known
<1>28. ASSUME NEW m \in Msgs, Drop(m)
       PROVE  Keeps(n)
  BY <1>28 DEF Drop, vars, blocks, stores, world, history, Keeps, TypeOK,
     ClearJustified, At, Known
<1>29. CASE Crash
  BY <1>29 DEF Crash, vars, blocks, stores, world, history, Keeps, TypeOK,
     ClearJustified, At, Known
<1> QED
  BY <1>1, <1>2, <1>3, <1>4, <1>5, <1>5a, <1>5b, <1>6, <1>7, <1>8, <1>9, <1>10,
     <1>11,
     <1>12, <1>13, <1>14, <1>15, <1>16, <1>17, <1>18, <1>19, <1>20, <1>21,
     <1>22, <1>23, <1>24, <1>25, <1>26, <1>27, <1>28, <1>29 DEF Next,
     Router, Goroutine, Environment

(* A restart loses only what lost says.                                     *)
LEMMA CrashLoses ==
  ASSUME TypeOK, SavedHeightProcessed, Crash, NEW m \in Msgs
  PROVE  Accounted(m)' \/ m \in lost'
<1> USE ConstantsAssumption
<1>1. PICK start \in [Chains -> UNION {Starts(blockStore[c]) : c \in Chains}] :
        /\ \A c \in Chains : start[c] \in Starts(blockStore[c])
        /\ recv' = start
        /\ lost' = {n \in Msgs : /\ HeightOf[n] < seen[SrcOf[n]]
                                /\ HeightOf[n] < start[SrcOf[n]]
                                /\ n \notin delivered /\ msgStore[n] = NoRec
                                /\ Known(n)}
  BY DEF Crash
<1>2. SrcOf[m] \in Chains /\ HeightOf[m] \in Nat \ {0}
  OBVIOUS
<1>3. HeightOf[m] < start[SrcOf[m]] => HeightOf[m] < seen[SrcOf[m]]
  BY <1>1, <1>2 DEF SavedHeightProcessed, Starts, TypeOK
<1>4. start[SrcOf[m]] \in Nat
  BY <1>1, <1>2 DEF Starts, TypeOK
<1>5. delivered' = delivered /\ msgStore' = msgStore
  BY DEF Crash, stores
<1> QED
  BY <1>1, <1>2, <1>3, <1>4, <1>5 DEF Accounted, Known

(* The inductive invariant.                                                 *)
Safe == ClearJustified /\ SavedHeightProcessed /\ TxObjectsDelivered /\ NoLoss

(* A relayer on an empty database is safe (relay.go:73).                     *)
LEMMA SafeInit == Init => Safe
BY ConstantsAssumption
   DEF Init, Safe, ClearJustified, SavedHeightProcessed, TxObjectsDelivered,
       NoLoss, Accounted, IdleRouter, IdleRoute, At

(* Every step, restarts included, keeps the engine safe.                    *)
LEMMA SafeStep == TypeOK /\ Safe /\ [Next]_vars => Safe'
<1> SUFFICES ASSUME TypeOK, Safe, [Next]_vars PROVE Safe'
  OBVIOUS
<1>1. ClearJustified' /\ SavedHeightProcessed' /\ TxObjectsDelivered'
  BY ClearStep, SavedStep, TxObjectStep DEF Safe
<1>2. ASSUME NEW m \in Msgs PROVE Accounted(m)' \/ m \in lost'
  <2>1. Accounted(m) \/ m \in lost
    BY DEF Safe, NoLoss
  <2>2. CASE Next /\ ~Crash
    BY <2>1, <2>2, KeepsStep, KeptAccounted DEF Safe
  <2>3. CASE Crash
    BY <2>3, CrashLoses DEF Safe
  <2>4. CASE UNCHANGED vars
    BY <2>1, <2>4 DEF vars, blocks, stores, world, history, Accounted, Known
  <2> QED
    BY <2>2, <2>3, <2>4
<1> QED
  BY <1>1, <1>2 DEF Safe, NoLoss

(* No interleaving of the engine's goroutines loses a message: whatever the *)
(* number of messages, goroutines, retries and restarts, a message is       *)
(* delivered or where the relayer will find it, unless a restart forgot it. *)
THEOREM NothingLost == Spec => []NoLoss
<1>1. Spec => [](TypeOK /\ Safe)
  BY TypeInit, TypeStep, SafeInit, SafeStep, PTL DEF Spec
<1>2. TypeOK /\ Safe => NoLoss
  BY DEF Safe
<1> QED
  BY <1>1, <1>2, PTL

(* The height in the database is that of a processed block (relay.go:278).  *)
THEOREM SavedIsProcessed == Spec => []SavedHeightProcessed
<1>1. Spec => [](TypeOK /\ Safe)
  BY TypeInit, TypeStep, SafeInit, SafeStep, PTL DEF Spec
<1>2. TypeOK /\ Safe => SavedHeightProcessed
  BY DEF Safe
<1> QED
  BY <1>1, <1>2, PTL

(* A transaction object is kept for delivered messages only (relay.go:330). *)
THEOREM TxObjectsAreDelivered == Spec => []TxObjectsDelivered
<1>1. Spec => [](TypeOK /\ Safe)
  BY TypeInit, TypeStep, SafeInit, SafeStep, PTL DEF Spec
<1>2. TypeOK /\ Safe => TxObjectsDelivered
  BY DEF Safe
<1> QED
  BY <1>1, <1>2, PTL

(* The record of an undelivered message is never deleted (relay.go:385).    *)
THEOREM StoreIsDurable == Spec => StoredSurvives
<1>1. Spec => [](TypeOK /\ Safe)
  BY TypeInit, TypeStep, SafeInit, SafeStep, PTL DEF Spec
<1>2. TypeOK /\ Safe /\ [Next]_vars =>
        [\A m \in Msgs : msgStore[m] # NoRec /\ msgStore'[m] = NoRec
                           => m \in delivered]_vars
  <2> SUFFICES ASSUME TypeOK, Safe, Next, NEW m \in Msgs,
                      msgStore[m] # NoRec, msgStore'[m] = NoRec
               PROVE  m \in delivered
    OBVIOUS
  <2>1. ~Crash
    BY DEF Crash, stores
  <2> QED
    BY <2>1, KeepsStep DEF Safe, Keeps
<1> QED
  BY <1>1, <1>2, PTL DEF Spec, StoredSurvives

-----------------------------------------------------------------------------
(* The engine implements Delivery.                                          *)

(* Something in memory or the database still speaks of message m.           *)
InHand(m) ==
  \/ cache[m] # Nil \/ m \in merging
  \/ msgStore[m] # NoRec \/ router.batch[m] # NoRec
  \/ router.pc = "query" /\ router.msg = m
  \/ \E g \in Routes : ~At(g, "idle") /\ routes[g].msg = m

(* Nothing is done about a message before the block of its event has been   *)
(* processed, in this life or an earlier one; what a flush has read is       *)
(* still stored, or delivered; and what a restart forgot stays forgotten     *)
(* until the next one: its block is not read again and no goroutine has it.  *)
OnlySeen == \A m \in Msgs : InHand(m) \/ m \in mempool => HeightOf[m] < seen[SrcOf[m]]
RecvSeen == \A c \in Chains : recv[c] <= seen[c]
FlushStored ==
  \A m \in Msgs : router.batch[m] # NoRec => msgStore[m] # NoRec \/ m \in delivered
LostForGood == \A m \in lost : ~InHand(m) /\ HeightOf[m] < recv[SrcOf[m]]

Causal == OnlySeen /\ RecvSeen /\ FlushStored /\ LostForGood

(* What a goroutine has in its hands after a step (relay.go:347-374).       *)
LEMMA HolderFrom ==
  ASSUME TypeOK, Next, ~Crash, NEW g \in Routes, ~At(g, "idle")'
  PROVE  \/ /\ ~At(g, "idle") /\ routes'[g].msg = routes[g].msg
            /\ routes'[g].obj \in {routes[g].obj, cache[routes[g].msg]}
            /\ routes'[g].pc \in {"incr", "send", "wait"} =>
                 routes[g].pc \in {"incr", "send", "wait"} \/ Begin(g)
            /\ routes'[g].pc = "store" => Fail(g) \/ routes'[g] = routes[g]
            /\ \A q \in Routes : ~Spawn(q)
         \/ /\ ~At(g, "idle") /\ routes'[g] = routes[g]
            /\ \E q \in Routes : Spawn(q)
         \/ /\ Spawn(g) /\ routes'[g].pc = "spawned"
            /\ routes'[g].msg = router.msg /\ routes'[g].obj = router.obj
<1>1. IdleRoute.pc = "idle" /\ IdleRoute \in RouteState
  BY DEF IdleRoute, RouteState, MaybeMsg, MaybeObj
<1>2. routes[g] \in RouteState /\ DOMAIN routes = Routes
  BY DEF TypeOK
<1>3. ASSUME NEW q \in Routes, Goroutine(q) \/ Include(q), q # g
      PROVE  routes'[g] = routes[g]
  BY <1>3 DEF Goroutine, Begin, Increment, Send, SendError, ResultSuccess,
     ResultFailed, Fail, StoreMessage, RemoveStored, Clear, Delete, Goto, Return,
     Include, TypeOK
<1>4. ASSUME NEW q \in Routes, Goroutine(q) \/ Include(q) PROVE \A p \in Routes : ~Spawn(p)
  <2>1. router' = router
    BY <1>4 DEF Goroutine, Begin, Increment, Send, SendError, ResultSuccess,
       ResultFailed, Fail, StoreMessage, RemoveStored, Clear, Delete, Include
  <2>2. router \in RouterState
    BY DEF TypeOK
  <2> QED
    BY <2>1, <2>2 DEF Spawn, NextEntry, RouterState
<1>5. ASSUME Goroutine(g)
      PROVE  /\ ~At(g, "idle") /\ routes'[g].msg = routes[g].msg
             /\ routes'[g].obj \in {routes[g].obj, cache[routes[g].msg]}
             /\ routes'[g].pc \in {"incr", "send", "wait"} =>
                  routes[g].pc \in {"incr", "send", "wait"} \/ Begin(g)
             /\ routes'[g].pc = "store" => Fail(g)
  <2>1. ~Return(g)
    BY <1>1, <1>2 DEF Return, At
  <2>2. CASE Begin(g) \/ Increment(g) \/ Send(g)
    BY <1>2, <2>2 DEF Begin, Increment, Send, RouteState, At
  <2>3. CASE ResultFailed(g)
    BY <1>2, <2>1, <2>3 DEF ResultFailed, RouteState, At
  <2>4. CASE Fail(g) \/ Clear(g) \/ \E taken \in BOOLEAN : SendError(g, taken)
    BY <1>2, <2>4 DEF Fail, Clear, SendError, Goto, RouteState, At
  <2>5. CASE \E ok \in BOOLEAN : ResultSuccess(g, ok) \/ StoreMessage(g, ok)
    <3>1. Goto(g, "clear") \/ Goto(g, "remove")
      BY <2>1, <2>5 DEF ResultSuccess, StoreMessage
    <3>2. ~At(g, "idle")
      BY <2>5 DEF ResultSuccess, StoreMessage, At
    <3> QED
      BY <1>2, <3>1, <3>2 DEF Goto, RouteState, At
  <2> QED
    BY <1>5, <2>1, <2>2, <2>3, <2>4, <2>5 DEF Goroutine, RemoveStored, Delete
<1>6. ASSUME Include(g)
      PROVE  /\ ~At(g, "idle") /\ routes'[g].msg = routes[g].msg
             /\ routes'[g].obj = routes[g].obj /\ routes'[g].pc = "wait"
             /\ routes[g].pc = "wait"
  BY <1>2, <1>6 DEF Include, RouteState, At
<1>7. ASSUME NEW q \in Routes, Spawn(q)
      PROVE  IF q = g THEN /\ routes'[g].pc = "spawned"
                           /\ routes'[g].msg = router.msg /\ routes'[g].obj = router.obj
                      ELSE routes'[g] = routes[g]
  BY <1>2, <1>7 DEF Spawn, IdleRoute
<1>8. CASE \E q \in Routes : Goroutine(q) \/ Include(q)
  BY <1>3, <1>4, <1>5, <1>6, <1>8 DEF At
<1>9. CASE \E q \in Routes : Spawn(q)
  BY <1>7, <1>9 DEF At
<1>10. CASE ~ \E q \in Routes : Goroutine(q) \/ Spawn(q) \/ Include(q)
  <2>1. routes' = routes
    BY <1>10 DEF Next, Router, Environment, Emit, ProcessBlock, Merge, FlushTick,
       FlushRead, FlushAdd, FlushEnd, RouteTick, PassEnd, Visit, QueryError,
       QueryReceived, RouterClear, RouterDelete, IncludeLate, Drop
  <2> QED
    BY <1>10, <2>1 DEF At
<1> QED
  BY <1>8, <1>9, <1>10

(* A goroutine at work has the message it was started with (relay.go:347).  *)
LEMMA RoutesFrom ==
  ASSUME TypeOK, Next, ~Crash, NEW g \in Routes, ~At(g, "idle")'
  PROVE  \/ ~At(g, "idle") /\ routes'[g].msg = routes[g].msg
         \/ router.pc = "query" /\ routes'[g].msg = router.msg
BY HolderFrom DEF Spawn

(* The router asks about what the cache had (relay.go:246), and flushes      *)
(* what the database had (relay.go:117).                                     *)
LEMMA RouterFrom ==
  ASSUME TypeOK, Next, ~Crash
  PROVE  /\ router'.pc = "query" =>
              \/ router.pc = "query" /\ router'.msg = router.msg
              \/ router'.msg \in Msgs /\ cache[router'.msg] # Nil
         /\ \A m \in Msgs : router'.batch[m] # NoRec =>
              router.batch[m] # NoRec \/ msgStore[m] # NoRec
<1>1. router \in RouterState
  BY DEF TypeOK
<1>2. CASE \E m \in Msgs : Visit(m)
  BY <1>1, <1>2 DEF Visit, RouterState
<1>3. CASE \E c \in Chains : FlushRead(c)
  BY <1>1, <1>3 DEF FlushRead, ActiveOf, RecordsOf, RouterState
<1>4. CASE \E m \in Msgs : FlushAdd(m)
  BY <1>1, <1>4 DEF FlushAdd, RouterState
<1>5. CASE FlushTick \/ FlushEnd \/ RouteTick \/ PassEnd
  BY <1>1, <1>5 DEF FlushTick, FlushEnd, RouteTick, PassEnd, RouterState
<1>6. CASE QueryError \/ QueryReceived \/ RouterClear
  BY <1>1, <1>6 DEF QueryError, QueryReceived, RouterClear, NextEntry, RouterState
<1>7. CASE \/ \E g \in Routes : Spawn(g)
           \/ \E ok \in BOOLEAN : RouterDelete(ok)
  BY <1>1, <1>7 DEF Spawn, RouterDelete, NextEntry, RouterState
<1>8. CASE ~Router
  BY <1>8 DEF Next, Goroutine, Environment, Emit, ProcessBlock, Merge, Begin,
     Increment, Send, SendError, ResultSuccess, ResultFailed, Fail, StoreMessage,
     RemoveStored, Clear, Delete, Include, IncludeLate, Drop
<1> QED
  BY <1>2, <1>3, <1>4, <1>5, <1>6, <1>7, <1>8 DEF Router

(* What enters a cache comes from a block (relay.go:283) or a flush.         *)
LEMMA CacheFrom ==
  ASSUME TypeOK, Next, ~Crash, NEW m \in Msgs, cache'[m] # Nil
  PROVE  cache[m] # Nil \/ m \in merging \/ router.batch[m] # NoRec
<1>1. CASE \E n \in Msgs : Merge(n) \/ FlushAdd(n)
  BY <1>1 DEF Merge, FlushAdd, Add, TypeOK
<1>2. CASE \/ RouterClear
           \/ \E g \in Routes : RemoveStored(g) \/ Clear(g)
  BY <1>2 DEF RouterClear, RemoveStored, Clear, Remove, TypeOK
<1>3. CASE ~ \/ \E n \in Msgs : Merge(n) \/ FlushAdd(n)
             \/ RouterClear
             \/ \E g \in Routes : RemoveStored(g) \/ Clear(g)
  BY <1>3 DEF Next, Router, Goroutine, Environment, Emit, ProcessBlock,
     FlushTick, FlushRead, FlushEnd, RouteTick, PassEnd, Visit, QueryError,
     QueryReceived, Spawn, RouterDelete, Begin, Increment, Send, SendError,
     ResultSuccess, ResultFailed, Fail, StoreMessage, Delete, Include,
     IncludeLate, Drop
<1> QED
  BY <1>1, <1>2, <1>3

(* The channels' heights only count on, and what is to be merged comes from *)
(* the block that is processed.                                             *)
LEMMA MergingFrom ==
  ASSUME TypeOK, RecvSeen, Next, ~Crash
  PROVE  /\ \A c \in Chains : recv[c] <= recv'[c] /\ seen[c] <= seen'[c]
         /\ \A m \in Msgs : m \in merging' =>
              \/ m \in merging
              \/ /\ HeightOf[m] = recv[SrcOf[m]]
                 /\ HeightOf[m] < recv'[SrcOf[m]] /\ HeightOf[m] < seen'[SrcOf[m]]
         /\ RecvSeen'
<1> USE ConstantsAssumption
<1>1. ASSUME NEW c \in Chains, NEW ok \in BOOLEAN, ProcessBlock(c, ok)
      PROVE  /\ \A d \in Chains : recv[d] <= recv'[d] /\ seen[d] <= seen'[d]
             /\ \A m \in Msgs : m \in merging' =>
                  \/ m \in merging
                  \/ /\ HeightOf[m] = recv[SrcOf[m]]
                     /\ HeightOf[m] < recv'[SrcOf[m]] /\ HeightOf[m] < seen'[SrcOf[m]]
             /\ RecvSeen'
  <2>1. recv \in [Chains -> Nat] /\ seen \in [Chains -> Nat \ {0}]
    BY DEF TypeOK
  <2>2. /\ recv' = [recv EXCEPT ![c] = recv[c] + 1]
        /\ seen' = [seen EXCEPT ![c] = IF seen[c] > recv[c] THEN seen[c] ELSE recv[c] + 1]
        /\ merging' = merging \cup EventsAt(c, recv[c])
    BY <1>1 DEF ProcessBlock
  <2>3. /\ recv'[c] = recv[c] + 1 /\ recv[c] < seen'[c] /\ seen[c] <= seen'[c]
        /\ \A d \in Chains \ {c} : recv'[d] = recv[d] /\ seen'[d] = seen[d]
    BY <2>1, <2>2 DEF RecvSeen
  <2>4. \A d \in Chains : recv[d] \in Nat /\ seen[d] \in Nat
    BY <2>1
  <2>5. recv'[c] <= seen'[c]
    BY <2>1, <2>2 DEF RecvSeen
  <2>6. \A d \in Chains : recv[d] <= recv'[d] /\ seen[d] <= seen'[d]
    BY <2>3, <2>4
  <2>7. \A m \in Msgs : m \in merging' => m \in merging \/ (SrcOf[m] = c /\ HeightOf[m] = recv[c])
    BY <2>2 DEF EventsAt
  <2>8. recv[c] < recv'[c]
    BY <2>3, <2>4
  <2> QED
    BY <2>3, <2>5, <2>6, <2>7, <2>8 DEF RecvSeen
<1>2. CASE ~ \E c \in Chains, ok \in BOOLEAN : ProcessBlock(c, ok)
  <2>1. UNCHANGED <<recv, seen>> /\ merging' \subseteq merging
    BY <1>2 DEF Next, Router, Goroutine, Environment, Emit, Merge, FlushTick,
       FlushRead, FlushAdd, FlushEnd, RouteTick, PassEnd, Visit, QueryError,
       QueryReceived, Spawn, RouterClear, RouterDelete, Begin, Increment, Send,
       SendError, ResultSuccess, ResultFailed, Fail, StoreMessage, RemoveStored,
       Clear, Delete, Include, IncludeLate, Drop, blocks
  <2>2. \A c \in Chains : recv[c] \in Nat /\ seen[c] \in Nat
    BY DEF TypeOK
  <2> QED
    BY <2>1, <2>2 DEF RecvSeen
<1> QED
  BY <1>1, <1>2

(* Records and transactions come from goroutines (relay.go:371, 356).       *)
LEMMA StoredFrom ==
  ASSUME TypeOK, Next, ~Crash, NEW m \in Msgs
  PROVE  /\ msgStore'[m] # NoRec =>
              \/ msgStore[m] # NoRec
              \/ \E g \in Routes : ~At(g, "idle") /\ routes[g].msg = m
         /\ m \in mempool' =>
              \/ m \in mempool
              \/ \E g \in Routes : ~At(g, "idle") /\ routes[g].msg = m
<1>1. CASE \E g \in Routes, ok \in BOOLEAN : StoreMessage(g, ok)
  BY <1>1 DEF StoreMessage, At, TypeOK, world
<1>2. CASE \/ \E g \in Routes, taken \in BOOLEAN : SendError(g, taken)
           \/ \E g \in Routes : ResultFailed(g)
  BY <1>2 DEF SendError, ResultFailed, At, stores
<1>3. CASE \/ \E ok \in BOOLEAN : RouterDelete(ok)
           \/ \E g \in Routes, ok \in BOOLEAN : Delete(g, ok)
  BY <1>3 DEF RouterDelete, Delete, DeleteMessage, TypeOK, world
<1>4. CASE \E n \in Msgs : IncludeLate(n) \/ Drop(n)
  BY <1>4 DEF IncludeLate, Drop, stores
<1>5. CASE ~ \/ \E g \in Routes, ok \in BOOLEAN : StoreMessage(g, ok)
             \/ \E g \in Routes, taken \in BOOLEAN : SendError(g, taken)
             \/ \E g \in Routes : ResultFailed(g)
             \/ \E ok \in BOOLEAN : RouterDelete(ok)
             \/ \E g \in Routes, ok \in BOOLEAN : Delete(g, ok)
             \/ \E n \in Msgs : IncludeLate(n) \/ Drop(n)
  <2>1. UNCHANGED <<msgStore, mempool>>
    BY <1>5 DEF Next, Router, Goroutine, Environment, Emit, ProcessBlock, Merge,
       FlushTick, FlushRead, FlushAdd, FlushEnd, RouteTick, PassEnd, Visit,
       QueryError, QueryReceived, Spawn, RouterClear, Begin, Increment, Send,
       ResultSuccess, Fail, RemoveStored, Clear, Include, stores, world
  <2> QED
    BY <2>1
<1> QED
  BY <1>1, <1>2, <1>3, <1>4, <1>5

(* Nothing takes up a message but the processing of its block.              *)
LEMMA InHandFrom ==
  ASSUME TypeOK, RecvSeen, Next, ~Crash, NEW m \in Msgs, InHand(m)'
  PROVE  \/ InHand(m)
         \/ /\ HeightOf[m] = recv[SrcOf[m]]
            /\ HeightOf[m] < recv'[SrcOf[m]] /\ HeightOf[m] < seen'[SrcOf[m]]
<1>1. \/ cache'[m] # Nil
      \/ m \in merging'
      \/ msgStore'[m] # NoRec
      \/ router'.batch[m] # NoRec
      \/ router'.pc = "query" /\ router'.msg = m
      \/ \E g \in Routes : ~At(g, "idle")' /\ routes'[g].msg = m
  BY DEF InHand, At
<1>2. CASE cache'[m] # Nil
  BY <1>2, CacheFrom DEF InHand
<1>3. CASE m \in merging'
  BY <1>3, MergingFrom DEF InHand
<1>4. CASE msgStore'[m] # NoRec
  BY <1>4, StoredFrom DEF InHand
<1>5. CASE router'.batch[m] # NoRec
  BY <1>5, RouterFrom DEF InHand
<1>6. CASE router'.pc = "query" /\ router'.msg = m
  BY <1>6, RouterFrom DEF InHand
<1>7. CASE \E g \in Routes : ~At(g, "idle")' /\ routes'[g].msg = m
  BY <1>7, RoutesFrom DEF InHand
<1> QED
  BY <1>1, <1>2, <1>3, <1>4, <1>5, <1>6, <1>7

LEMMA CausalInit == Init => Causal
BY ConstantsAssumption
   DEF Init, Causal, OnlySeen, RecvSeen, FlushStored, LostForGood, InHand,
       IdleRouter, IdleRoute, At

(* After a restart (relay.go:73) only the database speaks of a message, and  *)
(* the blocks below the saved height, which was processed, are read again.   *)
LEMMA CausalCrash == ASSUME TypeOK, Safe, Causal, Crash PROVE Causal'
<1> USE ConstantsAssumption
<1>1. PICK start \in [Chains -> UNION {Starts(blockStore[c]) : c \in Chains}] :
        /\ \A c \in Chains : start[c] \in Starts(blockStore[c])
        /\ recv' = start
        /\ lost' = {n \in Msgs : /\ HeightOf[n] < seen[SrcOf[n]]
                                /\ HeightOf[n] < start[SrcOf[n]]
                                /\ n \notin delivered /\ msgStore[n] = NoRec
                                /\ Known(n)}
  BY DEF Crash
<1>2. UNCHANGED <<seen, msgStore, delivered>>
  BY DEF Crash, stores
<1>3. \A m \in Msgs : InHand(m)' => msgStore[m] # NoRec
  <2>1. /\ merging' = {} /\ \A m \in Msgs : cache'[m] = Nil
        /\ router' = IdleRouter /\ routes' = [g \in Routes |-> IdleRoute]
    BY DEF Crash
  <2>2. /\ router'.pc = "select" /\ \A m \in Msgs : router'.batch[m] = NoRec
        /\ \A g \in Routes : routes'[g].pc = "idle"
    BY <2>1 DEF IdleRouter, IdleRoute
  <2> QED
    BY <1>2, <2>1, <2>2 DEF InHand, At
<1>4. \A m \in Msgs : m \in mempool' =>
        m \in mempool \/ \E g \in Routes : ~At(g, "idle") /\ routes[g].msg = m
  <2>1. \A g \in Routes : routes[g].tx = "pending" => ~At(g, "idle")
    BY DEF TypeOK
  <2> QED
    BY <2>1 DEF Crash
<1>5. OnlySeen'
  <2>1. \A m \in Msgs : InHand(m)' \/ m \in mempool' => InHand(m) \/ m \in mempool
    BY <1>3, <1>4 DEF InHand
  <2> QED
    BY <1>2, <2>1 DEF Causal, OnlySeen
<1>6. RecvSeen'
  <2>1. \A c \in Chains : start[c] <= seen[c]
    BY <1>1 DEF Safe, SavedHeightProcessed, Starts, TypeOK
  <2> QED
    BY <1>1, <1>2, <2>1 DEF RecvSeen
<1>7. FlushStored'
  <2>1. \A m \in Msgs : router'.batch[m] = NoRec
    BY DEF Crash, IdleRouter
  <2> QED
    BY <2>1 DEF FlushStored
<1>8. LostForGood'
  BY <1>1, <1>3 DEF LostForGood
<1> QED
  BY <1>5, <1>6, <1>7, <1>8 DEF Causal

LEMMA CausalStep == TypeOK /\ Safe /\ Causal /\ [Next]_vars => Causal'
<1> SUFFICES ASSUME TypeOK, Safe, Causal, [Next]_vars PROVE Causal'
  OBVIOUS
<1> USE ConstantsAssumption
<1>1. CASE UNCHANGED vars
  BY <1>1 DEF vars, blocks, stores, world, history, Causal, OnlySeen, RecvSeen,
     FlushStored, LostForGood, InHand, At
<1>2. CASE Crash
  BY <1>2, CausalCrash
<1>3. CASE Next /\ ~Crash
  <2>1. \A m \in Msgs : HeightOf[m] \in Nat /\ SrcOf[m] \in Chains
    OBVIOUS
  <2>2. \A c \in Chains : /\ recv[c] \in Nat /\ recv'[c] \in Nat
                          /\ seen[c] \in Nat /\ seen'[c] \in Nat
                          /\ recv[c] <= recv'[c] /\ seen[c] <= seen'[c]
    BY <1>3, TypeStep, MergingFrom DEF Causal, TypeOK
  <2>3. OnlySeen'
    <3>1. ASSUME NEW m \in Msgs, InHand(m)' \/ m \in mempool'
          PROVE  HeightOf[m] < seen'[SrcOf[m]]
      <4>1. InHand(m) \/ m \in mempool => HeightOf[m] < seen[SrcOf[m]]
        BY DEF Causal, OnlySeen
      <4>2. InHand(m) \/ m \in mempool \/ HeightOf[m] < seen'[SrcOf[m]]
        BY <1>3, <3>1, InHandFrom, StoredFrom DEF Causal, InHand
      <4>3. HeightOf[m] < seen[SrcOf[m]] \/ HeightOf[m] < seen'[SrcOf[m]]
        BY <4>1, <4>2
      <4> DEFINE c == SrcOf[m]
      <4>4. /\ HeightOf[m] \in Nat /\ seen[c] \in Nat /\ seen'[c] \in Nat
            /\ seen[c] <= seen'[c]
        BY <2>1, <2>2
      <4> QED
        BY <4>3, <4>4
    <3> QED
      BY <3>1 DEF OnlySeen
  <2>4. RecvSeen'
    BY <1>3, MergingFrom DEF Causal
  <2>5. FlushStored'
    <3>1. ASSUME NEW m \in Msgs, router'.batch[m] # NoRec
          PROVE  msgStore'[m] # NoRec \/ m \in delivered'
      <4>1. msgStore[m] # NoRec \/ m \in delivered
        BY <1>3, <3>1, RouterFrom DEF Causal, FlushStored
      <4> QED
        BY <1>3, <4>1, KeepsStep DEF Safe, Keeps
    <3> QED
      BY <3>1 DEF FlushStored
  <2>6. LostForGood'
    <3>1. lost' = lost
      BY <1>3 DEF Next, Router, Goroutine, Environment, Emit, ProcessBlock, Merge,
         FlushTick, FlushRead, FlushAdd, FlushEnd, RouteTick, PassEnd, Visit,
         QueryError, QueryReceived, Spawn, RouterClear, RouterDelete, Begin,
         Increment, Send, SendError, ResultSuccess, ResultFailed, Fail,
         StoreMessage, RemoveStored, Clear, Delete, Include, IncludeLate, Drop,
         history
    <3>2. ASSUME NEW m \in lost PROVE ~InHand(m)' /\ HeightOf[m] < recv'[SrcOf[m]]
      <4>1. m \in Msgs
        BY <3>2 DEF TypeOK
      <4>2. ~InHand(m) /\ HeightOf[m] < recv[SrcOf[m]]
        BY <3>2 DEF Causal, LostForGood
      <4> QED
        BY <1>3, <2>1, <2>2, <4>1, <4>2, InHandFrom DEF Causal
    <3> QED
      BY <3>1, <3>2 DEF LostForGood
  <2> QED
    BY <2>3, <2>4, <2>5, <2>6 DEF Causal
<1> QED
  BY <1>1, <1>2, <1>3

(* The statuses of Delivery. A message a goroutine works on is never         *)
(* forgotten: it is where NoLoss says, because what a restart forgot is not  *)
(* in hand.                                                                  *)
LEMMA WorkedOnIsHeld ==
  ASSUME TypeOK, Safe, Causal, NEW g \in Routes, ~At(g, "idle")
  PROVE  StatusOf(routes[g].msg) \in {"held", "stored", "delivered"}
<1> DEFINE m == routes[g].msg
<1>1. m \in Msgs
  BY WorkingRoute
<1>2. InHand(m) /\ Known(m)
  BY DEF InHand, Safe, ClearJustified
<1> HIDE DEF m
<1>3. m \notin lost
  BY <1>2 DEF Causal, LostForGood
<1>4. Accounted(m)
  BY <1>1, <1>3 DEF Safe, NoLoss
<1>5. HeightOf[m] < seen[SrcOf[m]]
  BY <1>1, <1>2 DEF Causal, OnlySeen
<1>6. ~ HeightOf[m] >= seen[SrcOf[m]]
  BY <1>1, <1>5, ConstantsAssumption DEF TypeOK
<1>7. StatusOf(m) \in {"held", "stored", "delivered"}
  BY <1>2, <1>4, <1>6 DEF Accounted, StatusOf
<1> QED
  BY <1>7 DEF m

(* What has a transaction somewhere is not unseen.                          *)
LEMMA SentIsSeen ==
  ASSUME TypeOK, Causal, NEW m \in Msgs, InHand(m) \/ m \in mempool
  PROVE  StatusOf(m) # "unseen"
<1>1. HeightOf[m] < seen[SrcOf[m]]
  BY DEF Causal, OnlySeen
<1>2. ~ HeightOf[m] >= seen[SrcOf[m]]
  BY <1>1, ConstantsAssumption DEF TypeOK
<1> QED
  BY <1>2 DEF StatusOf

(* The steps of Delivery, from what happens to one message.                 *)
Same(m) == StatusOf(m)' = StatusOf(m)
Statuses == [m \in Msgs |-> StatusOf(m)]

LEMMA StatusTypes == \A m \in Msgs : StatusOf(m) \in Promise!Status
BY DEF StatusOf, Promise!Status

LEMMA PromiseSteps ==
  ASSUME NEW m \in Msgs, \A n \in Msgs \ {m} : Same(n)
  PROVE  /\ StatusOf(m) = "held" /\ StatusOf(m)' = "stored" => Promise!Store(m)
         /\ /\ StatusOf(m) \in {"held", "stored", "forgotten"}
            /\ StatusOf(m)' = "delivered"
            => Promise!Deliver(m)
         /\ /\ ~Known(m) /\ StatusOf(m) = "held" /\ StatusOf(m)' = "forgotten"
            => Promise!Reject(m)
BY DEF Promise!Store, Promise!Deliver, Promise!Reject, Same

LEMMA PromiseStutters ==
  ASSUME \A n \in Msgs : Same(n)
  PROVE  UNCHANGED Statuses
BY DEF Same, Statuses

(* The same sources of a status, the same status.                           *)
LEMMA SameStatus ==
  ASSUME UNCHANGED <<delivered, msgStore, cache, merging, recv, seen>>
  PROVE  \A n \in Msgs : Same(n)
BY DEF Same, StatusOf

(* A block of new events is processed: they are seen together.              *)
LEMMA BlockIsSee ==
  ASSUME TypeOK, Causal, NEW c \in Chains, NEW ok \in BOOLEAN, ProcessBlock(c, ok)
  PROVE  \E M \in SUBSET Msgs : Promise!See(M)
<1> USE ConstantsAssumption
<1> DEFINE M == {m \in Msgs : StatusOf(m) = "unseen" /\ StatusOf(m)' # "unseen"}
<1>1. /\ UNCHANGED <<delivered, msgStore, cache>>
      /\ recv' = [recv EXCEPT ![c] = recv[c] + 1]
      /\ seen' = [seen EXCEPT ![c] = IF seen[c] > recv[c] THEN seen[c] ELSE recv[c] + 1]
      /\ merging' = merging \cup EventsAt(c, recv[c])
  BY DEF ProcessBlock, world
<1>2. \A d \in Chains : recv[d] \in Nat /\ seen[d] \in Nat /\ recv[d] <= seen[d]
  BY DEF TypeOK, Causal, RecvSeen
<1>3. /\ recv'[c] = recv[c] + 1
      /\ seen'[c] = IF seen[c] > recv[c] THEN seen[c] ELSE recv[c] + 1
      /\ \A d \in Chains \ {c} : recv'[d] = recv[d] /\ seen'[d] = seen[d]
  BY <1>1 DEF TypeOK
<1>4. ASSUME NEW m \in Msgs
      PROVE  StatusOf(m)' = IF m \in M THEN "held" ELSE StatusOf(m)
  <2>1. HeightOf[m] \in Nat /\ SrcOf[m] \in Chains
    OBVIOUS
  <2>2. CASE m \in delivered \/ msgStore[m] # NoRec
    <3>1. StatusOf(m) # "unseen" /\ StatusOf(m)' = StatusOf(m)
      BY <1>1, <2>2 DEF StatusOf
    <3> QED
      BY <3>1
  <2>3. CASE ~(m \in delivered \/ msgStore[m] # NoRec)
    <3>1. CASE m \in EventsAt(c, recv[c])
      <4>1. SrcOf[m] = c /\ HeightOf[m] = recv[c] /\ m \in merging'
        BY <1>1, <3>1 DEF EventsAt
      <4>2. ~ HeightOf[m] >= seen'[SrcOf[m]]
        BY <1>2, <1>3, <4>1
      <4>3. StatusOf(m)' = "held"
        BY <1>1, <2>3, <4>1, <4>2 DEF StatusOf
      <4>4. HeightOf[m] >= recv[SrcOf[m]]
        BY <1>2, <4>1
      <4>5. StatusOf(m) \in {"unseen", "held"}
        BY <2>3, <4>4 DEF StatusOf
      <4> QED
        BY <4>3, <4>5
    <3>2. CASE m \notin EventsAt(c, recv[c])
      <4>1. m \in merging' <=> m \in merging
        BY <1>1, <3>2
      <4>2. SrcOf[m] # c \/ HeightOf[m] # recv[c]
        BY <3>2 DEF EventsAt
      <4>3. HeightOf[m] >= recv'[SrcOf[m]] <=> HeightOf[m] >= recv[SrcOf[m]]
        BY <1>2, <1>3, <2>1, <4>2
      <4>4. HeightOf[m] >= seen'[SrcOf[m]] <=> HeightOf[m] >= seen[SrcOf[m]]
        BY <1>2, <1>3, <2>1, <4>2
      <4>5. StatusOf(m)' = StatusOf(m)
        BY <1>1, <4>1, <4>3, <4>4 DEF StatusOf
      <4> QED
        BY <4>5
    <3> QED
      BY <3>1, <3>2
  <2> QED
    BY <2>2, <2>3
<1>5. M \subseteq {m \in Msgs : StatusOf(m) = "unseen"}
  OBVIOUS
<1> HIDE DEF M
<1>6. Promise!See(M)
  BY <1>4, <1>5 DEF Promise!See, Promise!Are
<1> QED
  BY <1>5, <1>6

(* A restart: what is in blocks that are read again is held, the rest of     *)
(* what was only in memory is forgotten.                                    *)
LEMMA CrashIsRestart ==
  ASSUME TypeOK, Crash
  PROVE  \E M \in SUBSET Msgs : Promise!Restart(M)
<1> DEFINE M == {m \in Msgs : StatusOf(m)' = "held"}
<1>1. /\ UNCHANGED <<delivered, msgStore, seen>>
      /\ merging' = {} /\ cache' = [m \in Msgs |-> Nil]
  BY DEF Crash, stores
<1>2. ASSUME NEW m \in Msgs
      PROVE  \/ StatusOf(m)' = StatusOf(m) /\ StatusOf(m) \notin {"held", "forgotten"}
             \/ /\ StatusOf(m) \in {"held", "forgotten"}
                /\ StatusOf(m)' \in {"held", "forgotten"}
  BY <1>1 DEF StatusOf
<1>3. \A m \in M : StatusOf(m) \in {"held", "forgotten"}
  BY <1>2
<1>4. \A m \in Msgs : StatusOf(m)' = IF m \in M THEN "held"
                                     ELSE IF StatusOf(m) = "held" THEN "forgotten"
                                     ELSE StatusOf(m)
  BY <1>2
<1>5. M \subseteq Msgs
  OBVIOUS
<1> HIDE DEF M
<1>6. Promise!Restart(M)
  BY <1>3, <1>4, <1>5 DEF Promise!Restart, Promise!Are
<1> QED
  BY <1>5, <1>6

(* The destination receives a message.                                      *)
LEMMA IncludeIsDeliver ==
  ASSUME TypeOK, Causal, NEW m \in Msgs, InHand(m) \/ m \in mempool,
         delivered' = delivered \cup {m},
         UNCHANGED <<msgStore, cache, merging, recv, seen>>
  PROVE  Promise!Deliver(m) \/ UNCHANGED Statuses
<1>1. \A n \in Msgs \ {m} : Same(n)
  BY DEF Same, StatusOf
<1>2. StatusOf(m)' = "delivered"
  BY DEF StatusOf
<1>3. StatusOf(m) # "unseen" /\ StatusOf(m) \in Promise!Status
  BY SentIsSeen, StatusTypes
<1>4. CASE StatusOf(m) = "delivered"
  BY <1>1, <1>2, <1>4, PromiseStutters DEF Same
<1>5. CASE StatusOf(m) # "delivered"
  BY <1>1, <1>2, <1>3, <1>5, PromiseSteps DEF Promise!Status
<1> QED
  BY <1>4, <1>5

(* HandleMessageFailed stores the message it has (relay.go:371).            *)
LEMMA StoreIsStore ==
  ASSUME TypeOK, Safe, Causal, NEW g \in Routes, NEW ok \in BOOLEAN,
         StoreMessage(g, ok)
  PROVE  \/ \E m \in Msgs : Promise!Store(m)
         \/ UNCHANGED Statuses
<1>0. /\ routes[g].msg \in Msgs /\ ~At(g, "idle") /\ routes[g].obj \in Objs
  BY WorkingRoute DEF StoreMessage, At
<1> PICK m \in Msgs, o \in Objs : m = routes[g].msg /\ o = routes[g].obj
  BY <1>0
<1> PICK r : r = heap[m][o]
  OBVIOUS
<1>1. m \in Msgs
  OBVIOUS
<1>2. r # NoRec
  BY <1>1, WriteType, ConstantsAssumption DEF RouteMessage
<1>3. UNCHANGED <<delivered, cache, merging, recv, seen>>
  BY DEF StoreMessage, world, blocks
<1>4. StatusOf(m) \in {"held", "stored", "delivered"}
  BY <1>0, WorkedOnIsHeld
<1>5. CASE msgStore' = msgStore
  BY <1>3, <1>5, SameStatus, PromiseStutters
<1>6. CASE msgStore' = [msgStore EXCEPT ![m] = r]
  <2>1. \A n \in Msgs \ {m} : Same(n)
    BY <1>3, <1>6 DEF Same, StatusOf, TypeOK
  <2>2. msgStore'[m] # NoRec
    BY <1>1, <1>2, <1>6 DEF TypeOK
  <2>3. StatusOf(m)' = IF m \in delivered THEN "delivered" ELSE "stored"
    BY <1>3, <2>2 DEF StatusOf
  <2>4. StatusOf(m) = "delivered" <=> m \in delivered
    BY DEF StatusOf
  <2>5. CASE StatusOf(m) = "held"
    BY <1>1, <2>1, <2>3, <2>4, <2>5, PromiseSteps
  <2>6. CASE StatusOf(m) # "held"
    <3>1. Same(m)
      BY <1>4, <2>3, <2>4, <2>6 DEF Same
    <3> QED
      BY <2>1, <3>1, PromiseStutters
  <2> QED
    BY <2>5, <2>6
<1> QED
  BY <1>5, <1>6 DEF StoreMessage

(* An entry leaves a cache.                                                 *)
LEMMA RemoveIsReject ==
  ASSUME TypeOK, NEW m \in Msgs, Remove(m),
         m \in delivered \/ msgStore[m] # NoRec \/ ~Known(m),
         UNCHANGED <<delivered, msgStore, merging, recv, seen>>
  PROVE  Promise!Reject(m) \/ UNCHANGED Statuses
<1>1. cache' = [cache EXCEPT ![m] = Nil]
  BY DEF Remove
<1>2. \A n \in Msgs \ {m} : Same(n)
  BY <1>1 DEF Same, StatusOf, TypeOK
<1>3. \/ Same(m)
      \/ ~Known(m) /\ StatusOf(m) = "held" /\ StatusOf(m)' = "forgotten"
  <2>1. CASE m \in delivered \/ msgStore[m] # NoRec
    BY <1>1, <2>1 DEF Same, StatusOf
  <2>2. CASE ~(m \in delivered \/ msgStore[m] # NoRec)
    <3>1. \/ StatusOf(m)' = StatusOf(m)
          \/ StatusOf(m) = "held" /\ StatusOf(m)' = "forgotten"
      BY <1>1, <2>2 DEF StatusOf, TypeOK
    <3> QED
      BY <2>2, <3>1 DEF Same
  <2> QED
    BY <2>1, <2>2
<1> QED
  BY <1>2, <1>3, PromiseSteps, PromiseStutters

(* An entry is added for a message that is merged or still stored.           *)
LEMMA AddIsNothing ==
  ASSUME TypeOK, NEW m \in Msgs, NEW o \in Fresh(m), NEW r, Add(m, o, r),
         m \in merging \/ m \in delivered \/ msgStore[m] # NoRec,
         merging' \in {merging, merging \ {m}},
         UNCHANGED <<delivered, msgStore, recv, seen>>
  PROVE  UNCHANGED Statuses
<1>1. cache' = [cache EXCEPT ![m] = o] /\ o # Nil
  BY ConstantsAssumption DEF Add, Fresh
<1>2. \A n \in Msgs \ {m} : Same(n)
  BY <1>1 DEF Same, StatusOf, TypeOK
<1>3. Same(m)
  BY <1>1 DEF Same, StatusOf, TypeOK
<1> QED
  BY <1>2, <1>3, PromiseStutters

(* ClearMessages deletes the record of a delivered message (relay.go:385).  *)
LEMMA DeleteIsNothing ==
  ASSUME TypeOK, Safe, NEW m \in Msgs, NEW ok \in BOOLEAN, DeleteMessage(m, ok),
         m \in delivered \/ msgStore[m] = NoRec,
         UNCHANGED <<delivered, cache, merging, recv, seen>>
  PROVE  UNCHANGED Statuses
<1>1. \A n \in Msgs : Same(n)
  BY DEF DeleteMessage, Same, StatusOf, TypeOK
<1> QED
  BY <1>1, PromiseStutters

LEMMA PromiseStep ==
  ASSUME TypeOK, Safe, Causal, [Next]_vars
  PROVE  [Promise!Next]_Statuses
<1>1. CASE UNCHANGED vars
  BY <1>1, SameStatus, PromiseStutters DEF vars, blocks, stores, world
<1>2. CASE Crash
  BY <1>2, CrashIsRestart DEF Promise!Next
<1>3. CASE \E c \in Chains, ok \in BOOLEAN : ProcessBlock(c, ok)
  BY <1>3, BlockIsSee DEF Promise!Next
<1>4. CASE \E g \in Routes : Include(g)
  <2>1. PICK g \in Routes : Include(g)
    BY <1>4
  <2>2. routes[g].msg \in Msgs /\ ~At(g, "idle")
    BY <2>1, WorkingRoute DEF Include, At
  <2>3. PICK m \in Msgs : m = routes[g].msg
    BY <2>2
  <2>4. InHand(m)
    BY <2>2, <2>3 DEF InHand
  <2>5. /\ delivered' = delivered \cup {m}
        /\ UNCHANGED <<msgStore, cache, merging, recv, seen>>
    BY <2>1, <2>3 DEF Include, stores, blocks
  <2> QED
    BY <2>4, <2>5, IncludeIsDeliver DEF Promise!Next
<1>5. CASE \E m \in Msgs : IncludeLate(m)
  <2>1. PICK m \in Msgs : IncludeLate(m)
    BY <1>5
  <2>2. /\ m \in mempool /\ delivered' = delivered \cup {m}
        /\ UNCHANGED <<msgStore, cache, merging, recv, seen>>
    BY <2>1 DEF IncludeLate, stores, blocks
  <2> QED
    BY <2>2, IncludeIsDeliver DEF Promise!Next
<1>6. CASE \E g \in Routes, ok \in BOOLEAN : StoreMessage(g, ok)
  BY <1>6, StoreIsStore DEF Promise!Next
<1>7. CASE \E m \in Msgs : Merge(m)
  <2>1. PICK m \in Msgs : Merge(m)
    BY <1>7
  <2>2. PICK o \in Fresh(m) : Add(m, o, NewRouteMessage)
    BY <2>1 DEF Merge
  <2>3. /\ m \in merging /\ merging' = merging \ {m}
        /\ UNCHANGED <<delivered, msgStore, recv, seen>>
    BY <2>1 DEF Merge, blocks, stores, world
  <2> QED
    BY <2>2, <2>3, AddIsNothing
<1>8. CASE \E m \in Msgs : FlushAdd(m)
  <2>1. PICK m \in Msgs : FlushAdd(m)
    BY <1>8
  <2>2. PICK o \in Fresh(m) : Add(m, o, router.batch[m])
    BY <2>1 DEF FlushAdd
  <2>3. /\ m \in delivered \/ msgStore[m] # NoRec
        /\ UNCHANGED <<merging, delivered, msgStore, recv, seen>>
    BY <2>1 DEF FlushAdd, blocks, stores, world, Causal, FlushStored
  <2> QED
    BY <2>2, <2>3, AddIsNothing
<1>9. CASE RouterClear
  <2>1. router.msg \in Msgs
    BY <1>9 DEF RouterClear, TypeOK
  <2>2. router.msg \in delivered \/ ~Known(router.msg)
    BY <1>9 DEF RouterClear, Safe, ClearJustified
  <2>3. /\ Remove(router.msg)
        /\ UNCHANGED <<delivered, msgStore, merging, recv, seen>>
    BY <1>9 DEF RouterClear, blocks, stores, world
  <2>4. PICK m \in Msgs : m = router.msg
    BY <2>1
  <2>5. Remove(m)
    BY <2>3, <2>4 DEF Remove, Swept, Live
  <2> QED
    BY <2>2, <2>3, <2>4, <2>5, RemoveIsReject DEF Promise!Next
<1>10. CASE \E g \in Routes : RemoveStored(g) \/ Clear(g)
  <2>1. PICK g \in Routes : RemoveStored(g) \/ Clear(g)
    BY <1>10
  <2>2. routes[g].msg \in Msgs
    BY <2>1, WorkingRoute DEF RemoveStored, Clear, At
  <2>3. routes[g].msg \in delivered \/ msgStore[routes[g].msg] # NoRec
    BY <2>1 DEF RemoveStored, Clear, Safe, ClearJustified
  <2>4. /\ Remove(routes[g].msg)
        /\ UNCHANGED <<delivered, msgStore, merging, recv, seen>>
    BY <2>1 DEF RemoveStored, Clear, blocks, stores, world
  <2>5. PICK m \in Msgs : m = routes[g].msg
    BY <2>2
  <2>6. Remove(m)
    BY <2>4, <2>5 DEF Remove, Swept, Live
  <2> QED
    BY <2>3, <2>4, <2>5, <2>6, RemoveIsReject DEF Promise!Next
<1>11. CASE \E g \in Routes, ok \in BOOLEAN : Delete(g, ok)
  <2>1. PICK g \in Routes, ok \in BOOLEAN : Delete(g, ok)
    BY <1>11
  <2>2. routes[g].msg \in Msgs /\ routes[g].msg \in delivered
    BY <2>1, WorkingRoute DEF Delete, At, Safe, ClearJustified
  <2>3. /\ DeleteMessage(routes[g].msg, ok)
        /\ UNCHANGED <<delivered, cache, merging, recv, seen>>
    BY <2>1 DEF Delete, blocks, world
  <2> QED
    BY <2>2, <2>3, DeleteIsNothing
<1>12. CASE \E ok \in BOOLEAN : RouterDelete(ok)
  <2>1. PICK ok \in BOOLEAN : RouterDelete(ok)
    BY <1>12
  <2>2. /\ router.msg \in Msgs
        /\ router.msg \in delivered \/ msgStore[router.msg] = NoRec
    BY <2>1 DEF RouterDelete, TypeOK, Safe, ClearJustified
  <2>3. /\ DeleteMessage(router.msg, ok)
        /\ UNCHANGED <<delivered, cache, merging, recv, seen>>
    BY <2>1 DEF RouterDelete, blocks, world
  <2> QED
    BY <2>2, <2>3, DeleteIsNothing
<1>13. CASE Next /\ ~ \/ Crash
                      \/ \E c \in Chains, ok \in BOOLEAN : ProcessBlock(c, ok)
                      \/ \E g \in Routes : Include(g)
                      \/ \E m \in Msgs : IncludeLate(m)
                      \/ \E g \in Routes, ok \in BOOLEAN : StoreMessage(g, ok)
                      \/ \E m \in Msgs : Merge(m)
                      \/ \E m \in Msgs : FlushAdd(m)
                      \/ RouterClear
                      \/ \E g \in Routes : RemoveStored(g) \/ Clear(g)
                      \/ \E g \in Routes, ok \in BOOLEAN : Delete(g, ok)
                      \/ \E ok \in BOOLEAN : RouterDelete(ok)
  <2>1. UNCHANGED <<delivered, msgStore, cache, merging, recv, seen>>
    BY <1>13 DEF Next, Router, Goroutine, Environment, Emit, FlushTick, FlushRead,
       FlushEnd, RouteTick, PassEnd, Visit, QueryError, QueryReceived, Spawn,
       Begin, Increment, Send, SendError, ResultSuccess, ResultFailed, Fail, Drop,
       blocks, stores, world
  <2> QED
    BY <2>1, SameStatus, PromiseStutters
<1> QED
  BY <1>1, <1>2, <1>3, <1>4, <1>5, <1>6, <1>7, <1>8, <1>9, <1>10, <1>11, <1>12,
     <1>13

(* The engine implements Delivery: whatever its goroutines, the network and *)
(* restarts do, every message is seen before anything is done about it, is   *)
(* stored until it is delivered, and is forgotten by a restart only, and     *)
(* then only when it was not stored, or because nobody configured its        *)
(* destination (relay.go:247).                                              *)
THEOREM EngineImplementsDelivery == Spec => ImplementsDelivery
<1>1. Init => Promise!Init
  <2>1. ASSUME Init, NEW m \in Msgs PROVE StatusOf(m) = "unseen"
    BY <2>1, ConstantsAssumption DEF Init, StatusOf
  <2> QED
    BY <2>1 DEF Promise!Init
<1>2. TypeOK /\ Safe /\ Causal /\ [Next]_vars
        => [Promise!Next]_[m \in Msgs |-> StatusOf(m)]
  BY PromiseStep DEF Statuses
<1>3. Spec => [](TypeOK /\ Safe /\ Causal)
  BY TypeInit, TypeStep, SafeInit, SafeStep, CausalInit, CausalStep, PTL DEF Spec
<1> QED
  BY <1>1, <1>2, <1>3, PTL DEF Spec, ImplementsDelivery, Promise!Spec, Promise!Init

-----------------------------------------------------------------------------
(* Under the timing assumption: one attempt at a time.                      *)

(* A message that was neither stored nor delivered has one copy: the one    *)
(* its block put into the cache.  A goroutine or the router that has a copy *)
(* has that one, and nothing is cached before the block is merged.          *)
Unstored(m) == msgStore[m] = NoRec /\ m \notin delivered
Has(g, m) == ~At(g, "idle") /\ routes[g].msg = m
Asked(m) == router.pc = "query" /\ router.msg = m
OneCopy(m) ==
  /\ \A g \in Routes : Has(g, m) => routes[g].obj = cache[m]
  /\ Asked(m) => router.obj = cache[m]
  /\ m \in merging => cache[m] = Nil
  /\ HeightOf[m] >= recv[SrcOf[m]] => cache[m] = Nil /\ m \notin merging

(* One goroutine has it, or the router is asking about it, and IsProcessing *)
(* is set from the start of the attempt until its result.                   *)
OneHolder(m) ==
  /\ \A g, q \in Routes : Has(g, m) /\ Has(q, m) => g = q
  /\ \A g \in Routes : Has(g, m) => ~Asked(m)
Flagged(m) ==
  \A g \in Routes : Has(g, m) /\ routes[g].pc \in {"incr", "send", "wait"}
                      => heap[m][cache[m]].processing

Sole == \A m \in Msgs : Unstored(m) => OneCopy(m) /\ OneHolder(m) /\ Flagged(m)

(* What the router asks about (relay.go:262).                               *)
LEMMA AskedFrom ==
  ASSUME TypeOK, Next, ~Crash, NEW m \in Msgs, Asked(m)'
  PROVE  \/ Asked(m) /\ router'.obj = router.obj /\ \A g \in Routes : ~Spawn(g)
         \/ Visit(m) /\ ShouldSend(m) /\ router'.obj = cache[m]
<1>1. router \in RouterState
  BY DEF TypeOK
<1>2. CASE \E n \in Msgs : Visit(n)
  <2>1. PICK n \in Msgs : Visit(n)
    BY <1>2
  <2>2. ShouldSend(n) /\ router'.msg = n /\ router'.obj = cache[n]
    BY <1>1, <2>1 DEF Visit, RouterState, Asked
  <2> QED
    BY <2>1, <2>2 DEF Asked
<1>3. CASE \/ \E c \in Chains : FlushRead(c)
           \/ \E n \in Msgs : FlushAdd(n)
           \/ FlushTick \/ FlushEnd \/ RouteTick \/ PassEnd
  BY <1>1, <1>3 DEF FlushRead, FlushAdd, FlushTick, FlushEnd, RouteTick, PassEnd,
     RouterState, Asked
<1>4. CASE QueryError \/ QueryReceived \/ RouterClear
  BY <1>1, <1>4 DEF QueryError, QueryReceived, RouterClear, NextEntry, RouterState,
     Asked
<1>5. CASE \/ \E g \in Routes : Spawn(g)
           \/ \E ok \in BOOLEAN : RouterDelete(ok)
  BY <1>1, <1>5 DEF Spawn, RouterDelete, NextEntry, RouterState, Asked
<1>6. CASE ~Router
  <2>1. router' = router
    BY <1>6 DEF Next, Goroutine, Environment, Emit, ProcessBlock, Merge, Begin,
       Increment, Send, SendError, ResultSuccess, ResultFailed, Fail, StoreMessage,
       RemoveStored, Clear, Delete, Include, IncludeLate, Drop
  <2> QED
    BY <1>6, <2>1 DEF Asked, Router
<1> QED
  BY <1>2, <1>3, <1>4, <1>5, <1>6 DEF Router

(* IsProcessing of a copy that is still held is cleared by                  *)
(* HandleMessageFailed only (relay.go:364).                                 *)
LEMMA FlagStays ==
  ASSUME TypeOK, Next, ~Crash, NEW m \in Msgs, NEW o \in Objs,
         heap[m][o].processing, o \in Live(m)',
         ~Merge(m), ~FlushAdd(m),
         \A g \in Routes : ~At(g, "idle") /\ routes[g].msg = m => ~Fail(g)
  PROVE  heap'[m][o].processing
<1>1. heap \in [Msgs -> [Objs -> RouteMessage]]
  BY DEF TypeOK
<1>2. \A h : Swept(h)[m][o] = h[m][o]
  BY DEF Swept
<1>3. ASSUME NEW n \in Msgs, n # m, Merge(n) \/ FlushAdd(n)
      PROVE  heap'[m][o].processing
  <2>1. PICK p \in Objs, r \in {NewRouteMessage, router.batch[n]} : Add(n, p, r)
    BY <1>3 DEF Merge, FlushAdd, Fresh
  <2>2. heap' = Swept([heap EXCEPT ![n][p] = r])
    BY <2>1 DEF Add
  <2>3. [heap EXCEPT ![n][p] = r][m] = heap[m]
    BY <1>1, <1>3
  <2> QED
    BY <1>2, <2>2, <2>3
<1>4. ASSUME NEW g \in Routes, Begin(g) PROVE heap'[m][o].processing
  <2> DEFINE n == routes[g].msg
             p == routes[g].obj
             h == [heap EXCEPT ![n][p].processing = TRUE]
  <2>1. n \in Msgs /\ p \in Objs
    BY <1>4, WorkingRoute DEF Begin, At
  <2>2. heap' = Swept(h)
    BY <1>4 DEF Begin
  <2>3. CASE n = m /\ p = o
    <3>1. h[m][o] = [heap[m][o] EXCEPT !.processing = TRUE]
      BY <1>1, <2>1, <2>3
    <3>2. heap[m][o] \in RouteMessage
      BY <1>1
    <3>3. h[m][o].processing = TRUE
      BY <3>1, <3>2 DEF RouteMessage
    <3> QED
      BY <1>2, <2>2, <3>3
  <2>4. CASE ~(n = m /\ p = o)
    <3>1. h[m][o] = heap[m][o]
      BY <1>1, <2>1, <2>4
    <3> QED
      BY <1>2, <2>2, <3>1
  <2> QED
    BY <2>3, <2>4
<1>5. ASSUME NEW g \in Routes, Increment(g) PROVE heap'[m][o].processing
  <2> DEFINE n == routes[g].msg
             p == routes[g].obj
             h == [heap EXCEPT ![n][p].retry = routes[g].cnt + 1]
  <2>1. n \in Msgs /\ p \in Objs
    BY <1>5, WorkingRoute DEF Increment, At
  <2>2. heap' = Swept(h)
    BY <1>5 DEF Increment
  <2>3. CASE n = m /\ p = o
    <3>1. h[m][o] = [heap[m][o] EXCEPT !.retry = routes[g].cnt + 1]
      BY <1>1, <2>1, <2>3
    <3>2. heap[m][o] \in RouteMessage
      BY <1>1
    <3>3. h[m][o].processing = heap[m][o].processing
      BY <3>1, <3>2 DEF RouteMessage
    <3> QED
      BY <1>2, <2>2, <3>3
  <2>4. CASE ~(n = m /\ p = o)
    <3>1. h[m][o] = heap[m][o]
      BY <1>1, <2>1, <2>4
    <3> QED
      BY <1>2, <2>2, <3>1
  <2> QED
    BY <2>3, <2>4
<1>6. ASSUME NEW g \in Routes, Fail(g) PROVE heap'[m][o].processing
  <2>1. routes[g].msg \in Msgs /\ routes[g].msg # m
    BY <1>6, WorkingRoute DEF Fail, At
  <2>2. heap' = Swept([heap EXCEPT ![routes[g].msg][routes[g].obj].processing = FALSE])
    BY <1>6 DEF Fail
  <2>3. [heap EXCEPT ![routes[g].msg][routes[g].obj].processing = FALSE][m] = heap[m]
    BY <1>1, <2>1
  <2> QED
    BY <1>2, <2>2, <2>3
<1>7. CASE ~ \/ \E n \in Msgs : Merge(n) \/ FlushAdd(n)
             \/ \E g \in Routes : Begin(g) \/ Increment(g) \/ Fail(g)
  <2>1. heap' = heap \/ heap' = Swept(heap)
    BY <1>7 DEF Next, Router, Goroutine, Environment, Emit, ProcessBlock,
       FlushTick, FlushRead, FlushEnd, RouteTick, PassEnd, Visit, QueryError,
       QueryReceived, Spawn, RouterClear, RouterDelete, Send, SendError,
       ResultSuccess, ResultFailed, StoreMessage, RemoveStored, Clear, Delete,
       Include, IncludeLate, Drop, Remove
  <2> QED
    BY <1>2, <2>1
<1> QED
  BY <1>3, <1>4, <1>5, <1>6, <1>7

(* What stays true of the one copy of a message that is still unstored       *)
(* after the step.                                                          *)
LEMMA UnstoredBefore ==
  ASSUME TypeOK, Safe, Causal, Next, ~Crash, NEW m \in Msgs, Unstored(m)'
  PROVE  /\ Unstored(m) /\ router.batch[m] = NoRec /\ ~FlushAdd(m)
         /\ \A g \in Routes : Has(g, m) => routes[g].pc \notin {"remove", "clear", "delete"}
<1>1. Keeps(m)
  BY KeepsStep DEF Safe
<1>2. Unstored(m)
  BY <1>1 DEF Keeps, Unstored
<1>3. router.batch[m] = NoRec
  BY <1>2 DEF Causal, FlushStored, Unstored
<1> QED
  BY <1>2, <1>3 DEF FlushAdd, Safe, ClearJustified, Unstored, Has, At

(* Its cache entry is the one it had, or the first, or gone because nobody   *)
(* knows its destination (relay.go:247).                                     *)
LEMMA EntryFrom ==
  ASSUME TypeOK, Safe, Causal, Next, ~Crash, NEW m \in Msgs, Unstored(m)', ~Merge(m),
         Known(m)
  PROVE  cache'[m] = cache[m]
<1>1. ~FlushAdd(m) /\ \A g \in Routes : Has(g, m) => routes[g].pc \notin {"remove", "clear"}
  BY UnstoredBefore
<1>2. CASE \E n \in Msgs : Merge(n) \/ FlushAdd(n)
  BY <1>1, <1>2 DEF Merge, FlushAdd, Add, TypeOK
<1>3. CASE \E g \in Routes : RemoveStored(g) \/ Clear(g)
  BY <1>1, <1>3 DEF RemoveStored, Clear, Remove, At, Has, TypeOK
<1>4. CASE RouterClear
  <2>1. router.msg # m
    BY <1>4, UnstoredBefore DEF RouterClear, Safe, ClearJustified, Unstored
  <2> QED
    BY <1>4, <2>1 DEF RouterClear, Remove, TypeOK
<1>5. CASE ~ \/ \E n \in Msgs : Merge(n) \/ FlushAdd(n)
             \/ RouterClear
             \/ \E g \in Routes : RemoveStored(g) \/ Clear(g)
  BY <1>5 DEF Next, Router, Goroutine, Environment, Emit, ProcessBlock,
     FlushTick, FlushRead, FlushEnd, RouteTick, PassEnd, Visit, QueryError,
     QueryReceived, Spawn, RouterDelete, Begin, Increment, Send, SendError,
     ResultSuccess, ResultFailed, Fail, StoreMessage, Delete, Include,
     IncludeLate, Drop
<1> QED
  BY <1>2, <1>3, <1>4, <1>5

(* Only known messages have goroutines or are asked about.                  *)
LEMMA HeldIsKnown ==
  ASSUME TypeOK, Safe, NEW m \in Msgs
  PROVE  /\ \A g \in Routes : Has(g, m) => Known(m) /\ routes[g].obj \in Objs
         /\ Asked(m) => Known(m) /\ router.obj \in Objs
BY DEF Safe, ClearJustified, TypeOK, Has, Asked, At

LEMMA SoleMerge ==
  ASSUME TypeOK, Safe, Causal, Next, ~Crash, NEW m \in Msgs, OneCopy(m), Merge(m)
  PROVE  OneCopy(m)' /\ OneHolder(m)' /\ Flagged(m)'
<1> USE ConstantsAssumption
<1>1. cache[m] = Nil /\ HeightOf[m] < recv[SrcOf[m]]
  <2>1. m \in merging
    BY DEF Merge
  <2>2. ~ (HeightOf[m] >= recv[SrcOf[m]])
    BY <2>1 DEF OneCopy
  <2>3. HeightOf[m] \in Nat /\ recv[SrcOf[m]] \in Nat
    BY DEF TypeOK
  <2> QED
    BY <2>1, <2>2, <2>3 DEF OneCopy
<1>2. ~Asked(m) /\ \A g \in Routes : ~Has(g, m)
  BY <1>1, HeldIsKnown DEF OneCopy
<1>3. UNCHANGED <<routes, router, recv>> /\ m \notin merging'
  BY DEF Merge, blocks
<1>4. ~Asked(m)' /\ \A g \in Routes : ~Has(g, m)'
  BY <1>2, <1>3 DEF Asked, Has, At
<1>5. ~ (HeightOf[m] >= recv'[SrcOf[m]])
  <2>1. HeightOf[m] \in Nat /\ recv[SrcOf[m]] \in Nat
    BY DEF TypeOK
  <2> QED
    BY <1>1, <1>3, <2>1
<1> QED
  BY <1>3, <1>4, <1>5 DEF OneCopy, OneHolder, Flagged

LEMMA OneCopyStep ==
  ASSUME TypeOK, Safe, Causal, Next, ~Crash, NEW m \in Msgs, Unstored(m)', ~Merge(m),
         OneCopy(m)
  PROVE  OneCopy(m)'
<1> USE ConstantsAssumption
<1>1. ASSUME NEW g \in Routes, Has(g, m)' PROVE routes'[g].obj = cache'[m]
  <2>1. \/ Has(g, m) /\ routes'[g].obj \in {routes[g].obj, cache[m]}
        \/ Asked(m) /\ routes'[g].obj = router.obj
    BY <1>1, HolderFrom DEF Has, At, Asked, Spawn
  <2>2. routes'[g].obj = cache[m] /\ Known(m)
    BY <2>1, HeldIsKnown DEF OneCopy
  <2> QED
    BY <2>2, EntryFrom
<1>2. ASSUME Asked(m)' PROVE router'.obj = cache'[m]
  <2>1. router'.obj = cache[m]
    BY <1>2, AskedFrom DEF OneCopy
  <2>2. Known(m)
    <3>1. Asked(m) \/ Visit(m)
      BY <1>2, AskedFrom
    <3>2. CASE Visit(m)
      <4>1. router'.pc = "query"
        BY <1>2 DEF Asked
      <4>2. router \in RouterState
        BY DEF TypeOK
      <4> QED
        BY <3>2, <4>1, <4>2 DEF Visit, RouterState
    <3> QED
      BY <3>1, <3>2, HeldIsKnown
  <2> QED
    BY <2>1, <2>2, EntryFrom
<1>3. SrcOf[m] \in Chains /\ HeightOf[m] \in Nat
  OBVIOUS
<1>4. /\ recv[SrcOf[m]] \in Nat /\ recv'[SrcOf[m]] \in Nat
      /\ recv[SrcOf[m]] <= recv'[SrcOf[m]]
      /\ m \in merging' => \/ m \in merging
                           \/ /\ HeightOf[m] = recv[SrcOf[m]]
                              /\ HeightOf[m] < recv'[SrcOf[m]]
  BY <1>3, MergingFrom, TypeStep DEF Causal, TypeOK
<1>5. ASSUME cache'[m] # Nil PROVE cache[m] # Nil
  <2>1. cache[m] # Nil \/ m \in merging \/ router.batch[m] # NoRec
    BY <1>5, CacheFrom
  <2>2. CASE m \in merging /\ cache[m] = Nil
    <3>1. ~FlushAdd(m)
      BY UnstoredBefore
    <3>2. \A n \in Msgs : n # m /\ (Merge(n) \/ FlushAdd(n)) => cache'[m] = Nil
      BY <2>2 DEF Merge, FlushAdd, Add, TypeOK
    <3>3. CASE ~ \E n \in Msgs : Merge(n) \/ FlushAdd(n)
      <4>1. cache' = cache \/ \E n \in Msgs \cup {router.msg} : Remove(n)
        BY <3>3, WorkingRoute DEF Next, Router, Goroutine, Environment, Emit, ProcessBlock,
           FlushTick, FlushRead, FlushEnd, RouteTick, PassEnd, Visit, QueryError,
           QueryReceived, Spawn, RouterDelete, RouterClear, Begin, Increment, Send,
           SendError, ResultSuccess, ResultFailed, Fail, StoreMessage, RemoveStored,
           Clear, Delete, Include, IncludeLate, Drop, At
      <4>2. cache \in [Msgs -> MaybeObj]
        BY DEF TypeOK
      <4>3. \A n : Remove(n) => cache'[m] = Nil
        BY <2>2, <4>2 DEF Remove
      <4> QED
        BY <1>5, <2>2, <4>1, <4>3
    <3> QED
      BY <1>5, <3>1, <3>2, <3>3
  <2> QED
    BY <2>1, <2>2, UnstoredBefore
<1>6. ASSUME m \in merging' PROVE cache'[m] = Nil
  <2>1. cache[m] = Nil
    <3>1. CASE m \in merging
      BY <3>1 DEF OneCopy
    <3>2. CASE HeightOf[m] = recv[SrcOf[m]]
      <4>1. HeightOf[m] >= recv[SrcOf[m]]
        BY <1>3, <1>4, <3>2
      <4> QED
        BY <4>1 DEF OneCopy
    <3> QED
      BY <1>4, <1>6, <3>1, <3>2
  <2> QED
    BY <1>5, <2>1
<1>7. ASSUME HeightOf[m] >= recv'[SrcOf[m]] PROVE cache'[m] = Nil /\ m \notin merging'
  <2>1. /\ HeightOf[m] >= recv[SrcOf[m]]
        /\ ~ (HeightOf[m] < recv'[SrcOf[m]])
    BY <1>3, <1>4, <1>7
  <2>2. cache[m] = Nil /\ m \notin merging
    BY <2>1 DEF OneCopy
  <2> QED
    BY <1>4, <1>5, <2>1, <2>2
<1> QED
  BY <1>1, <1>2, <1>6, <1>7 DEF OneCopy

(* The router does not ask about a message a goroutine has: between calls of *)
(* Route its IsProcessing is set, and otherwise it is the next to move.     *)
LEMMA OneHolderStep ==
  ASSUME TypeOK, Safe, Causal, Next, ~Crash, Prompt, NEW m \in Msgs, Unstored(m)',
         ~Merge(m), OneCopy(m), OneHolder(m), Flagged(m)
  PROVE  OneHolder(m)'
<1>1. ASSUME NEW g \in Routes, Has(g, m)'
      PROVE  IF \E q \in Routes : Spawn(q) /\ router.msg = m THEN Spawn(g) /\ Asked(m)
             ELSE Has(g, m)
  <2>1. CASE Spawn(g)
    <3>1. Asked(m)
      BY <1>1, <2>1, HolderFrom DEF Has, At, Asked, Spawn
    <3> QED
      BY <2>1, <3>1 DEF Asked
  <2>2. CASE ~Spawn(g)
    <3>1. Has(g, m)
      BY <1>1, <2>2, HolderFrom DEF Has, At
    <3>2. ~ \E q \in Routes : Spawn(q) /\ router.msg = m
      BY <3>1 DEF OneHolder, Asked, Spawn
    <3> QED
      BY <3>1, <3>2
  <2> QED
    BY <2>1, <2>2
<1>2. ASSUME NEW g \in Routes, NEW q \in Routes, Spawn(g), Spawn(q) PROVE g = q
  <2>1. routes'[q].pc = "spawned" /\ routes[q].pc = "idle"
    BY <1>2 DEF Spawn, IdleRoute, TypeOK
  <2> QED
    BY <1>2, <2>1 DEF Spawn, TypeOK
<1>3. \A g, q \in Routes : Has(g, m)' /\ Has(q, m)' => g = q
  BY <1>1, <1>2 DEF OneHolder
<1>4. ASSUME NEW g \in Routes, Has(g, m)', Asked(m)' PROVE FALSE
  <2>1. CASE Asked(m) /\ \A q \in Routes : ~Spawn(q)
    BY <1>1, <1>4, <2>1 DEF OneHolder
  <2>2. CASE Visit(m) /\ ShouldSend(m)
    <3>1. UNCHANGED routes
      BY <2>2 DEF Visit
    <3>2. Has(g, m) /\ ~Busy(g)
      BY <1>4, <3>1 DEF Has, At, Prompt
    <3>3. routes[g].pc \in {"send", "wait"}
      BY <3>2 DEF Busy, Has, At
    <3> QED
      BY <2>2, <3>2, <3>3 DEF Flagged, ShouldSend
  <2> QED
    BY <1>4, <2>1, <2>2, AskedFrom
<1> QED
  BY <1>3, <1>4 DEF OneHolder

LEMMA FlaggedStep ==
  ASSUME TypeOK, Safe, Causal, Next, ~Crash, NEW m \in Msgs, Unstored(m)', ~Merge(m),
         OneCopy(m), OneHolder(m), Flagged(m)
  PROVE  Flagged(m)'
<1> SUFFICES ASSUME NEW g \in Routes, Has(g, m)',
                    routes'[g].pc \in {"incr", "send", "wait"}
             PROVE  heap'[m][cache'[m]].processing
  BY DEF Flagged
<1>1. /\ Has(g, m)
      /\ routes[g].pc \in {"incr", "send", "wait"} \/ Begin(g)
  BY HolderFrom DEF Has, At
<1> DEFINE o == cache[m]
<1>2. o = routes[g].obj /\ o \in Objs /\ cache'[m] = o
  BY <1>1, HeldIsKnown, EntryFrom DEF OneCopy
<1>3. o \in Live(m)'
  BY <1>2 DEF Live
<1>4. CASE Begin(g)
  <2>1. heap' = Swept([heap EXCEPT ![m][o].processing = TRUE])
    BY <1>1, <1>2, <1>4 DEF Begin, Has
  <2>2. heap'[m][o] = [heap EXCEPT ![m][o].processing = TRUE][m][o]
    BY <1>2, <1>3, <2>1 DEF Swept
  <2>3. /\ heap[m] \in [Objs -> RouteMessage] /\ heap[m][o] \in RouteMessage
        /\ DOMAIN heap = Msgs
    BY <1>2 DEF TypeOK
  <2>4. heap'[m][o] = [heap[m][o] EXCEPT !.processing = TRUE]
    BY <1>2, <2>2, <2>3
  <2> QED
    BY <1>2, <2>3, <2>4 DEF RouteMessage
<1>5. CASE routes[g].pc \in {"incr", "send", "wait"}
  <2>1. heap[m][o].processing
    BY <1>1, <1>5 DEF Flagged
  <2>2. ASSUME NEW q \in Routes, Has(q, m) PROVE ~Fail(q)
    BY <1>1, <1>5, <2>2 DEF OneHolder, Fail, At
  <2>3. ~FlushAdd(m)
    BY UnstoredBefore
  <2> QED
    BY <1>2, <1>3, <2>1, <2>2, <2>3, FlagStays DEF Has
<1> QED
  BY <1>1, <1>4, <1>5

LEMMA SoleStep ==
  TypeOK /\ Safe /\ Causal /\ Sole /\ [TimelyNext]_vars => Sole'
<1> SUFFICES ASSUME TypeOK, Safe, Causal, Sole, [TimelyNext]_vars,
                    NEW m \in Msgs, Unstored(m)'
             PROVE  OneCopy(m)' /\ OneHolder(m)' /\ Flagged(m)'
  BY DEF Sole
<1>1. CASE UNCHANGED vars
  BY <1>1 DEF vars, blocks, stores, world, Sole, Unstored, OneCopy, OneHolder,
     Flagged, Has, Asked, At
<1>2. CASE Crash
  <2>1. /\ merging' = {} /\ cache'[m] = Nil
        /\ router' = IdleRouter /\ routes' = [g \in Routes |-> IdleRoute]
    BY <1>2 DEF Crash
  <2>2. ~Asked(m)' /\ \A g \in Routes : ~Has(g, m)'
    BY <2>1 DEF Asked, Has, At, IdleRouter, IdleRoute
  <2> QED
    BY <2>1, <2>2 DEF OneCopy, OneHolder, Flagged
<1>3. CASE Next /\ Prompt /\ ~Crash
  <2>1. OneCopy(m) /\ OneHolder(m) /\ Flagged(m)
    BY <1>3, UnstoredBefore DEF Sole
  <2> QED
    BY <1>3, <2>1, SoleMerge, OneCopyStep, OneHolderStep, FlaggedStep
<1> QED
  BY <1>1, <1>2, <1>3 DEF TimelyNext

LEMMA SoleInit == Init => Sole
BY DEF Init, Sole, OneCopy, OneHolder, Flagged, Has, Asked, At, IdleRouter, IdleRoute

(* IsProcessing (relay.go:353) keeps the router from starting a second       *)
(* attempt at a message that has not been stored, as long as goroutines do    *)
(* their local work before anybody else moves; with any number of            *)
(* goroutines, and across restarts.                                         *)
THEOREM AtMostOneAttempt == TimelySpec => []OneAttempt
<1>1. TypeOK /\ Safe /\ Causal /\ Sole => OneAttempt
  <2> SUFFICES ASSUME Sole, NEW m \in Msgs, Unstored(m)
               PROVE  Cardinality({g \in Routes : Working(g, m)}) <= 1
    BY DEF OneAttempt, Unstored
  <2> DEFINE S == {g \in Routes : Working(g, m)}
  <2>1. \A g, q \in S : g = q
    BY DEF Sole, OneHolder, Working, Has, At
  <2>2. CASE S = {}
    BY <2>2, FS_EmptySet
  <2>3. CASE \E g \in S : TRUE
    <3>1. PICK g \in S : TRUE
      BY <2>3
    <3>2. S = {g}
      BY <2>1, <3>1
    <3>3. Cardinality({g}) = 1
      BY FS_Singleton
    <3> QED
      BY <3>2, <3>3
  <2> QED
    BY <2>2, <2>3
<1>2. [TimelyNext]_vars => [Next]_vars
  BY DEF TimelyNext
<1>3. TimelySpec => [](TypeOK /\ Safe /\ Causal)
  BY <1>2, TypeInit, TypeStep, SafeInit, SafeStep, CausalInit, CausalStep, PTL
     DEF TimelySpec
<1> QED
  BY <1>1, <1>3, SoleInit, SoleStep, PTL DEF TimelySpec

(* What HandleMessageFailed has reset is still reset when it stores the      *)
(* message (relay.go:364-371).                                              *)
Cleared ==
  \A g \in Routes : At(g, "store") => ~heap[routes[g].msg][routes[g].obj].processing

LEMMA RoutableStep ==
  TypeOK /\ StoredIsRoutable /\ Cleared /\ [TimelyNext]_vars
    => StoredIsRoutable' /\ Cleared'
<1> SUFFICES ASSUME TypeOK, StoredIsRoutable, Cleared, [TimelyNext]_vars
             PROVE  StoredIsRoutable' /\ Cleared'
  OBVIOUS
<1>1. CASE UNCHANGED vars
  BY <1>1 DEF vars, stores, StoredIsRoutable, Cleared, At
<1>2. CASE Crash
  <2>1. msgStore' = msgStore /\ \A g \in Routes : ~At(g, "store")'
    BY <1>2 DEF Crash, stores, IdleRoute, At
  <2> QED
    BY <2>1 DEF StoredIsRoutable, Cleared
<1>3. CASE Next /\ Prompt /\ ~Crash
  <2>1. StoredIsRoutable'
    <3>1. ASSUME NEW g \in Routes, NEW ok \in BOOLEAN, StoreMessage(g, ok)
          PROVE  StoredIsRoutable'
      <4>1. ~heap[routes[g].msg][routes[g].obj].processing
        BY <3>1 DEF StoreMessage, Cleared
      <4> QED
        BY <3>1, <4>1 DEF StoreMessage, StoredIsRoutable, TypeOK
    <3>2. CASE \/ \E ok \in BOOLEAN : RouterDelete(ok)
               \/ \E g \in Routes, ok \in BOOLEAN : Delete(g, ok)
      BY <3>2 DEF RouterDelete, Delete, DeleteMessage, StoredIsRoutable, TypeOK
    <3>3. CASE ~ \/ \E g \in Routes, ok \in BOOLEAN : StoreMessage(g, ok)
                 \/ \E ok \in BOOLEAN : RouterDelete(ok)
                 \/ \E g \in Routes, ok \in BOOLEAN : Delete(g, ok)
      <4>1. msgStore' = msgStore
        BY <1>3, <3>3 DEF Next, Router, Goroutine, Environment, Emit, ProcessBlock,
           Merge, FlushTick, FlushRead, FlushAdd, FlushEnd, RouteTick, PassEnd,
           Visit, QueryError, QueryReceived, Spawn, RouterClear, Begin, Increment,
           Send, SendError, ResultSuccess, ResultFailed, Fail, RemoveStored, Clear,
           Include, IncludeLate, Drop, stores
      <4> QED
        BY <4>1 DEF StoredIsRoutable
    <3> QED
      BY <3>1, <3>2, <3>3
  <2>2. ASSUME NEW g \in Routes, At(g, "store")'
        PROVE  ~heap'[routes'[g].msg][routes'[g].obj].processing
    <3>1. Fail(g) \/ (At(g, "store") /\ routes'[g] = routes[g])
      BY <1>3, <2>2, HolderFrom DEF At
    <3>2. Fail(g)
      BY <1>3, <3>1 DEF Prompt, Busy, At
    <3> DEFINE m == routes[g].msg
               o == routes[g].obj
    <3>3. m \in Msgs /\ o \in Objs /\ routes[g] \in RouteState
      BY <3>2, WorkingRoute DEF Fail, At
    <3>4. routes'[g].msg = m /\ routes'[g].obj = o
      BY <3>2, <3>3 DEF Fail, Goto, RouteState, TypeOK
    <3>5. heap' = Swept([heap EXCEPT ![m][o].processing = FALSE])
      BY <3>2 DEF Fail
    <3>6. heap[m] \in [Objs -> RouteMessage] /\ DOMAIN heap = Msgs
      BY <3>3 DEF TypeOK
    <3>7. \/ heap'[m][o] = [heap[m][o] EXCEPT !.processing = FALSE]
          \/ heap'[m][o] = NewRouteMessage
      BY <3>3, <3>5, <3>6 DEF Swept
    <3>8. heap[m][o] \in RouteMessage
      BY <3>3, <3>6
    <3>9. ~heap'[m][o].processing
      BY <3>7, <3>8 DEF RouteMessage, NewRouteMessage
    <3> QED
      BY <3>4, <3>9
  <2> QED
    BY <2>1, <2>2 DEF Cleared
<1> QED
  BY <1>1, <1>2, <1>3 DEF TimelyNext

(* The timing assumption is all that keeps IsProcessing out of the database: *)
(* with it every record can be flushed back into routing (relay.go:45),      *)
(* without it relayer_stranded shows one that cannot.                       *)
THEOREM TimelyIsRoutable == TimelySpec => []StoredIsRoutable
<1>1. [TimelyNext]_vars => [Next]_vars
  BY DEF TimelyNext
<1>2. TimelySpec => []TypeOK
  BY <1>1, TypeInit, TypeStep, PTL DEF TimelySpec
<1>3. Init => StoredIsRoutable /\ Cleared
  BY DEF Init, StoredIsRoutable, Cleared, IdleRoute, At
<1> QED
  BY <1>2, <1>3, RoutableStep, PTL DEF TimelySpec
=============================================================================
