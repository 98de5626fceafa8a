---------------------------- MODULE CommandLine ----------------------------
(***************************************************************************)
(* The commands of Config.tla together with the database they open: what   *)
(* the relayer that `start` runs does to the message store under a          *)
(* configuration that may have changed since the records were written      *)
(* (cmd/start.go; Start, NewRelayer and flushMessages of relayer/relay.go). *)
(*                                                                         *)
(* The steps of the engine are those of Relayer.tla, in larger pieces: a    *)
(* flush is one step, and DefaultTxRetry attempts, after which a message is *)
(* stored and leaves the cache, are one "round".  Here the caches are apart *)
(* from one another, because the records of one NID may be read as those    *)
(* of another.                                                              *)
(***************************************************************************)
EXTENDS Config, Stores

CONSTANTS
  DstOf,         \* a message's destination NID
  FlushRounds,   \* TotalMaxRetryTx \div DefaultTxRetry
  MaxFlush       \* maxFlushMessage

ASSUME CommandLineAssumption ==
  /\ SrcOf \in [Msgs -> Nids(Chain)]
  /\ FlushRounds \in Nat \ {0} /\ MaxFlush \in Nat
  /\ \A r \in 0 .. FlushRounds : r # NoRec

VARIABLES
  records,    \* the message store: the rounds of a message, or NoRec
  caches,     \* per NID, the rounds of the copies in its MessageCache
  detected,   \* messages a listener has found
  delivered   \* messages their destination has received

engine == <<records, caches, detected, delivered>>
vars   == <<configVars, engine>>

NoCopies == [n \in Nids(Chain) |-> [m \in Msgs |-> NoRec]]

CommandLineInit ==
  /\ Init
  /\ records = [m \in Msgs |-> NoRec]
  /\ caches = NoCopies
  /\ detected = {} /\ delivered = {}

Serving(p, nid) == pc[p] = "serving" /\ nid \in Nids(cfg[p])

(* A mutant: one attempt more before a message is stale.                   *)
StaleLater(m) == records[m] # NoRec /\ records[m] > FlushRounds

(* IsStale of what a record holds.                                          *)
Stale(m) == records[m] # NoRec /\ records[m] >= FlushRounds

Active == {m \in Msgs : ~Stale(m)}

(* A mutant: the stale records count against maxFlushMessage.              *)
FlushedStaleToo(p, st) ==
  [n \in Nids(Chain) |->
    LET taken == FirstThenActive(Iterate(st, n), Active, MaxFlush)
    IN  [m \in Msgs |-> IF n \in Nids(cfg[p]) /\ m \in taken
                        THEN st[m] ELSE caches[n][m]]]

(* flushMessages: the copies of the active records replace what is in the   *)
(* cache of the chain they were read for.                                   *)
Flushed(p, st) ==
  [n \in Nids(Chain) |->
    LET taken == FirstActive(Iterate(st, n), Active, MaxFlush)
    IN  [m \in Msgs |-> IF n \in Nids(cfg[p]) /\ m \in taken
                        THEN st[m] ELSE caches[n][m]]]

(* start --fresh empties the database; start flushes it once.               *)
Start(p) ==
  /\ Serve(p)
  /\ IF cmd[p].op = "fresh"
       THEN records' = [m \in Msgs |-> NoRec] /\ UNCHANGED caches
       ELSE caches' = Flushed(p, records) /\ UNCHANGED records
  /\ UNCHANGED <<detected, delivered>>

FlushTick(p) ==
  /\ pc[p] = "serving"
  /\ caches' = Flushed(p, records)
  /\ UNCHANGED <<configVars, records, detected, delivered>>

(* The listener of its source finds a message: MessageCache.Add.            *)
Detect(p, m) ==
  /\ m \notin detected /\ Serving(p, SrcOf[m])
  /\ detected' = detected \cup {m}
  /\ caches' = [caches EXCEPT ![SrcOf[m]][m] = 0]
  /\ UNCHANGED <<configVars, records, delivered>>

(* ClearMessages: from the cache of the chain it was found under, and from  *)
(* the store.                                                               *)
Clear(n, m) ==
  /\ caches' = [caches EXCEPT ![n][m] = NoRec]
  /\ records' = [records EXCEPT ![m] = NoRec]

Cached(p, n, m) == Serving(p, n) /\ caches[n][m] # NoRec

(* A mutant: a message whose source is not the chain it is cached under is  *)
(* dropped.                                                                 *)
DropForeign(p, n, m) ==
  /\ Cached(p, n, m) /\ (SrcOf[m] # n \/ DstOf[m] \notin Nids(cfg[p]))
  /\ Clear(n, m)
  /\ UNCHANGED <<configVars, detected, delivered>>

(* processMessages: no chain of the destination's NID is configured.        *)
DropUnknown(p, n, m) ==
  /\ Cached(p, n, m) /\ DstOf[m] \notin Nids(cfg[p])
  /\ Clear(n, m)
  /\ UNCHANGED <<configVars, detected, delivered>>

(* MessageReceived, or the attempt that succeeds.                           *)
Deliver(p, n, m) ==
  /\ Cached(p, n, m) /\ DstOf[m] \in Nids(cfg[p])
  /\ delivered' = delivered \cup {m}
  /\ Clear(n, m)
  /\ UNCHANGED <<configVars, detected>>

(* DefaultTxRetry attempts fail, or seem to (HandleMessageFailed): the copy *)
(* is stored and leaves the cache.                                          *)
FailRound(p, n, m, executed) ==
  /\ Cached(p, n, m) /\ DstOf[m] \in Nids(cfg[p])
  /\ m \notin delivered
  /\ records' = [records EXCEPT ![m] = caches[n][m] + 1]
  /\ caches' = [caches EXCEPT ![n][m] = NoRec]
  /\ delivered' = IF executed THEN delivered \cup {m} ELSE delivered
  /\ UNCHANGED <<configVars, detected>>

Attempt(p, n, m) ==
  \/ DropUnknown(p, n, m) \/ Deliver(p, n, m)
  \/ \E executed \in BOOLEAN : FailRound(p, n, m, executed)

(* The caches are gone with the process.                                    *)
Stop(p) ==
  /\ Kill(p)
  /\ caches' = IF pc[p] = "serving" THEN NoCopies ELSE caches
  /\ UNCHANGED <<records, detected, delivered>>

Relaying(p) ==
  \/ FlushTick(p)
  \/ \E m \in Msgs : Detect(p, m)
  \/ \E n \in Nids(Chain), m \in Msgs : Attempt(p, n, m)

CommandLineNext ==
  \E p \in Proc : \/ Step(p) /\ UNCHANGED engine
                  \/ Start(p) \/ Relaying(p) \/ Stop(p)

(* A relayer that serves goes on flushing, and every round of attempts ends *)
(* before the next flush gets in its way; nobody has to run a command.      *)
Fairness ==
  \A p \in Proc :
    /\ WF_vars(FlushTick(p))
    /\ \A n \in Nids(Chain), m \in Msgs : WF_vars(Attempt(p, n, m))

CommandLineSpec == CommandLineInit /\ [][CommandLineNext]_vars /\ Fairness

-----------------------------------------------------------------------------
(* Types.  An idle process has no memory, and no cache outlives its relayer. *)
TypeOK ==
  /\ file \in {Absent} \cup Configuration
  /\ pc \in [Proc -> Labels]
  /\ cmd \in [Proc -> Command \cup {Idle}]
  /\ \A p \in Proc : pc[p] = "idle" => cmd[p] = Idle /\ cfg[p] = Absent
  /\ \A p \in Proc : /\ cfg[p] = Absent \/ cfg[p] \subseteq Chain
                     /\ out[p] \in Configuration
  /\ records \in [Msgs -> (1 .. FlushRounds) \cup {NoRec}]
  /\ caches \in [Nids(Chain) -> [Msgs -> (0 .. FlushRounds - 1) \cup {NoRec}]]
  /\ detected \subseteq Msgs /\ delivered \subseteq detected
  /\ caches # NoCopies => \E p \in Proc : pc[p] = "serving"

(* A stored message is given up for want of its destination only while the  *)
(* file has no chain of that NID: what a relayer deletes it by is a copy of *)
(* the file it loaded when it started, and other commands may have run.     *)
Dropped(m) == records[m] # NoRec /\ records'[m] = NoRec
DropsOnlyUnconfigured ==
  [][\A m \in Msgs : Dropped(m) =>
       \/ m \in delivered'
       \/ \E p \in Proc : cmd[p].op = "fresh" /\ pc[p] = "run"
       \/ file = Absent \/ DstOf[m] \notin Nids(file)]_vars

(* A relayer that keeps serving a chain settles every record of it: the     *)
(* record is deleted or its message has had all its rounds, however many    *)
(* records are before it, though one flush takes only maxFlushMessage + 1   *)
(* and records of other NIDs may be among them.                             *)
EventuallySettled ==
  \A m \in Msgs :
    <>[](\E p \in Proc : Serving(p, SrcOf[m]))
      => <>[](records[m] = NoRec \/ Stale(m))
=============================================================================
