-------------------------- MODULE CommandLineProofs --------------------------
(***************************************************************************)
(* Theorems about CommandLine.tla, on top of those about Config.tla, and    *)
(* about the operators of Stores.tla that it reads the database with: for   *)
(* any number of processes, chains and messages.                            *)
(***************************************************************************)
EXTENDS CommandLine, ConfigProofs, FiniteSetTheorems

(* A process that is not running a command has no memory.                   *)
Memory ==
  \A p \in Proc :
    /\ pc[p] = "idle" => cmd[p] = Idle /\ cfg[p] = Absent
    /\ cfg[p] = Absent \/ cfg[p] \subseteq Chain

Rounds == (1 .. FlushRounds) \cup {NoRec}
Copies == (0 .. FlushRounds - 1) \cup {NoRec}

(* What is stored or cached was found by a listener, and there are copies    *)
(* only while a relayer serves.                                             *)
EngineOK ==
  /\ records \in [Msgs -> Rounds]
  /\ caches \in [Nids(Chain) -> [Msgs -> Copies]]
  /\ detected \subseteq Msgs /\ delivered \subseteq detected
  /\ \A m \in Msgs : records[m] # NoRec => m \in detected
  /\ \A m \in Msgs, n \in Nids(Chain) : caches[n][m] # NoRec => m \in detected
  /\ caches # NoCopies => \E p \in Proc : pc[p] = "serving"

CInv == IInv /\ Memory /\ EngineOK

-----------------------------------------------------------------------------
LEMMA InitCInv == CommandLineInit => CInv
<1> SUFFICES ASSUME CommandLineInit PROVE CInv
  OBVIOUS
<1>1. IInv
  BY InitIInv DEF CommandLineInit
<1>2. Memory
  BY DEF CommandLineInit, Init, Memory
<1>3. EngineOK
  <2>1. caches \in [Nids(Chain) -> [Msgs -> Copies]]
    BY DEF CommandLineInit, NoCopies, Copies
  <2>2. records \in [Msgs -> Rounds]
    BY DEF CommandLineInit, Rounds
  <2>3. \A m \in Msgs, n \in Nids(Chain) : caches[n][m] = NoRec
    BY DEF CommandLineInit, NoCopies
  <2> QED
    BY <2>1, <2>2, <2>3 DEF CommandLineInit, EngineOK
<1> QED
  BY <1>1, <1>2, <1>3 DEF CInv

(* A step of one process leaves the others alone, and what it loads are      *)
(* chains.                                                                  *)
LEMMA StepOfOne ==
  ASSUME IInv, Memory, NEW p \in Proc, Step(p) \/ Serve(p) \/ Kill(p)
  PROVE  /\ \A q \in Proc \ {p} : pc'[q] = pc[q]
         /\ Step(p) => pc[p] # "serving"
         /\ Memory'
<1>1. CASE Quit(p) /\ pc[p] # "idle"
  <2>1. Memory' /\ \A q \in Proc \ {p} : pc'[q] = pc[q]
    BY <1>1 DEF Quit, Goto, IInv, Typed, Memory
  <2>2. Step(p) => pc[p] # "serving"
    BY DEF Step, Open, Load, LoadError, InitConfig, List, Refuse, TryLock,
           AddChain, AddError, DeleteChain, Truncate, Write
  <2> QED
    BY <2>1, <2>2
<1>2. ASSUME NEW l \in Labels \ {"idle"}, Goto(p, l), Step(p) \/ Serve(p),
             cfg' = cfg \/ (\E S \in Loaded(file) : cfg' = [cfg EXCEPT ![p] = S]),
             \A q \in Proc \ {p} : cmd'[q] = cmd[q]
      PROVE  /\ \A q \in Proc \ {p} : pc'[q] = pc[q]
             /\ Step(p) => pc[p] # "serving"
             /\ Memory'
  <2>1. \A S \in Loaded(file) : S = Absent \/ S \subseteq Chain
    BY DEF Loaded, OnePerNid, IInv, Typed, Configuration
  <2>2. /\ \A q \in Proc \ {p} : pc'[q] = pc[q] /\ cfg'[q] = cfg[q]
        /\ pc'[p] # "idle"
        /\ cfg'[p] = Absent \/ cfg'[p] \subseteq Chain
    BY <1>2, <2>1 DEF Goto, IInv, Typed, Memory
  <2>3. Memory'
    BY <1>2, <2>2 DEF Memory
  <2>4. Step(p) => pc[p] # "serving"
    BY DEF Step, Open, Load, LoadError, InitConfig, List, Refuse, TryLock,
           AddChain, AddError, DeleteChain, Truncate, Write
  <2> QED
    BY <2>2, <2>3, <2>4
<1>3. \/ Quit(p) /\ pc[p] # "idle"
      \/ \E l \in Labels \ {"idle"} :
           /\ Goto(p, l) /\ (Step(p) \/ Serve(p))
           /\ cfg' = cfg \/ (\E S \in Loaded(file) : cfg' = [cfg EXCEPT ![p] = S])
           /\ \A q \in Proc \ {p} : cmd'[q] = cmd[q]
  <2>1. ASSUME NEW c \in Command, Open(p, c)
        PROVE  \E l \in Labels \ {"idle"} :
                 /\ Goto(p, l)
                 /\ cfg' = cfg
                 /\ \A q \in Proc \ {p} : cmd'[q] = cmd[q]
    BY <2>1 DEF Open, Labels, IInv, Typed
  <2>2. CASE LoadError(p) \/ InitConfig(p) \/ List(p) \/ Refuse(p)
             \/ AddError(p) \/ Write(p) \/ Kill(p)
    BY <2>2 DEF LoadError, InitConfig, List, Refuse, AddError, Write, Kill
  <2>3. CASE Load(p)
    BY <2>3 DEF Load, Labels, Step
  <2>4. CASE TryLock(p) \/ Serve(p) \/ Truncate(p)
    BY <2>4 DEF TryLock, Serve, Truncate, Labels, Step
  <2>5. CASE AddChain(p) \/ DeleteChain(p)
    <3>1. \/ Quit(p)
          \/ Goto(p, "write") /\ UNCHANGED <<cmd, cfg>>
      BY <2>5 DEF AddChain, DeleteChain
    <3> QED
      BY <2>5, <3>1 DEF AddChain, DeleteChain, Labels, Step
  <2> QED
    BY <2>1, <2>2, <2>3, <2>4, <2>5 DEF Step
<1> QED
  BY <1>1, <1>2, <1>3

LEMMA RoundsAreNotNoRec ==
  /\ \A r \in 0 .. FlushRounds : r # NoRec
  /\ FlushRounds \in Nat \ {0} /\ SrcOf \in [Msgs -> Nids(Chain)]
  BY CommandLineAssumption

(* A flush copies records that are not stale.                               *)
LEMMA FlushIsTyped ==
  ASSUME EngineOK, NEW p \in Proc
  PROVE  /\ Flushed(p, records) \in [Nids(Chain) -> [Msgs -> Copies]]
         /\ \A m \in Msgs, n \in Nids(Chain) :
              Flushed(p, records)[n][m] # NoRec => m \in detected
<1>1. ASSUME NEW n \in Nids(Chain), NEW m \in Msgs,
             m \in FirstActive(Iterate(records, n), Active, MaxFlush)
      PROVE  records[m] # NoRec /\ ~ Stale(m)
  BY <1>1 DEF FirstActive, Active, Iterate, Stored
<1>2. ASSUME NEW n \in Nids(Chain), NEW m \in Msgs,
             m \in FirstActive(Iterate(records, n), Active, MaxFlush)
      PROVE  records[m] \in Copies /\ m \in detected
  <2>1. records[m] \in 1 .. FlushRounds /\ m \in detected
    BY <1>1, <1>2 DEF EngineOK, Rounds
  <2>2. ~ (records[m] >= FlushRounds)
    BY <1>1, <1>2 DEF Stale
  <2>3. FlushRounds \in Nat
    BY RoundsAreNotNoRec
  <2>4. records[m] \in 0 .. FlushRounds - 1
    BY <2>1, <2>2, <2>3
  <2> QED
    BY <2>1, <2>4 DEF Copies
<1>3. ASSUME NEW n \in Nids(Chain), NEW m \in Msgs
      PROVE  /\ Flushed(p, records)[n][m] \in Copies
             /\ Flushed(p, records)[n][m] # NoRec => m \in detected
  <2>1. Flushed(p, records)[n][m] =
          IF n \in Nids(cfg[p])
             /\ m \in FirstActive(Iterate(records, n), Active, MaxFlush)
          THEN records[m] ELSE caches[n][m]
    BY DEF Flushed
  <2>2. caches[n][m] \in Copies /\ (caches[n][m] # NoRec => m \in detected)
    BY DEF EngineOK
  <2> QED
    BY <1>2, <2>1, <2>2
<1>4. Flushed(p, records) \in [Nids(Chain) -> [Msgs -> Copies]]
  <2> DEFINE F == Flushed(p, records)
  <2>1. /\ F = [n \in Nids(Chain) |-> F[n]]
        /\ \A n \in Nids(Chain) : F[n] = [m \in Msgs |-> F[n][m]]
    BY DEF Flushed
  <2>2. \A n \in Nids(Chain) : \A m \in Msgs : F[n][m] \in Copies
    BY <1>3
  <2> HIDE DEF F
  <2>3. \A n \in Nids(Chain) : F[n] \in [Msgs -> Copies]
    BY <2>1, <2>2
  <2>4. F \in [Nids(Chain) -> [Msgs -> Copies]]
    BY <2>1, <2>3
  <2> QED
    BY <2>4 DEF F
<1> QED
  BY <1>3, <1>4

LEMMA CopyTyped ==
  ASSUME EngineOK, NEW n \in Nids(Chain), NEW m \in Msgs, NEW r \in Copies
  PROVE  /\ [caches EXCEPT ![n][m] = r] \in [Nids(Chain) -> [Msgs -> Copies]]
         /\ \A k \in Msgs, i \in Nids(Chain) :
              [caches EXCEPT ![n][m] = r][i][k] =
                IF i = n /\ k = m THEN r ELSE caches[i][k]
  BY DEF EngineOK

LEMMA NoRecIsCopy == NoRec \in Copies /\ NoRec \in Rounds
  BY DEF Copies, Rounds

(* A copy leaves the cache.                                                 *)
LEMMA ClearKeeps ==
  ASSUME EngineOK, NEW p \in Proc, pc[p] = "serving", pc' = pc,
         NEW n \in Nids(Chain), NEW m \in Msgs, m \in detected,
         caches' = [caches EXCEPT ![n][m] = NoRec],
         NEW r \in Rounds, records' = [records EXCEPT ![m] = r],
         detected' = detected,
         delivered' = delivered \/ delivered' = delivered \cup {m}
  PROVE  EngineOK'
<1>1. /\ caches' \in [Nids(Chain) -> [Msgs -> Copies]]
      /\ \A k \in Msgs, i \in Nids(Chain) :
           caches'[i][k] # NoRec => caches[i][k] # NoRec
  BY CopyTyped, NoRecIsCopy
<1>2. /\ records' \in [Msgs -> Rounds]
      /\ \A k \in Msgs \ {m} : records'[k] = records[k]
  BY DEF EngineOK
<1> QED
  BY <1>1, <1>2 DEF EngineOK

LEMMA AttemptKeeps ==
  ASSUME CInv, NEW p \in Proc, NEW n \in Nids(Chain), NEW m \in Msgs,
         Attempt(p, n, m)
  PROVE  EngineOK'
<1>1. /\ pc[p] = "serving" /\ caches[n][m] # NoRec /\ UNCHANGED configVars
      /\ detected' = detected /\ caches' = [caches EXCEPT ![n][m] = NoRec]
      /\ delivered' = delivered \/ delivered' = delivered \cup {m}
  BY DEF Attempt, DropUnknown, Deliver, FailRound, Clear, Cached, Serving
<1>2. m \in detected /\ EngineOK
  BY <1>1 DEF CInv, EngineOK
<1>3. PICK r \in Rounds : records' = [records EXCEPT ![m] = r]
  <2>1. CASE DropUnknown(p, n, m) \/ Deliver(p, n, m)
    BY <2>1, NoRecIsCopy DEF DropUnknown, Deliver, Clear
  <2>2. CASE \E executed \in BOOLEAN : FailRound(p, n, m, executed)
    <3>1. caches[n][m] \in 0 .. FlushRounds - 1
      BY <1>1, <1>2 DEF EngineOK, Copies
    <3>2. caches[n][m] + 1 \in Rounds
      BY <3>1, RoundsAreNotNoRec DEF Rounds
    <3> QED
      BY <2>2, <3>2 DEF FailRound
  <2> QED
    BY <2>1, <2>2 DEF Attempt
<1> QED
  BY <1>1, <1>2, <1>3, ClearKeeps DEF configVars

LEMMA StartIsServe ==
  ASSUME IInv, NEW p \in Proc, Start(p)
  PROVE  Serve(p) /\ pc'[p] = "serving"
  BY DEF Start, Serve, Goto, IInv, Typed

LEMMA EngineKeeps ==
  ASSUME CInv, NEW p \in Proc, Start(p) \/ Relaying(p) \/ Stop(p)
  PROVE  EngineOK'
<1>1. CASE Start(p)
  <2>1. pc'[p] = "serving" /\ UNCHANGED <<detected, delivered>>
    BY <1>1, StartIsServe DEF Start, CInv
  <2>2. CASE records' = [m \in Msgs |-> NoRec] /\ caches' = caches
    <3>1. records' \in [Msgs -> Rounds] /\ \A m \in Msgs : records'[m] = NoRec
      BY <2>2, NoRecIsCopy
    <3> QED
      BY <2>1, <2>2, <3>1 DEF CInv, EngineOK
  <2>3. CASE caches' = Flushed(p, records) /\ records' = records
    BY <2>1, <2>3, FlushIsTyped DEF CInv, EngineOK
  <2> QED
    BY <1>1, <2>2, <2>3 DEF Start
<1>2. CASE FlushTick(p)
  <2>1. /\ pc' = pc /\ pc[p] = "serving" /\ records' = records
        /\ caches' = Flushed(p, records) /\ UNCHANGED <<detected, delivered>>
    BY <1>2 DEF FlushTick, configVars
  <2> QED
    BY <2>1, FlushIsTyped DEF CInv, EngineOK
<1>3. ASSUME NEW m \in Msgs, Detect(p, m) PROVE EngineOK'
  <2>1. /\ pc' = pc /\ pc[p] = "serving"
        /\ UNCHANGED <<records, delivered>> /\ detected' = detected \cup {m}
        /\ caches' = [caches EXCEPT ![SrcOf[m]][m] = 0]
    BY <1>3 DEF Detect, configVars, Serving
  <2>2. SrcOf[m] \in Nids(Chain) /\ 0 \in Copies
    BY RoundsAreNotNoRec DEF Copies
  <2>3. /\ caches' \in [Nids(Chain) -> [Msgs -> Copies]]
        /\ \A k \in Msgs, i \in Nids(Chain) :
             caches'[i][k] # NoRec => k = m \/ caches[i][k] # NoRec
    BY <2>1, <2>2, CopyTyped DEF CInv
  <2> QED
    BY <2>1, <2>3 DEF CInv, EngineOK
<1>4. ASSUME NEW n \in Nids(Chain), NEW m \in Msgs, Attempt(p, n, m)
      PROVE  EngineOK'
  BY <1>4, AttemptKeeps
<1>5. CASE Stop(p)
  <2>1. /\ Kill(p) /\ UNCHANGED <<records, detected, delivered>>
        /\ caches' = IF pc[p] = "serving" THEN NoCopies ELSE caches
    BY <1>5 DEF Stop
  <2>2. CASE pc[p] = "serving"
    <3>1. caches' = NoCopies /\ NoCopies' = NoCopies
      BY <2>1, <2>2 DEF NoCopies
    <3>2. /\ NoCopies \in [Nids(Chain) -> [Msgs -> Copies]]
          /\ \A m \in Msgs, n \in Nids(Chain) : NoCopies[n][m] = NoRec
      BY NoRecIsCopy DEF NoCopies
    <3> QED
      BY <2>1, <3>1, <3>2 DEF CInv, EngineOK
  <2>3. CASE pc[p] # "serving"
    <3>1. \A q \in Proc : pc[q] = "serving" => pc'[q] = "serving"
      BY <2>1, <2>3, StepOfOne DEF CInv
    <3> QED
      BY <2>1, <2>3, <3>1 DEF CInv, EngineOK, NoCopies
  <2> QED
    BY <2>2, <2>3
<1> QED
  BY <1>1, <1>2, <1>3, <1>4, <1>5 DEF Relaying

LEMMA NextIsConfigNext ==
  CommandLineNext => [Next]_configVars
<1> SUFFICES ASSUME NEW p \in Proc,
                    \/ Step(p) /\ UNCHANGED engine
                    \/ Start(p) \/ Relaying(p) \/ Stop(p)
             PROVE  [Next]_configVars
  BY DEF CommandLineNext
<1>1. Relaying(p) => UNCHANGED configVars
  BY DEF Relaying, FlushTick, Detect, Attempt, DropUnknown, Deliver, FailRound
<1> QED
  BY <1>1 DEF Next, Start, Stop

LEMMA NextCInv == CInv /\ [CommandLineNext]_vars => CInv'
<1> SUFFICES ASSUME CInv, [CommandLineNext]_vars PROVE CInv'
  OBVIOUS
<1>1. IInv'
  <2>1. [Next]_configVars
    BY NextIsConfigNext DEF vars
  <2> QED
    BY <2>1, NextKeeps DEF CInv
<1>2. CASE UNCHANGED vars
  BY <1>1, <1>2 DEF vars, configVars, engine, CInv, Memory, EngineOK, NoCopies
<1>3. ASSUME NEW p \in Proc, Step(p), UNCHANGED engine PROVE CInv'
  <2>1. /\ Memory'
        /\ \A q \in Proc : pc[q] = "serving" => pc'[q] = "serving"
    BY <1>3, StepOfOne DEF CInv
  <2>2. EngineOK'
    BY <1>3, <2>1 DEF CInv, EngineOK, engine, NoCopies
  <2> QED
    BY <1>1, <2>1, <2>2 DEF CInv
<1>4. ASSUME NEW p \in Proc, Start(p) \/ Stop(p) PROVE CInv'
  <2>1. Memory'
    BY <1>4, StepOfOne DEF Start, Stop, CInv
  <2>2. EngineOK'
    BY <1>4, EngineKeeps
  <2> QED
    BY <1>1, <2>1, <2>2 DEF CInv
<1>5. ASSUME NEW p \in Proc, Relaying(p) PROVE CInv'
  <2>1. UNCHANGED configVars
    BY <1>5 DEF Relaying, FlushTick, Detect, Attempt, DropUnknown, Deliver,
                FailRound
  <2>2. Memory'
    BY <2>1 DEF configVars, CInv, Memory
  <2>3. EngineOK'
    BY <1>5, EngineKeeps
  <2> QED
    BY <1>1, <2>2, <2>3 DEF CInv
<1> QED
  BY <1>2, <1>3, <1>4, <1>5 DEF CommandLineNext

LEMMA Invariant == CommandLineSpec => []CInv
  BY InitCInv, NextCInv, PTL DEF CommandLineSpec

(* Types; an idle process has no memory, no cache outlives its relayer.      *)
THEOREM CommandLineTypeCorrect == CommandLineSpec => []TypeOK
<1>1. CInv => TypeOK
  BY DEF CInv, IInv, Typed, Memory, EngineOK, Rounds, Copies, TypeOK
<1> QED
  BY <1>1, Invariant, PTL

(* The relayer that serves next to other commands changes nothing about      *)
(* ConfigProofs' theorems.                                                  *)
LEMMA CommandLineIsConfig == CommandLineSpec => Spec
<1>1. CommandLineInit => Init
  BY DEF CommandLineInit
<1>2. [CommandLineNext]_vars => [Next]_configVars
  BY NextIsConfigNext DEF vars
<1> QED
  BY <1>1, <1>2, PTL DEF CommandLineSpec, Spec

THEOREM CommandLineOneChange == CommandLineSpec => ImplementsRegistry
  BY CommandLineIsConfig, OneChangeAtATime, PTL

(* While a relayer serves, its configuration is the file's.                 *)
LEMMA ServesTheFile ==
  ASSUME IInv, NEW p \in Proc, pc[p] = "serving"
  PROVE  file = Absent \/ Nids(cfg[p]) = Nids(file)
<1>1. cfg[p] \in Loaded(file)
  BY DEF IInv, Fresh
<1> QED
  BY <1>1 DEF Loaded, OnePerNid

(* relay.go:247-254: a stored message is dropped for want of its             *)
(* destination only while the file does not have that destination, however  *)
(* many commands have changed the file since the relayer loaded it.         *)
THEOREM DropsOnlyWhatIsNotConfigured == CommandLineSpec => DropsOnlyUnconfigured
<1> DEFINE Excused(m) ==
             \/ m \in delivered'
             \/ \E p \in Proc : cmd[p].op = "fresh" /\ pc[p] = "run"
             \/ file = Absent \/ DstOf[m] \notin Nids(file)
<1>1. ASSUME CInv, [CommandLineNext]_vars, NEW m \in Msgs, Dropped(m)
      PROVE  Excused(m)
  <2>1. ASSUME NEW p \in Proc, Start(p)
        PROVE  Excused(m)
    BY <1>1, <2>1 DEF Start, Serve, Dropped
  <2>2. ASSUME NEW p \in Proc, NEW n \in Nids(Chain), NEW k \in Msgs,
               Attempt(p, n, k)
        PROVE  Excused(m)
    <3>1. CASE DropUnknown(p, n, k)
      <4>1. k = m
        BY <1>1, <3>1 DEF DropUnknown, Clear, Dropped, CInv, EngineOK
      <4>2. DstOf[m] \notin Nids(cfg[p]) /\ pc[p] = "serving"
        BY <3>1, <4>1 DEF DropUnknown, Cached, Serving
      <4> QED
        BY <1>1, <4>2, ServesTheFile DEF CInv
    <3>2. CASE Deliver(p, n, k)
      BY <1>1, <3>2 DEF Deliver, Clear, Dropped, CInv, EngineOK
    <3>3. ASSUME NEW executed \in BOOLEAN, FailRound(p, n, k, executed)
          PROVE  FALSE
      <4>1. caches[n][k] \in 0 .. FlushRounds - 1
        BY <1>1, <3>3 DEF FailRound, Cached, CInv, EngineOK, Copies
      <4>2. caches[n][k] + 1 # NoRec
        BY <4>1, RoundsAreNotNoRec
      <4>3. records' = [records EXCEPT ![k] = caches[n][k] + 1]
        BY <3>3 DEF FailRound
      <4> QED
        BY <1>1, <4>2, <4>3 DEF Dropped, CInv, EngineOK
    <3> QED
      BY <2>2, <3>1, <3>2, <3>3 DEF Attempt
  <2>3. CASE records' = records
    BY <1>1, <2>3 DEF Dropped
  <2>4. \/ records' = records
        \/ \E p \in Proc : Start(p)
        \/ \E p \in Proc, n \in Nids(Chain), k \in Msgs : Attempt(p, n, k)
    BY <1>1 DEF CommandLineNext, vars, engine, Relaying, FlushTick, Detect, Stop
  <2> QED
    BY <2>1, <2>2, <2>3, <2>4
<1>2. CInv /\ [CommandLineNext]_vars =>
        [\A m \in Msgs : Dropped(m) => Excused(m)]_vars
  BY <1>1
<1> QED
  BY <1>2, Invariant, PTL DEF CommandLineSpec, DropsOnlyUnconfigured

-----------------------------------------------------------------------------
(* The operators of Stores.tla: which records a page of `db messages list`  *)
(* shows, and which records a flush takes.                                  *)

(* Multiplying by a page size is monotonic.                                 *)
LEMMA TimesMonotonic ==
  ASSUME NEW p \in Nat, NEW q \in Nat, NEW limit \in Nat, p < q
  PROVE  (p + 1) * limit <= q * limit
<1>1. PICK d \in Nat : q = p + 1 + d
  BY q = p + 1 + (q - p - 1), q - p - 1 \in Nat
<1>2. q * limit = (p + 1) * limit + d * limit
  BY <1>1
<1>3. d * limit \in Nat /\ (p + 1) * limit \in Nat
  OBVIOUS
<1> QED
  BY <1>2, <1>3

(* No record is shown twice: a position is on one page at most              *)
(* (messageStore.go:143-168).                                               *)
THEOREM PagesAreDisjoint ==
  ASSUME NEW i \in Nat, NEW limit \in Nat,
         NEW p \in Nat \ {0}, NEW q \in Nat \ {0},
         OnPage(i, p, limit), OnPage(i, q, limit)
  PROVE  p = q
<1>1. ASSUME NEW a \in Nat \ {0}, NEW b \in Nat \ {0}, a < b,
             OnPage(i, a, limit), OnPage(i, b, limit)
      PROVE  FALSE
  <2>1. i < (a + 1) * limit
    <3>1. a * limit + limit = (a + 1) * limit /\ a * limit \in Nat
      OBVIOUS
    <3> QED
      BY <1>1, <3>1 DEF OnPage, Offset
  <2>2. b * limit <= i
    BY <1>1 DEF OnPage, Offset
  <2>3. (a + 1) * limit <= b * limit
    BY <1>1, TimesMonotonic
  <2> QED
    BY <2>1, <2>2, <2>3
<1> QED
  BY <1>1

(* CalculateOffset (messageStore.go:52) multiplies by the page, not by the   *)
(* pages before it: the second pageful of records, and no other, is on no   *)
(* page at all.                                                             *)
THEOREM SecondPagefulIsSkipped ==
  ASSUME NEW i \in Nat, NEW limit \in Nat \ {0}
  PROVE  (\E page \in Nat \ {0} : OnPage(i, page, limit))
           <=> ~ (limit <= i /\ i < 2 * limit)
<1>1. ASSUME NEW page \in Nat \ {0}, OnPage(i, page, limit),
             limit <= i, i < 2 * limit
      PROVE  FALSE
  <2>1. CASE page = 1
    BY <1>1, <2>1 DEF OnPage, Offset
  <2>2. CASE page > 1
    <3>1. page * limit <= i
      BY <1>1, <2>2 DEF OnPage, Offset
    <3>2. (1 + 1) * limit <= page * limit
      BY <1>1, <2>2, TimesMonotonic
    <3> QED
      BY <1>1, <3>1, <3>2
  <2> QED
    BY <1>1, <2>1, <2>2
<1>2. ASSUME i < limit
      PROVE  OnPage(i, 1, limit)
  BY <1>2 DEF OnPage, Offset
<1>3. ASSUME 2 * limit <= i
      PROVE  \E page \in Nat \ {0} : OnPage(i, page, limit)
  <2>1. PICK p \in Nat : p * limit <= i /\ i < (p + 1) * limit
    BY i \div limit \in Nat
  <2>2. p > 1
    <3>1. SUFFICES ASSUME p <= 1
                   PROVE  FALSE
      BY <2>1
    <3>2. (p + 1) * limit <= 2 * limit
      BY <2>1, <3>1
    <3> QED
      BY <1>3, <2>1, <3>2
  <2>3. p * limit + limit = (p + 1) * limit
    BY <2>1
  <2>4. Offset(p, limit) = p * limit
    BY <2>2 DEF Offset
  <2>5. OnPage(i, p, limit)
    BY <2>1, <2>3, <2>4 DEF OnPage
  <2> QED
    BY <2>2, <2>5
<1> QED
  BY <1>1, <1>2, <1>3

(* `db messages list` shows the pages of the page it lists                   *)
(* (cmd/db.go:85-99): one, however many there are.                          *)
THEOREM OnePageShown ==
  ASSUME NEW limit \in Nat \ {0}, NEW n \in 0 .. limit
  PROVE  TotalPages(n, limit) <= 1
<1>1. CASE n = limit
  <2>1. n \div limit = 1 /\ n % limit = 0
    BY <1>1
  <2> QED
    BY <2>1 DEF TotalPages
<1>2. CASE n < limit
  <2>1. n \div limit = 0
    BY <1>2
  <2> QED
    BY <2>1 DEF TotalPages
<1> QED
  BY <1>1, <1>2

(* The position of a record among the finitely many of a store.             *)
LEMMA PositionIsNat ==
  ASSUME NEW S \in SUBSET Nat, IsFiniteSet(S), NEW m \in S
  PROVE  Position(S, m) \in Nat
<1>1. IsFiniteSet({n \in S : n < m})
  BY FS_Subset
<1> QED
  BY <1>1, FS_CardinalityType DEF Position

LEMMA PositionGrows ==
  ASSUME NEW S \in SUBSET Nat, IsFiniteSet(S),
         NEW m \in S, NEW n \in S, m < n
  PROVE  Position(S, m) < Position(S, n)
<1> DEFINE A == {k \in S : k < m}
           B == {k \in S : k < n}
<1>1. IsFiniteSet(B)
  BY FS_Subset
<1>2. A \in SUBSET B /\ A # B
  <2>1. m \in B /\ m \notin A
    OBVIOUS
  <2>2. \A k \in S : k < m => k < n
    OBVIOUS
  <2> QED
    BY <2>1, <2>2
<1>3. Cardinality(A) <= Cardinality(B) /\ Cardinality(A) # Cardinality(B)
  BY <1>1, <1>2, FS_Subset
<1>4. Cardinality(A) \in Nat /\ Cardinality(B) \in Nat
  BY PositionIsNat DEF Position
<1> QED
  BY <1>3, <1>4 DEF Position

(* relay.go:221-239: a flush takes no more than maxFlushMessage + 1 records *)
(* of a chain, however many are stored.                                     *)
THEOREM FlushIsBounded ==
  ASSUME NEW S \in SUBSET Nat, IsFiniteSet(S), NEW active, NEW max \in Nat
  PROVE  /\ IsFiniteSet(FirstActive(S, active, max))
         /\ Cardinality(FirstActive(S, active, max)) <= max + 1
<1> DEFINE A     == S \cap active
           taken == {m \in A : Position(A, m) <= max}
           pos   == [m \in taken |-> Position(A, m)]
<1>1. A \in SUBSET Nat /\ IsFiniteSet(A)
  BY FS_Subset
<1>2. pos \in Injection(taken, 0 .. max)
  <2>1. \A m \in taken : Position(A, m) \in 0 .. max
    BY <1>1, PositionIsNat
  <2>2. \A m, n \in taken : m # n => Position(A, m) # Position(A, n)
    <3>1. SUFFICES ASSUME NEW m \in taken, NEW n \in taken, m < n
                   PROVE  Position(A, m) < Position(A, n)
      BY <1>1, <2>1
    <3> QED
      BY <1>1, <3>1, PositionGrows
  <2> QED
    BY <2>1, <2>2 DEF Injection, IsInjective
<1>3. IsFiniteSet(0 .. max) /\ Cardinality(0 .. max) = max + 1
  BY FS_Interval
<1>4. IsFiniteSet(taken) /\ Cardinality(taken) <= max + 1
  BY <1>2, <1>3, FS_Injection
<1> QED
  BY <1>4 DEF FirstActive

(* A flush finds the first record that is not stale, whatever stale records *)
(* and records of other NIDs are before it: none of those can starve it.    *)
THEOREM FlushTakesTheFirst ==
  ASSUME NEW S \in SUBSET Nat, NEW active, NEW max \in Nat,
         NEW m \in S \cap active, \A n \in S \cap active : m <= n
  PROVE  m \in FirstActive(S, active, max)
<1> DEFINE A == S \cap active
<1>1. {n \in A : n < m} = {}
  <2>1. ASSUME NEW n \in A, n < m
        PROVE  FALSE
    <3>1. n \in Nat /\ m \in Nat /\ m <= n
      OBVIOUS
    <3> QED
      BY <2>1, <3>1
  <2> QED
    BY <2>1
<1>2. Position(A, m) = 0
  BY <1>1, FS_EmptySet DEF Position
<1> QED
  BY <1>2 DEF FirstActive
=============================================================================
