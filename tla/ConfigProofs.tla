---------------------------- MODULE ConfigProofs ----------------------------
(***************************************************************************)
(* Theorems about Config.tla: for any number of processes and chains, the   *)
(* commands implement ChainRegistry.tla.                                    *)
(***************************************************************************)
EXTENDS Config, TLAPS

(* The database keeps two commands apart.                                   *)
Alone ==
  \A p, q \in Proc : pc[p] # "idle" /\ pc[q] # "idle" => p = q

(* What a command makes of the chains in a file.                            *)
Added(f, T) ==
  \E c \in Chain : \E S \in OnePerNid(f) :
    /\ c.nid \notin Nids(S)
    /\ T \in OnePerName({d \in S : d.nid # c.name} \cup {c})
Deleted(f, T) ==
  \E nid \in Nids(Chain) : \E S \in OnePerNid(f) :
    /\ nid \in Nids(S)
    /\ T = {d \in S : d.nid # nid}

(* What a process knows agrees with the file.                               *)
Fresh(p) ==
  /\ pc[p] \in {"run", "reload", "serving"} => cfg[p] \in Loaded(file)
  /\ pc[p] = "write" =>
       /\ file # Absent /\ file \cap Bad = {}
       /\ Added(file, out[p]) \/ Deleted(file, out[p])
  /\ pc[p] = "truncated" => file = {}

Typed ==
  /\ file \in {Absent} \cup Configuration
  /\ pc \in [Proc -> Labels]
  /\ cmd \in [Proc -> Command \cup {Idle}]
  /\ DOMAIN cfg = Proc
  /\ out \in [Proc -> Configuration]

IInv == Typed /\ Alone /\ \A p \in Proc : Fresh(p)

-----------------------------------------------------------------------------
LEMMA EmptyIsConfiguration == {} \in Configuration
  BY DEF Configuration

LEMMA AbsentIsNone == ASSUME NEW S \in Configuration PROVE S # Absent
  BY ChainAssumption DEF Configuration

LEMMA CommandFields ==
  ASSUME NEW c \in Command \cup {Idle}
  PROVE  /\ c.op = "add" => c.chain \in Chain
         /\ c.op = "delete" => c.nid \in Nids(Chain)
<1>1. CASE c \in [op : {"init", "list", "start", "fresh"}]
  BY <1>1
<1>2. CASE c \in [op : {"add"}, chain : Chain]
  BY <1>2
<1>3. CASE c \in [op : {"delete"}, nid : Nids(Chain)]
  BY <1>3
<1>4. CASE c = Idle
  BY <1>4 DEF Idle
<1> QED
  BY <1>1, <1>2, <1>3, <1>4 DEF Command

(* What a command writes is a configuration.                                *)
LEMMA AddedIsConfiguration ==
  ASSUME NEW f \in Configuration, NEW S \in OnePerNid(f), NEW c \in Chain,
         NEW T \in OnePerName({d \in S : d.nid # c.name} \cup {c})
  PROVE  T \in Configuration
  BY DEF Configuration, OnePerNid, OnePerName

LEMMA DeletedIsConfiguration ==
  ASSUME NEW f \in Configuration, NEW S \in OnePerNid(f), NEW nid
  PROVE  {d \in S : d.nid # nid} \in Configuration
  BY DEF Configuration, OnePerNid

LEMMA InitIInv == Init => IInv
<1> SUFFICES ASSUME Init PROVE IInv
  OBVIOUS
<1>1. Typed
  BY EmptyIsConfiguration DEF Init, Typed, Labels
<1>2. Alone /\ \A p \in Proc : Fresh(p)
  BY DEF Init, Alone, Fresh
<1> QED
  BY <1>1, <1>2 DEF IInv

(* The process ends, and all are idle.                                      *)
LEMMA QuitKeeps ==
  ASSUME IInv, NEW p \in Proc, Quit(p), pc[p] # "idle",
         file' \in {Absent} \cup Configuration
  PROVE  IInv'
<1>1. Typed'
  BY EmptyIsConfiguration DEF IInv, Typed, Quit, Goto, Labels
<1>2. \A q \in Proc : pc'[q] = "idle"
  BY DEF IInv, Typed, Alone, Quit, Goto
<1> QED
  BY <1>1, <1>2 DEF IInv, Alone, Fresh

(* The process goes on, and the others are idle.                            *)
LEMMA GotoKeeps ==
  ASSUME IInv, NEW p \in Proc, NEW l \in Labels, Goto(p, l),
         \A q \in Proc \ {p} : pc[q] = "idle",
         Typed', Fresh(p)'
  PROVE  IInv'
<1>1. \A q \in Proc \ {p} : pc'[q] = "idle"
  BY DEF IInv, Typed, Goto
<1> QED
  BY <1>1 DEF IInv, Alone, Fresh

LEMMA OthersIdle ==
  ASSUME IInv, NEW p \in Proc, pc[p] # "idle"
  PROVE  \A q \in Proc \ {p} : pc[q] = "idle"
  BY DEF IInv, Alone

LEMMA AddChainKeeps ==
  ASSUME IInv, NEW p \in Proc, AddChain(p)
  PROVE  IInv'
<1>1. pc[p] = "reload" /\ cmd[p].op = "add" /\ file' = file
  BY DEF AddChain
<1>2. cmd[p] \in Command \cup {Idle} /\ cmd[p].chain \in Chain
  BY <1>1, CommandFields DEF IInv, Typed
<1>3. cfg[p] \in Loaded(file)
  BY <1>1 DEF IInv, Fresh
<1> DEFINE c == cmd[p].chain
<1>4. PICK S \in Reloaded(p) :
        IF S = Absent \/ c.nid \in Nids(S) THEN Quit(p)
        ELSE /\ \E T \in OnePerName({d \in S : d.nid # c.name} \cup {c}) :
                  out' = [out EXCEPT ![p] = T]
             /\ Goto(p, "write")
             /\ UNCHANGED <<cmd, cfg>>
  BY DEF AddChain
<1>5. CASE S = Absent \/ c.nid \in Nids(S)
  BY <1>1, <1>4, <1>5, QuitKeeps DEF IInv, Typed
<1>6. CASE ~ (S = Absent \/ c.nid \in Nids(S))
  <2>1. file # Absent /\ file \cap Bad = {} /\ S \in OnePerNid(file)
    BY <1>3, <1>6 DEF Reloaded, Loaded
  <2>2. PICK T \in OnePerName({d \in S : d.nid # c.name} \cup {c}) :
          out' = [out EXCEPT ![p] = T]
    BY <1>4, <1>6
  <2>3. T \in Configuration
    BY <1>2, <2>1, <2>2, AddedIsConfiguration DEF IInv, Typed
  <2>4. Typed' /\ out'[p] = T
    BY <1>1, <1>4, <1>6, <2>2, <2>3 DEF IInv, Typed, Goto, Labels
  <2>5. Added(file, T)
    BY <1>2, <1>6, <2>1, <2>2 DEF Added
  <2>6. pc'[p] = "write"
    BY <1>4, <1>6 DEF IInv, Typed, Goto
  <2>7. Fresh(p)'
    BY <1>1, <2>1, <2>4, <2>5, <2>6 DEF Fresh, Added, Deleted
  <2> QED
    BY <1>1, <1>4, <1>6, <2>4, <2>7, OthersIdle, GotoKeeps DEF Labels
<1> QED
  BY <1>5, <1>6

LEMMA DeleteChainKeeps ==
  ASSUME IInv, NEW p \in Proc, DeleteChain(p)
  PROVE  IInv'
<1>1. pc[p] = "reload" /\ cmd[p].op = "delete" /\ file' = file
  BY DEF DeleteChain
<1>2. cmd[p] \in Command \cup {Idle} /\ cmd[p].nid \in Nids(Chain)
  BY <1>1, CommandFields DEF IInv, Typed
<1>3. cfg[p] \in Loaded(file)
  BY <1>1 DEF IInv, Fresh
<1> DEFINE nid == cmd[p].nid
<1>4. PICK S \in Reloaded(p) :
        IF S = Absent THEN Quit(p)
        ELSE IF nid \notin Nids(S) THEN Quit(p)
        ELSE /\ out' = [out EXCEPT ![p] = {d \in S : d.nid # nid}]
             /\ Goto(p, "write")
             /\ UNCHANGED <<cmd, cfg>>
  BY DEF DeleteChain
<1>5. CASE S = Absent \/ nid \notin Nids(S)
  BY <1>1, <1>4, <1>5, QuitKeeps DEF IInv, Typed
<1>6. CASE ~ (S = Absent \/ nid \notin Nids(S))
  <2> DEFINE T == {d \in S : d.nid # nid}
  <2>1. file # Absent /\ file \cap Bad = {} /\ S \in OnePerNid(file)
    BY <1>3, <1>6 DEF Reloaded, Loaded
  <2>2. T \in Configuration
    BY <2>1, DeletedIsConfiguration DEF IInv, Typed
  <2>3. Typed' /\ out'[p] = T
    BY <1>1, <1>4, <1>6, <2>2 DEF IInv, Typed, Goto, Labels
  <2>4. Deleted(file, T)
    BY <1>2, <1>6, <2>1 DEF Deleted
  <2>5. pc'[p] = "write"
    BY <1>4, <1>6 DEF IInv, Typed, Goto
  <2>6. Fresh(p)'
    BY <1>1, <2>1, <2>3, <2>4, <2>5 DEF Fresh, Added, Deleted
  <2> QED
    BY <1>1, <1>4, <1>6, <2>3, <2>6, OthersIdle, GotoKeeps DEF Labels
<1> QED
  BY <1>5, <1>6

LEMMA StepKeeps ==
  ASSUME IInv, NEW p \in Proc, Step(p) \/ Serve(p) \/ Kill(p)
  PROVE  IInv'
<1>1. ASSUME NEW c \in Command, Open(p, c) PROVE IInv'
  <2>1. Typed'
    BY <1>1 DEF Open, IInv, Typed, Goto, Labels
  <2>2. pc'[p] = "opened"
    BY <1>1 DEF Open, IInv, Typed, Goto
  <2> QED
    BY <1>1, <2>1, <2>2, GotoKeeps DEF Open, Labels, Fresh
<1>2. CASE Load(p)
  <2>1. PICK S \in Loaded(file) : cfg' = [cfg EXCEPT ![p] = S]
    BY <1>2 DEF Load
  <2>2. Typed' /\ cfg'[p] = S
    BY <1>2, <2>1 DEF Load, IInv, Typed, Goto, Labels
  <2>3. pc'[p] = "run" /\ file' = file /\ pc[p] # "idle" /\ Goto(p, "run")
    BY <1>2 DEF Load, IInv, Typed, Goto
  <2>4. Fresh(p)'
    BY <2>1, <2>2, <2>3 DEF Fresh, Loaded
  <2> QED
    BY <2>2, <2>3, <2>4, OthersIdle, GotoKeeps DEF Labels
<1>3. CASE LoadError(p) \/ List(p) \/ Refuse(p) \/ AddError(p) \/ Kill(p)
  BY <1>3, QuitKeeps
  DEF LoadError, List, Refuse, AddError, Kill, IInv, Typed
<1>4. CASE InitConfig(p)
  BY <1>4, EmptyIsConfiguration, QuitKeeps DEF InitConfig, IInv, Typed
<1>5. CASE TryLock(p) \/ Serve(p)
  <2>1. PICK l \in {"reload", "serving"} : Goto(p, l)
    BY <1>5 DEF TryLock, Serve
  <2>2. pc[p] = "run" /\ UNCHANGED <<file, cmd, cfg, out>>
    BY <1>5 DEF TryLock, Serve
  <2>3. Typed' /\ pc'[p] = l
    BY <2>1, <2>2 DEF IInv, Typed, Goto, Labels
  <2>4. Fresh(p)'
    BY <2>1, <2>2, <2>3 DEF IInv, Fresh, Loaded
  <2> QED
    BY <2>1, <2>2, <2>3, <2>4, OthersIdle, GotoKeeps DEF Labels
<1>6. CASE AddChain(p)
  BY <1>6, AddChainKeeps
<1>7. CASE DeleteChain(p)
  BY <1>7, DeleteChainKeeps
<1>8. CASE Truncate(p)
  <2>1. pc[p] = "write" /\ file' = {} /\ Goto(p, "truncated")
    BY <1>8 DEF Truncate
  <2>2. Typed' /\ pc'[p] = "truncated"
    BY <1>8, EmptyIsConfiguration DEF Truncate, IInv, Typed, Goto, Labels
  <2>3. Fresh(p)'
    BY <2>1, <2>2 DEF Fresh
  <2> QED
    BY <2>1, <2>2, <2>3, OthersIdle, GotoKeeps DEF Labels
<1>9. CASE Write(p)
  BY <1>9, QuitKeeps DEF Write, IInv, Typed
<1> QED
  BY <1>1, <1>2, <1>3, <1>4, <1>5, <1>6, <1>7, <1>8, <1>9 DEF Step

LEMMA NextKeeps == IInv /\ [Next]_configVars => IInv'
<1> SUFFICES ASSUME IInv, [Next]_configVars PROVE IInv'
  OBVIOUS
<1>1. CASE UNCHANGED configVars
  BY <1>1 DEF configVars, IInv, Typed, Alone, Fresh, Loaded, Added, Deleted
<1>2. ASSUME NEW p \in Proc, Step(p) \/ Serve(p) \/ Kill(p) PROVE IInv'
  BY <1>2, StepKeeps
<1> QED
  BY <1>1, <1>2 DEF Next

LEMMA Invariance == Spec => []IInv
  BY InitIInv, NextKeeps, PTL DEF Spec

-----------------------------------------------------------------------------
(* The refinement of ChainRegistry.tla.                                     *)
Configured == IF Writing # {} THEN out[CHOOSE p \in Writing : TRUE] ELSE file

LEMMA RegistrySame ==
  /\ \A S : Registry!Names(S) = Names(S) /\ Registry!Nids(S) = Nids(S)
  /\ \A S : Registry!OnePerNid(S) = OnePerNid(S)
  /\ \A S : Registry!OnePerName(S) = OnePerName(S)
  /\ Registry!Configuration = Configuration
  BY DEF Registry!Names, Registry!Nids, Registry!OnePerNid,
         Registry!OnePerName, Registry!Configuration, Names, Nids, OnePerNid,
         OnePerName, Configuration

LEMMA ConfiguredIs ==
  ASSUME IInv
  PROVE  /\ \A p \in Proc : pc[p] = "truncated" => Configured = out[p]
         /\ (\A p \in Proc : pc[p] # "truncated") => Configured = file
<1>1. ASSUME NEW p \in Proc, pc[p] = "truncated"
      PROVE  Writing = {p}
  BY <1>1 DEF IInv, Alone, Writing
<1>2. ASSUME \A p \in Proc : pc[p] # "truncated"
      PROVE  Writing = {}
  BY <1>2 DEF Writing
<1> QED
  BY <1>1, <1>2 DEF Configured

LEMMA OneWrites ==
  ASSUME IInv, NEW p \in Proc, pc[p] \notin {"idle", "truncated"}
  PROVE  Configured = file
<1>1. \A q \in Proc : pc[q] # "truncated"
  BY OthersIdle
<1> QED
  BY <1>1, ConfiguredIs

LEMMA QuitsToFile ==
  ASSUME IInv, NEW p \in Proc, pc[p] # "idle", Quit(p)
  PROVE  Configured' = file'
<1>1. \A q \in Proc : pc'[q] = "idle"
  BY OthersIdle DEF Quit, Goto, IInv, Typed
<1>2. Writing' = {}
  BY <1>1 DEF Writing
<1> QED
  BY <1>2 DEF Configured

LEMMA GoesOnWithFile ==
  ASSUME IInv, NEW p \in Proc, NEW l \in Labels \ {"truncated"}, Goto(p, l),
         \A q \in Proc \ {p} : pc[q] = "idle"
  PROVE  Configured' = file'
<1>1. \A q \in Proc : pc'[q] # "truncated"
  BY DEF Goto, IInv, Typed
<1>2. Writing' = {}
  BY <1>1 DEF Writing
<1> QED
  BY <1>2 DEF Configured

LEMMA StepRegisters ==
  ASSUME IInv, NEW p \in Proc, Step(p) \/ Serve(p) \/ Kill(p)
  PROVE  Registry!Next \/ Configured' = Configured
<1>1. ASSUME NEW c \in Command, Open(p, c) PROVE Configured' = Configured
  <2>1. \A q \in Proc : pc[q] = "idle"
    BY <1>1 DEF Open
  <2>2. Configured = file /\ file' = file
    BY <1>1, <2>1, ConfiguredIs DEF Open
  <2>3. Configured' = file'
    BY <1>1, <2>1, GoesOnWithFile DEF Open, Labels
  <2> QED
    BY <2>2, <2>3
<1>2. CASE Load(p) \/ TryLock(p) \/ Serve(p)
  <2>1. PICK l \in Labels \ {"truncated"} : Goto(p, l)
    BY <1>2 DEF Load, TryLock, Serve, Labels
  <2>2. pc[p] \notin {"idle", "truncated"} /\ file' = file
    BY <1>2 DEF Load, TryLock, Serve
  <2> QED
    BY <2>1, <2>2, OthersIdle, OneWrites, GoesOnWithFile
<1>3. CASE LoadError(p) \/ List(p) \/ Refuse(p) \/ AddError(p)
  <2>1. Quit(p) /\ file' = file /\ pc[p] \notin {"idle", "truncated"}
    BY <1>3 DEF LoadError, List, Refuse, AddError
  <2> QED
    BY <2>1, QuitsToFile, OneWrites
<1>4. CASE InitConfig(p)
  <2>1. Configured = file /\ Configured' = file'
    BY <1>4, QuitsToFile, OneWrites DEF InitConfig
  <2>2. CASE file = Absent
    <3>1. Registry!Create
      BY <1>4, <2>1, <2>2 DEF InitConfig, Registry!Create, Configured
    <3> QED
      BY <3>1 DEF Registry!Next
  <2>3. CASE file # Absent
    BY <1>4, <2>1, <2>3 DEF InitConfig
  <2> QED
    BY <2>2, <2>3
<1>5. CASE AddChain(p) \/ DeleteChain(p)
  <2>1. /\ Quit(p) \/ Goto(p, "write")
        /\ file' = file /\ pc[p] = "reload"
    BY <1>5 DEF AddChain, DeleteChain
  <2> QED
    BY <2>1, OthersIdle, OneWrites, QuitsToFile, GoesOnWithFile DEF Labels
<1>6. CASE Truncate(p)
  <2>1. /\ pc[p] = "write" /\ pc'[p] = "truncated" /\ out' = out
        /\ \A q \in Proc \ {p} : pc[q] = "idle" /\ pc'[q] = "idle"
    BY <1>6, OthersIdle DEF Truncate, Goto, IInv, Typed
  <2>2. Configured = file
    BY <2>1, OneWrites
  <2>3. Writing' = {p}
    BY <2>1 DEF Writing
  <2>4. Configured' = out[p]
    BY <2>1, <2>3 DEF Configured
  <2>5. file # Absent /\ (Added(file, out[p]) \/ Deleted(file, out[p]))
    BY <2>1 DEF IInv, Fresh
  <2>6. CASE Added(file, out[p])
    <3>1. PICK c \in Chain : Registry!Add(c)
      BY <2>2, <2>4, <2>5, <2>6, RegistrySame
      DEF Added, Registry!Add, Configured
    <3> QED
      BY <3>1 DEF Registry!Next
  <2>7. CASE Deleted(file, out[p])
    <3>1. PICK nid \in Nids(Chain) : Registry!Delete(nid)
      BY <2>2, <2>4, <2>5, <2>7, RegistrySame
      DEF Deleted, Registry!Delete, Configured
    <3> QED
      BY <3>1, RegistrySame DEF Registry!Next
  <2> QED
    BY <2>5, <2>6, <2>7
<1>7. CASE Write(p)
  <2>1. Configured = out[p] /\ Configured' = file' /\ file' = out[p]
    BY <1>7, ConfiguredIs, QuitsToFile DEF Write
  <2> QED
    BY <2>1
<1>8. CASE Kill(p)
  <2>1. Configured' = file
    BY <1>8, QuitsToFile DEF Kill
  <2>2. CASE pc[p] = "truncated"
    <3>1. Configured = out[p] /\ file = {} /\ out[p] # Absent
      BY <2>2, ConfiguredIs, AbsentIsNone DEF IInv, Fresh, Typed
    <3>2. Registry!Forget
      BY <2>1, <3>1 DEF Registry!Forget, Configured
    <3> QED
      BY <3>2 DEF Registry!Next
  <2>3. CASE pc[p] # "truncated"
    BY <1>8, <2>1, <2>3, OneWrites DEF Kill
  <2> QED
    BY <2>2, <2>3
<1> QED
  BY <1>1, <1>2, <1>3, <1>4, <1>5, <1>6, <1>7, <1>8 DEF Step

LEMMA NextRegisters ==
  IInv /\ [Next]_configVars => Registry!Next \/ Configured' = Configured
<1> SUFFICES ASSUME IInv, [Next]_configVars
             PROVE  Registry!Next \/ Configured' = Configured
  OBVIOUS
<1>1. CASE UNCHANGED configVars
  BY <1>1 DEF configVars, Configured, Writing
<1>2. ASSUME NEW p \in Proc, Step(p) \/ Serve(p) \/ Kill(p)
      PROVE  Registry!Next \/ Configured' = Configured
  BY <1>2, StepRegisters
<1> QED
  BY <1>1, <1>2 DEF Next

LEMMA InitRegisters == Init => Registry!Init
<1> SUFFICES ASSUME Init PROVE Registry!Init
  OBVIOUS
<1>1. Configured = file
  BY InitIInv, ConfiguredIs DEF Init
<1> QED
  BY <1>1, RegistrySame DEF Init, Registry!Init, Configured

(* The commands of any number of processes, killed at any step, change the  *)
(* configuration one at a time and each by what it finds configured         *)
(* (appstate.go:69-114): the database they open first makes up for the lock *)
(* whose result nobody looks at.                                            *)
THEOREM OneChangeAtATime == Spec => ImplementsRegistry
<1>1. IInv /\ [Next]_configVars =>
        [Registry!Next]_(IF Writing # {} THEN out[CHOOSE p \in Writing : TRUE]
                         ELSE file)
  BY NextRegisters DEF Configured
<1> QED
  BY <1>1, Invariance, InitRegisters, PTL
  DEF Spec, ImplementsRegistry, Registry!Spec

LEMMA StepFrozen ==
  ASSUME IInv, [Next]_configVars, file # Absent, file \cap Bad # {}
  PROVE  file' = file
<1>1. CASE UNCHANGED configVars
  BY <1>1 DEF configVars
<1>2. ASSUME NEW p \in Proc, Step(p) \/ Serve(p) \/ Kill(p)
      PROVE  file' = file
  <2>1. ~ Truncate(p) /\ ~ Write(p)
    BY DEF Truncate, Write, IInv, Fresh
  <2> QED
    BY <1>2, <2>1
    DEF Step, Open, Load, LoadError, InitConfig, List, Refuse, TryLock,
        AddChain, AddError, DeleteChain, Serve, Kill
<1> QED
  BY <1>1, <1>2 DEF Next

(* With a chain in the file whose key store cannot be opened, no command     *)
(* changes the file (appstate.go:84-88 loads it before any change).         *)
THEOREM FrozenByABadChain == Spec => BadChainFreezes
<1>1. IInv /\ [Next]_configVars =>
        [file # Absent /\ file \cap Bad # {} => file' = file]_configVars
  BY StepFrozen
<1> QED
  BY <1>1, Invariance, PTL DEF Spec, BadChainFreezes
=============================================================================
