------------------------------- MODULE Config -------------------------------
(***************************************************************************)
(* The commands of the program as far as the configuration file goes:       *)
(* cmd/root.go, cmd/appstate.go, cmd/config.go, cmd/chains.go, cmd/start.go *)
(* and relayer/chain.go.  Several processes run commands on one home        *)
(* directory; each opens the database first, loads the file, does its work, *)
(* and may be killed between any two steps.                                 *)
(*                                                                         *)
(* config.lock has no variable: the result of TryLock is discarded          *)
(* (appstate.go:72), so holding it or not makes no difference to a command. *)
(* What keeps two commands apart is the database, which LevelDB opens in    *)
(* one process at a time.                                                   *)
(***************************************************************************)
EXTENDS FiniteSets

CONSTANTS
  Proc,     \* processes
  Chain,    \* chains that can be configured: [name, nid] records
  Bad,      \* chains whose key store cannot be opened
  Absent    \* no file; and, in a process, no configuration

ASSUME ChainAssumption ==
  /\ \A c \in Chain : DOMAIN c = {"name", "nid"}
  /\ Bad \subseteq Chain
  /\ \A S \in SUBSET Chain : S # Absent

VARIABLES
  file,     \* config.yaml: Absent, or the chains in it
  pc, cmd,  \* per process: where it is, and the command it runs
  cfg,      \* per process: appState.config
  out       \* per process: what performConfigLockingOperation will write

configVars == <<file, pc, cmd, cfg, out>>

Names(S) == {c.name : c \in S}
Nids(S)  == {c.nid : c \in S}

(* The chains that survive in a map keyed by NID, or by name, and filled in  *)
(* the random order in which Go ranges over a map.                          *)
OnePerNid(S)  == {T \in SUBSET S : /\ Nids(T) = Nids(S)
                                   /\ \A c, d \in T : c.nid = d.nid => c = d}
OnePerName(S) == {T \in SUBSET S : /\ Names(T) = Names(S)
                                   /\ \A c, d \in T : c.name = d.name => c = d}

(* The YAML of a file: a map from names to chains.                          *)
Configuration ==
  {S \in SUBSET Chain : \A c, d \in S : c.name = d.name => c = d}

Idle    == [op |-> "none"]
Command == [op : {"init", "list", "start", "fresh"}]
           \cup [op : {"add"}, chain : Chain]
           \cup [op : {"delete"}, nid : Nids(Chain)]

Init ==
  /\ file \in {Absent} \cup Configuration
  /\ pc = [p \in Proc |-> "idle"]
  /\ cmd = [p \in Proc |-> Idle]
  /\ cfg = [p \in Proc |-> Absent]
  /\ out = [p \in Proc |-> {}]

Goto(p, l) == pc' = [pc EXCEPT ![p] = l]

(* The process ends, by returning, by an error or by a nil pointer: its      *)
(* database is closed, its memory gone.                                     *)
Quit(p) ==
  /\ Goto(p, "idle")
  /\ cmd' = [cmd EXCEPT ![p] = Idle]
  /\ cfg' = [cfg EXCEPT ![p] = Absent]
  /\ out' = [out EXCEPT ![p] = {}]

(* A mutant: the database is opened whoever else has it open.              *)
OpenShared(p, c) ==
  /\ pc[p] = "idle"
  /\ Goto(p, "opened")
  /\ cmd' = [cmd EXCEPT ![p] = c]
  /\ UNCHANGED <<file, cfg, out>>

(* PersistentPreRunE: the process opens the database, or fails because      *)
(* another one has it open.                                                 *)
Open(p, c) ==
  /\ \A q \in Proc : pc[q] = "idle"
  /\ Goto(p, "opened")
  /\ cmd' = [cmd EXCEPT ![p] = c]
  /\ UNCHANGED <<file, cfg, out>>

(* A mutant: RuntimeConfig does not initialize the providers.              *)
LoadedUnchecked(f) == IF f = Absent THEN {Absent} ELSE OnePerNid(f)

(* loadConfigFile: no configuration when there is no file; an empty file    *)
(* is a configuration of no chains; otherwise RuntimeConfig makes a         *)
(* provider of every chain and keys them by NID.  It fails on a key store   *)
(* it cannot open.                                                          *)
Loaded(f) == IF f = Absent THEN {Absent}
             ELSE IF f \cap Bad # {} THEN {} ELSE OnePerNid(f)

Load(p) ==
  /\ pc[p] = "opened"
  /\ \E S \in Loaded(file) : cfg' = [cfg EXCEPT ![p] = S]
  /\ Goto(p, "run")
  /\ UNCHANGED <<file, cmd, out>>

(* A chain's node cannot be reached, or its key store not be opened: both   *)
(* loads of a command fail, whatever the command.                           *)
LoadError(p) ==
  /\ pc[p] \in {"opened", "reload"}
  /\ file \notin {Absent, {}}
  /\ Quit(p)
  /\ UNCHANGED file

(* config init: os.Create and the write of the default configuration, which *)
(* has no chains either.                                                    *)
InitConfig(p) ==
  /\ pc[p] = "run" /\ cmd[p].op = "init"
  /\ file' = IF file = Absent THEN {} ELSE file
  /\ Quit(p)

(* chains list, config show and the db commands: they write nothing here,   *)
(* and dereference nil without a configuration.                             *)
List(p) ==
  /\ pc[p] = "run" /\ cmd[p].op = "list"
  /\ Quit(p)
  /\ UNCHANGED file

(* start: it serves until it is stopped.                                    *)
Serve(p) ==
  /\ pc[p] = "run" /\ cmd[p].op \in {"start", "fresh"} /\ cfg[p] # Absent
  /\ Goto(p, "serving")
  /\ UNCHANGED <<file, cmd, cfg, out>>

(* chains add and start without a configuration.                            *)
Refuse(p) ==
  /\ pc[p] = "run" /\ cmd[p].op \in {"add", "start", "fresh"}
  /\ cfg[p] = Absent
  /\ Quit(p)
  /\ UNCHANGED file

(* performConfigLockingOperation: TryLock, ...                              *)
TryLock(p) ==
  /\ pc[p] = "run"
  /\ \/ cmd[p].op = "add" /\ cfg[p] # Absent
     \/ cmd[p].op = "delete"
  /\ Goto(p, "reload")
  /\ UNCHANGED <<file, cmd, cfg, out>>

(* ... the file is loaded again (when there is none, what was loaded stays) *)
Reloaded(p) == IF file = Absent THEN {cfg[p]} ELSE Loaded(file)

(* ... and the operation is performed.  AddChain puts the chain under its    *)
(* name into a map keyed by NID; Wrapped makes it a map keyed by name.      *)
AddChain(p) ==
  /\ pc[p] = "reload" /\ cmd[p].op = "add"
  /\ LET c == cmd[p].chain IN
     \E S \in Reloaded(p) :
       IF S = Absent \/ c.nid \in Nids(S) THEN Quit(p)
       ELSE /\ \E T \in OnePerName({d \in S : d.nid # c.name} \cup {c}) :
                 out' = [out EXCEPT ![p] = T]
            /\ Goto(p, "write")
            /\ UNCHANGED <<cmd, cfg>>
  /\ UNCHANGED file

(* addChainFromFile: no such file, or no provider from it.                  *)
AddError(p) ==
  /\ pc[p] = "reload" /\ cmd[p].op = "add"
  /\ Quit(p)
  /\ UNCHANGED file

(* chains delete: its argument is looked up among the keys of the map, the  *)
(* NIDs, and not the names the help speaks of.                              *)
DeleteChain(p) ==
  /\ pc[p] = "reload" /\ cmd[p].op = "delete"
  /\ LET nid == cmd[p].nid IN
     \E S \in Reloaded(p) :
       IF S = Absent THEN Quit(p)
       ELSE IF nid \notin Nids(S) THEN Quit(p)
       ELSE /\ out' = [out EXCEPT ![p] = {d \in S : d.nid # nid}]
            /\ Goto(p, "write")
            /\ UNCHANGED <<cmd, cfg>>
  /\ UNCHANGED file

(* os.WriteFile truncates the file, ...                                     *)
Truncate(p) ==
  /\ pc[p] = "write"
  /\ file' = {}
  /\ Goto(p, "truncated")
  /\ UNCHANGED <<cmd, cfg, out>>

(* ... and writes it.  The command returns.                                 *)
Write(p) ==
  /\ pc[p] = "truncated"
  /\ file' = out[p]
  /\ Quit(p)

(* The process is killed; a serving one is stopped no other way.            *)
Kill(p) ==
  /\ pc[p] # "idle"
  /\ Quit(p)
  /\ UNCHANGED file

(* A step of a command that is not the start of the relayer.                *)
Step(p) ==
  \/ \E c \in Command : Open(p, c)
  \/ Load(p) \/ LoadError(p)
  \/ InitConfig(p) \/ List(p) \/ Refuse(p)
  \/ TryLock(p) \/ AddChain(p) \/ AddError(p) \/ DeleteChain(p)
  \/ Truncate(p) \/ Write(p)

Next == \E p \in Proc : Step(p) \/ Serve(p) \/ Kill(p)

Spec == Init /\ [][Next]_configVars

-----------------------------------------------------------------------------
Labels == {"idle", "opened", "run", "reload", "write", "truncated", "serving"}

(* The commands change the configuration as ChainRegistry promises: one     *)
(* change at a time, made to what is configured at that moment, although    *)
(* a command works on a copy it read before and the lock that should        *)
(* protect the file does not.  The change takes place when the file is      *)
(* truncated: from then on it either becomes visible or all is lost.        *)
Writing == {p \in Proc : pc[p] = "truncated"}
Registry ==
  INSTANCE ChainRegistry WITH
    registry <- IF Writing # {} THEN out[CHOOSE p \in Writing : TRUE] ELSE file
ImplementsRegistry == Registry!Spec

(* A chain whose key store cannot be opened is accepted by `chains add`,     *)
(* and no command gets past it from then on: the configuration is frozen,   *)
(* the deletion of that chain included.                                     *)
BadChainFreezes ==
  [][file # Absent /\ file \cap Bad # {} => file' = file]_configVars
=============================================================================
