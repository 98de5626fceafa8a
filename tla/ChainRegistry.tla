--------------------------- MODULE ChainRegistry ---------------------------
(***************************************************************************)
(* What the commands `config init`, `chains add` and `chains delete`        *)
(* promise about the configured chains: each is one step on what is         *)
(* configured at that moment, and only an interrupted command loses more    *)
(* than it was told to remove.  Config.tla implements it.                   *)
(***************************************************************************)
EXTENDS FiniteSets

CONSTANTS
  Chain,    \* chains: records with a name and a nid
  Absent    \* no configuration yet

VARIABLE registry   \* Absent, or the set of configured chains

Names(S) == {c.name : c \in S}
Nids(S)  == {c.nid : c \in S}

(* A map keyed by NID (or by name) that a set of chains is put into keeps    *)
(* one chain for every key.                                                 *)
OnePerNid(S)  == {T \in SUBSET S : /\ Nids(T) = Nids(S)
                                   /\ \A c, d \in T : c.nid = d.nid => c = d}
OnePerName(S) == {T \in SUBSET S : /\ Names(T) = Names(S)
                                   /\ \A c, d \in T : c.name = d.name => c = d}

(* A configuration: a YAML map from names to chains.                        *)
Configuration ==
  {S \in SUBSET Chain : \A c, d \in S : c.name = d.name => c = d}

Init == registry \in {Absent} \cup Configuration

Create == registry = Absent /\ registry' = {}

(* A chain is added beside those whose NID and name it shares nothing with.  *)
Add(c) ==
  /\ registry # Absent
  /\ \E S \in OnePerNid(registry) :
       /\ c.nid \notin Nids(S)
       /\ registry' \in OnePerName({d \in S : d.nid # c.name} \cup {c})

Delete(nid) ==
  /\ registry # Absent
  /\ \E S \in OnePerNid(registry) :
       /\ nid \in Nids(S)
       /\ registry' = {d \in S : d.nid # nid}

(* A command that is killed between the truncation and the write of the     *)
(* file leaves an empty configuration.                                      *)
Forget == registry # Absent /\ registry' = {}

Next == \/ Create \/ Forget
        \/ \E c \in Chain : Add(c)
        \/ \E nid \in Nids(Chain) : Delete(nid)

Spec == Init /\ [][Next]_registry
=============================================================================
