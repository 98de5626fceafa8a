------------------------------- MODULE Stores -------------------------------
(***************************************************************************)
(* The message store over LevelDB: store/messageStore.go, store/keys.go,    *)
(* lvldb/.  A record's key is the source's NID and the sequence number,     *)
(* joined by "-"; records are iterated in the order of their keys.  A       *)
(* message stands for its key, and is numbered in that order.               *)
(***************************************************************************)
EXTENDS Naturals, FiniteSets

CONSTANTS
  Msgs,      \* messages, numbered in the order of their keys
  SrcOf,     \* a message's source NID
  Longer,    \* pairs <<n, e>> of NIDs of which e begins with n
  NoRec      \* no record under a key

ASSUME MsgsAssumption == Msgs \subseteq Nat

(* The records a store has: a function from Msgs, with NoRec where there is *)
(* none.                                                                    *)
Stored(st) == {m \in Msgs : st[m] # NoRec}

(* NewIterator: the keys that begin with "message-" and the NID, and so     *)
(* those of an NID that extends it.                                         *)
Iterate(st, nid) ==
  {m \in Stored(st) : SrcOf[m] = nid \/ <<nid, SrcOf[m]>> \in Longer}

(* How many records of S an iterator passes before m.                       *)
Position(S, m) == Cardinality({n \in S : n < m})

(* CalculateOffset: of page 1, or no page, 0.                               *)
Offset(page, limit) == IF page <= 1 THEN 0 ELSE page * limit

(* GetMessages without All: Next is called Offset times, and every one of   *)
(* those calls has to find a record.                                        *)
OffsetError(S, page, limit) == Cardinality(S) < Offset(page, limit)
OnPage(i, page, limit) ==
  Offset(page, limit) <= i /\ i < Offset(page, limit) + limit
Page(S, page, limit) == {m \in S : OnPage(Position(S, m), page, limit)}

(* CalculateTotalPages.                                                     *)
TotalPages(total, limit) ==
  total \div limit + (IF total % limit # 0 THEN 1 ELSE 0)

(* A mutant: getActiveMessagesFromStore limits the records it looks at.    *)
FirstThenActive(S, active, max) ==
  {m \in S \cap active : Position(S, m) <= max}

(* getActiveMessagesFromStore: of the records S the active ones, which are  *)
(* not stale, until there are more than max of them.                        *)
FirstActive(S, active, max) ==
  {m \in S \cap active : Position(S \cap active, m) <= max}
=============================================================================
