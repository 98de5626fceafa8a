---------------------------- MODULE StartHeight ----------------------------
(***************************************************************************)
(* Where a listener starts: the pure functions of chains/evm/listener.go   *)
(* and chains/icon/listener.go on block heights, which are uint64.         *)
(***************************************************************************)
EXTENDS Naturals, TLAPS

CONSTANTS
  Modulus,                 \* uint64: 2^64
  MaxConcurrency           \* monitorBlockMaxConcurrency: 10

ASSUME WidthAssumption ==
  Modulus \in Nat \ {0} /\ MaxConcurrency \in Nat \ {0}

Height == 0 .. Modulus - 1

(* a - b in uint64. *)
Sub(a, b) == IF a >= b THEN a - b ELSE a + Modulus - b

(* The saved height comes first, then the configured one, and each only     *)
(* when it is below the height that can be queried.                         *)
Prefer(saved, configured, queryable) ==
  IF saved # 0 /\ saved < queryable THEN saved
  ELSE IF configured # 0 /\ configured < queryable THEN configured
  ELSE queryable

EvmStart(saved, configured, latest, finality) ==
  Prefer(saved, configured, Sub(latest, finality))

IconStart(saved, configured, latest) == Prefer(saved, configured, latest)

(* GetConcurrency: no more workers than blocks to synchronise.              *)
Concurrency(configured, start, latest) ==
  LET wanted == IF configured = 0 THEN MaxConcurrency ELSE configured
      toSync == Sub(latest, start)
  IN  IF toSync < 1 THEN 1 ELSE IF toSync < wanted THEN toSync ELSE wanted

(* A restarted listener never starts above a saved height, whatever the     *)
(* configuration says and wherever the chain's head is now, the wrap of     *)
(* latestHeight - FinalityBlock (evm/listener.go:244) included: no block    *)
(* above the saved one is skipped.  This is what Relayer's Starts assumes.  *)
THEOREM StartsAtOrBelowSaved ==
  ASSUME NEW saved \in Height \ {0}, NEW configured \in Height,
         NEW latest \in Height, NEW finality \in Height
  PROVE  /\ EvmStart(saved, configured, latest, finality) <= saved
         /\ IconStart(saved, configured, latest) <= saved
<1>1. ASSUME NEW q \in Nat
      PROVE  Prefer(saved, configured, q) <= saved
  BY <1>1, WidthAssumption DEF Prefer, Height
<1>2. Sub(latest, finality) \in Nat
  BY WidthAssumption DEF Sub, Height
<1>3. latest \in Nat
  BY WidthAssumption DEF Height
<1> QED
  BY <1>1, <1>2, <1>3 DEF EvmStart, IconStart

(* "priority3: latest height" (evm/listener.go:263): without a saved or a    *)
(* configured height an EVM listener starts FinalityBlock below the head,   *)
(* and on a chain that is shorter than that, and only there, at a block the *)
(* chain does not have: the subtraction of line 244 has wrapped.            *)
THEOREM StartsOnChain ==
  ASSUME NEW latest \in Height, NEW finality \in Height
  PROVE  EvmStart(0, 0, latest, finality) <= latest <=> finality <= latest
<1>1. EvmStart(0, 0, latest, finality) = Sub(latest, finality)
  BY DEF EvmStart, Prefer
<1> QED
  BY <1>1, WidthAssumption DEF Sub, Height

(* The batch of an EVM listener has a place for at least one block and at   *)
(* most the configured number of workers (evm/listener.go:222-236).         *)
THEOREM ConcurrencyBounds ==
  ASSUME NEW configured \in Height, NEW start \in Height,
         NEW latest \in Height
  PROVE  /\ Concurrency(configured, start, latest) \in Nat \ {0}
         /\ Concurrency(configured, start, latest) <=
              (IF configured = 0 THEN MaxConcurrency ELSE configured)
<1>1. Sub(latest, start) \in Nat
  BY WidthAssumption DEF Sub, Height
<1>2. (IF configured = 0 THEN MaxConcurrency ELSE configured) \in Nat \ {0}
  BY WidthAssumption DEF Height
<1> QED
  BY <1>1, <1>2 DEF Concurrency
=============================================================================
