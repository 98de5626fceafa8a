---------------------------- MODULE RelayerLive ----------------------------
(***************************************************************************)
(* What the relay engine eventually does, under the fairness its           *)
(* scheduling justifies and a timing assumption that the code relies on    *)
(* and does not enforce.                                                   *)
(***************************************************************************)
EXTENDS Relayer

(* A goroutine between two network calls: all it has left to do is to set   *)
(* fields and to write to the local database.                               *)
Busy(g) == routes[g].pc \notin {"idle", "send", "wait"}

(* The timing assumption: local work takes no time next to a network call   *)
(* or a ticker, so whoever has some is the next to move.  Without it a       *)
(* goroutine that sets IsProcessing between another's HandleMessageFailed    *)
(* and StoreMessage strands the message: StoredIsRoutable.                   *)
Prompt == \A g \in Routes : Busy(g) => routes'[g] # routes[g]
Quiet == \A g \in Routes : ~Busy(g)
TimelyNext == Next /\ Prompt

(* Goroutines are scheduled fairly.  A Go select picks at random among the  *)
(* tickers that are ready, so neither starves the other.  The network and   *)
(* the destination are not down for ever: among infinitely many queries,    *)
(* submissions and pending transactions some succeed.                       *)
Answered == QueryReceived \/ \E g \in Routes : Spawn(g)
Fairness ==
  /\ \A c \in Chains : WF_vars(Emit(c)) /\ WF_vars(ProcessBlock(c, TRUE))
  /\ \A m \in Msgs :
       /\ WF_vars(Merge(m))
       /\ SF_vars(\E g \in Routes : routes[g].msg = m /\ Send(g))
       /\ SF_vars(\E g \in Routes : routes[g].msg = m /\ Include(g))
  /\ \A g \in Routes : WF_vars(Goroutine(g))
  /\ SF_vars(Quiet /\ FlushTick) /\ SF_vars(Quiet /\ RouteTick)
  /\ SF_vars(Quiet /\ Answered) /\ WF_vars(Quiet /\ Router)

TimelySpec == Init /\ [][TimelyNext]_vars /\ Fairness

(* A message the relayer has seen is delivered, or has used up its          *)
(* TotalMaxRetryTx attempts and rests in the database as stale: no flag,    *)
(* overwritten copy or early return of the callback (relay.go:323, 344)     *)
(* leaves it behind.                                                        *)
Settled(m) == \/ m \in delivered
              \/ msgStore[m] # NoRec /\ IsStale(msgStore[m])
EventuallySettled ==
  \A m \in Msgs : (Known(m) /\ HeightOf[m] < recv[SrcOf[m]]) ~> Settled(m)

(* A delivered message eventually leaves the cache and the database, even   *)
(* when the callback that learned of the delivery returned early or a flush *)
(* brought a copy back; only a stale record stays, for the operator. One    *)
(* for an unknown destination leaves as well.                               *)
Gone(m) == /\ cache[m] = Nil
           /\ msgStore[m] = NoRec \/ IsStale(msgStore[m])
EventuallyCleared ==
  \A m \in Msgs : (m \in delivered \/ (~Known(m) /\ cache[m] # Nil)) ~> Gone(m)

(* Until its first HandleMessageFailed stores it, a message has one copy,   *)
(* and IsProcessing (relay.go:353) keeps the router from sending it again:  *)
(* at most one goroutine is between taking the message and its result.      *)
(* This presumes Prompt (a goroutine that was started sets the flag before   *)
(* the router's next pass), listeners that hand a block over once per life, *)
(* and one callback per call; where these fail several calls are out at     *)
(* once, as in Routing.tla.                                                 *)
Working(g, m) ==
  routes[g].msg = m /\ routes[g].pc \in {"spawned", "incr", "send", "wait"}
OneAttempt ==
  \A m \in Msgs : msgStore[m] = NoRec /\ m \notin delivered =>
    Cardinality({g \in Routes : Working(g, m)}) <= 1
=============================================================================
