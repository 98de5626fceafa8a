---------------------------- MODULE IconListener ----------------------------
(***************************************************************************)
(* The block listener of an ICON chain: IconProvider.Listener              *)
(* (chains/icon/listener.go) over the monitor of chains/icon/client.go.    *)
(*                                                                         *)
(* Goroutines: the loop of Listener (main), the monitors that its           *)
(* reconnections start (mon) and one handleBTPBlockRequest per block of a   *)
(* batch (batch).  They share btpBlockNotifCh, btpBlockRespCh, reconnectCh  *)
(* and processedheight.                                                    *)
(*                                                                         *)
(* A notification of height h reports the events of block h - 1.            *)
(***************************************************************************)
EXTENDS StartHeight, Sequences, FiniteSets

CONSTANTS
  StartAt,          \* StartHeight of the configuration
  Cap,              \* the capacity of the channels: 100
  Retries,          \* maxRetires: 5
  Active,           \* the heights whose notification has events
  Monitors,         \* bound: monitors alive at once
  FirstHead, LastHead, \* bounds: the chain's height
  MaxBreaks,        \* bound: connections that break or cannot be had
  MaxRestarts,
  None              \* nil

(* The chain has the blocks of the contract's deployment, so that its head  *)
(* is above 0.                                                              *)
ASSUME ListenerAssumption ==
  /\ {StartAt, FirstHead, LastHead} \subseteq Height
  /\ 0 < FirstHead /\ FirstHead <= LastHead /\ LastHead + 1 < Modulus
  /\ {Retries, MaxBreaks, MaxRestarts} \subseteq Nat /\ Cap \in Nat \ {0}
  /\ Active \subseteq Height /\ None \notin Nat

VARIABLES
  head,       \* the chain's height
  saved,      \* the height in the relayer's database
  main,       \* where the loop is, and the element it has in its hand
  processed,  \* processedheight
  token,      \* reconnectCh holds a token
  notif,      \* btpBlockNotifCh
  resp,       \* btpBlockRespCh
  batch,      \* requestCh: per height its btpBlockRequest
  mon,        \* the monitors
  first,      \* history: where this life started
  sent,       \* history: what this life handed over
  handed,     \* history: the heights of every life
  gaveUp,     \* history: the head when a request was last given up
  breaks, restarts

feed  == <<first, sent, handed>>
world == <<head, saved, restarts>>
vars == <<main, processed, token, notif, resp, batch, mon, feed, gaveUp,
          breaks, world>>

Response(h, logs) == [height |-> h, logs |-> logs]
Request(retry) == [st |-> "asking", retry |-> retry, logs |-> {}]
NoBatch == [h \in {} |-> Request(0)]
Off == [pc |-> "off", next |-> 0, canceled |-> FALSE]
Loop(pc) == [pc |-> pc, got |-> None]

Init ==
  /\ main = Loop("down") /\ processed = 0 /\ token = FALSE
  /\ notif = <<>> /\ resp = <<>> /\ batch = NoBatch
  /\ mon = [g \in Monitors |-> Off]
  /\ first = 0 /\ sent = <<>>
  /\ head = FirstHead /\ saved = 0 /\ restarts = 0
  /\ handed = {} /\ gaveUp = 0 /\ breaks = 0

-----------------------------------------------------------------------------
(* The loop. *)

Goto(pc) == main' = Loop(pc)

(* StartFromHeight, and the first reconnect: the channels are still empty.  *)
Start ==
  /\ main.pc = "down"
  /\ processed' = IconStart(saved, StartAt, head)
  /\ first' = processed' - 1
  /\ token' = TRUE
  /\ Goto("select")
  /\ UNCHANGED <<notif, resp, batch, mon, sent, handed, gaveUp, breaks, world>>

StartFails ==
  /\ main.pc = "down"
  /\ Goto("returned")
  /\ UNCHANGED <<processed, token, notif, resp, batch, mon, feed, gaveUp,
                 breaks, world>>

(* reconnectCh: the monitor's context is cancelled, another one begins.     *)
Reconnect(g) ==
  /\ main.pc = "select" /\ token /\ mon[g] = Off
  /\ token' = FALSE
  /\ mon' = [i \in Monitors |-> IF i = g THEN [Off EXCEPT !.pc = "dial"]
                                ELSE [mon[i] EXCEPT !.canceled = @ \/ mon[i] # Off]]
  /\ UNCHANGED <<main, processed, notif, resp, batch, feed, gaveUp, breaks,
                 world>>

(* btpBlockRespCh.                                                          *)
TakeResponse ==
  /\ main.pc = "select" /\ resp # <<>>
  /\ main' = [pc |-> "deliver", got |-> Head(resp)]
  /\ resp' = Tail(resp)
  /\ UNCHANGED <<processed, token, notif, batch, mon, feed, gaveUp, breaks,
                 world>>

(* A response goes to the engine; the next one is taken when the channel    *)
(* has one, and processedheight counts at the end of the round.             *)
Deliver ==
  LET height == main.got.height - 1 IN
  /\ main.pc = "deliver"
  /\ sent' = Append(sent, Response(height, main.got.logs))
  /\ handed' = handed \cup {height}
  /\ IF resp = <<>> THEN Goto("select") /\ processed' = processed + 1
                    ELSE Goto("more") /\ UNCHANGED processed
  /\ UNCHANGED <<token, notif, resp, batch, mon, first, gaveUp, breaks, world>>

More ==
  /\ main.pc = "more" /\ resp # <<>>
  /\ main' = [pc |-> "deliver", got |-> Head(resp)]
  /\ resp' = Tail(resp)
  /\ processed' = processed + 1
  /\ UNCHANGED <<token, notif, batch, mon, feed, gaveUp, breaks, world>>

(* The default case: notifications become the requests of a batch ...       *)
TakeNotification ==
  /\ main.pc = "select" /\ ~token /\ resp = <<>> /\ notif # <<>>
  /\ main' = [pc |-> "request", got |-> Head(notif)]
  /\ notif' = Tail(notif)
  /\ UNCHANGED <<processed, token, resp, batch, mon, feed, gaveUp, breaks,
                 world>>

MoreNotifications ==
  /\ main.pc = "moreNotif" /\ notif # <<>>
  /\ main' = [pc |-> "request", got |-> Head(notif)]
  /\ notif' = Tail(notif)
  /\ UNCHANGED <<processed, token, resp, batch, mon, feed, gaveUp, breaks,
                 world>>

Expected == processed + Cardinality(DOMAIN batch)

MakeRequest ==
  /\ main.pc = "request" /\ main.got = Expected
  /\ batch' = [h \in DOMAIN batch \cup {main.got} |->
                 IF h = main.got THEN Request(Retries) ELSE batch[h]]
  /\ IF notif # <<>> /\ Cardinality(DOMAIN batch') < Cap
       THEN Goto("moreNotif") ELSE Goto("fetch")
  /\ UNCHANGED <<processed, token, notif, resp, mon, feed, gaveUp, breaks,
                 world>>

(* A mutant: what was received is thrown away, nobody reconnects.          *)
DropWhatIsWrong ==
  /\ main.pc = "request" /\ main.got # Expected
  /\ batch' = NoBatch
  /\ Goto("drain")
  /\ UNCHANGED <<processed, token, notif, resp, mon, feed, gaveUp, breaks, world>>

(* ... unless one is missing: reconnect.                                    *)
MissingNotification ==
  /\ main.pc = "request" /\ main.got # Expected
  /\ batch' = NoBatch
  /\ token' = TRUE
  /\ Goto("drain")
  /\ UNCHANGED <<processed, notif, resp, mon, feed, gaveUp, breaks, world>>

(* A mutant: the answers are forwarded without looking for gaps.           *)
CollectWithGaps ==
  LET run == {h \in DOMAIN batch : batch[h].st = "ok"}
      Nth(i) == CHOOSE h \in run : Cardinality({k \in run : k <= h}) = i
  IN
  /\ main.pc = "fetch" /\ \A h \in DOMAIN batch : batch[h].st \in {"ok", "nil"}
  /\ resp' = resp \o [i \in 1 .. Cardinality(run) |->
                       Response(Nth(i), batch[Nth(i)].logs)]
  /\ batch' = NoBatch
  /\ Goto("select")
  /\ UNCHANGED <<processed, token, notif, mon, feed, gaveUp, breaks, world>>

(* Every request is answered or given up: what is left is sorted and the    *)
(* run that begins at processedheight goes into btpBlockRespCh.             *)
Collect ==
  LET Answered(h) == h \in DOMAIN batch /\ batch[h].st = "ok"
      run == {h \in DOMAIN batch : \A i \in processed .. h : Answered(i)}
  IN
  /\ main.pc = "fetch" /\ \A h \in DOMAIN batch : batch[h].st \in {"ok", "nil"}
  /\ resp' = resp \o [i \in 1 .. Cardinality(run) |->
               Response(processed + i - 1, batch[processed + i - 1].logs)]
  /\ batch' = NoBatch
  /\ Goto("select")
  /\ UNCHANGED <<processed, token, notif, mon, feed, gaveUp, breaks, world>>

(* The loop of reconnect that empties both channels: it looks at their       *)
(* lengths and then waits for an element of either.                         *)
DrainNext ==
  /\ main.pc = "drain"
  /\ IF resp = <<>> /\ notif = <<>> THEN Goto("select") ELSE Goto("drainTake")
  /\ UNCHANGED <<processed, token, notif, resp, batch, mon, feed, gaveUp,
                 breaks, world>>

TakeEither ==
  \/ resp # <<>> /\ resp' = Tail(resp) /\ UNCHANGED notif
  \/ notif # <<>> /\ notif' = Tail(notif) /\ UNCHANGED resp

DrainTake ==
  /\ main.pc = "drainTake" /\ TakeEither
  /\ Goto("drain")
  /\ UNCHANGED <<processed, token, batch, mon, feed, gaveUp, breaks, world>>

-----------------------------------------------------------------------------
(* handleBTPBlockRequest for the block of height h.                         *)

Asking(h) == main.pc = "fetch" /\ h \in DOMAIN batch /\ batch[h].st = "asking"

Answer(h) ==
  /\ Asking(h)
  /\ batch' = [batch EXCEPT ![h].st = "ok", ![h].logs = {h} \cap Active]
  /\ UNCHANGED <<main, processed, token, notif, resp, mon, feed, gaveUp,
                 breaks, world>>

(* GetBlockHeaderByHeight fails: Wrapf of request.err, which is still nil,  *)
(* is nil, and the response without events counts as an answer.             *)
HeaderFails(h) ==
  /\ Asking(h) /\ h \in Active
  /\ batch' = [batch EXCEPT ![h].st = "ok"]
  /\ UNCHANGED <<main, processed, token, notif, resp, mon, feed, gaveUp,
                 breaks, world>>

(* A mutant: asked once more than maxRetires.                              *)
OneRetryMore(h) ==
  /\ Asking(h) /\ h \in Active
  /\ batch' = [batch EXCEPT ![h].retry = @ - 1]
  /\ UNCHANGED <<main, processed, token, notif, resp, mon, feed, gaveUp,
                 breaks, world>>

(* Any other error: asked again while there are retries left.               *)
ProofFails(h) ==
  /\ Asking(h) /\ h \in Active
  /\ IF batch[h].retry > 0
       THEN batch' = [batch EXCEPT ![h].retry = @ - 1] /\ UNCHANGED gaveUp
       ELSE batch' = [batch EXCEPT ![h].st = "nil"] /\ gaveUp' = head
  /\ UNCHANGED <<main, processed, token, notif, resp, mon, feed, breaks, world>>

-----------------------------------------------------------------------------
(* A monitor. *)

At(g, pc) == mon[g].pc = pc
MonitorGoto(g, pc) == mon' = [mon EXCEPT ![g].pc = pc]
MonitorEnds(g) == mon' = [mon EXCEPT ![g] = Off]

(* It asks for the blocks from processedheight on.                          *)
Dial(g) ==
  /\ At(g, "dial")
  /\ mon' = [mon EXCEPT ![g].pc = "read", ![g].next = processed]
  /\ UNCHANGED <<main, processed, token, notif, resp, batch, feed, gaveUp,
                 breaks, world>>

(* The next block arrives; the callback looks whether it is cancelled ...   *)
Read(g) ==
  /\ At(g, "read") /\ ~mon[g].canceled /\ mon[g].next <= head
  /\ MonitorGoto(g, "send")
  /\ UNCHANGED <<main, processed, token, notif, resp, batch, feed, gaveUp,
                 breaks, world>>

(* ... and puts it into the channel, perhaps long after it looked.          *)
SendNotification(g) ==
  /\ At(g, "send") /\ Len(notif) < Cap
  /\ notif' = Append(notif, mon[g].next)
  /\ mon' = [mon EXCEPT ![g].pc = "read", ![g].next = @ + 1]
  /\ UNCHANGED <<main, processed, token, resp, batch, feed, gaveUp, breaks,
                 world>>

Canceled(g) ==
  /\ At(g, "read") /\ mon[g].canceled
  /\ MonitorEnds(g)
  /\ UNCHANGED <<main, processed, token, notif, resp, batch, feed, gaveUp,
                 breaks, world>>

(* The connection cannot be had or breaks, that of a cancelled one as well. *)
Break(g) ==
  /\ At(g, "dial") \/ At(g, "read")
  /\ breaks < MaxBreaks /\ breaks' = breaks + 1
  /\ MonitorGoto(g, "sleep")
  /\ UNCHANGED <<main, processed, token, notif, resp, batch, feed, gaveUp,
                 world>>

(* After five seconds it calls reconnect itself.                            *)
Wake(g) ==
  /\ At(g, "sleep")
  /\ token' = TRUE
  /\ MonitorGoto(g, "drain")
  /\ UNCHANGED <<main, processed, notif, resp, batch, feed, gaveUp, breaks,
                 world>>

MonitorDrains(g) ==
  /\ At(g, "drain")
  /\ IF resp = <<>> /\ notif = <<>> THEN MonitorEnds(g)
                                    ELSE MonitorGoto(g, "take")
  /\ UNCHANGED <<main, processed, token, notif, resp, batch, feed, gaveUp,
                 breaks, world>>

MonitorTakes(g) ==
  /\ At(g, "take") /\ TakeEither
  /\ MonitorGoto(g, "drain")
  /\ UNCHANGED <<main, processed, token, batch, feed, gaveUp, breaks, world>>

-----------------------------------------------------------------------------
(* The environment. *)

Mine ==
  /\ head < LastHead /\ head' = head + 1
  /\ UNCHANGED <<main, processed, token, notif, resp, batch, mon, feed, gaveUp,
                 breaks, saved, restarts>>

(* The engine saves a height it was handed: SaveBlockHeight.                *)
Save ==
  /\ \E i \in DOMAIN sent : saved' = sent[i].height
  /\ UNCHANGED <<main, processed, token, notif, resp, batch, mon, feed, gaveUp,
                 breaks, head, restarts>>

Crash ==
  /\ main.pc # "down"
  /\ restarts < MaxRestarts /\ restarts' = restarts + 1
  /\ main' = Loop("down") /\ processed' = 0 /\ token' = FALSE
  /\ notif' = <<>> /\ resp' = <<>> /\ batch' = NoBatch
  /\ mon' = [g \in Monitors |-> Off]
  /\ first' = 0 /\ sent' = <<>>
  /\ UNCHANGED <<handed, gaveUp, breaks, head, saved>>

-----------------------------------------------------------------------------

Main ==
  \/ Start \/ TakeResponse \/ Deliver \/ More
  \/ TakeNotification \/ MoreNotifications \/ MakeRequest \/ MissingNotification
  \/ Collect \/ DrainNext \/ DrainTake
  \/ \E g \in Monitors : Reconnect(g)

Worker == \E h \in DOMAIN batch : Answer(h) \/ HeaderFails(h) \/ ProofFails(h)

Monitor(g) ==
  \/ Dial(g) \/ Read(g) \/ SendNotification(g) \/ Canceled(g)
  \/ Wake(g) \/ MonitorDrains(g) \/ MonitorTakes(g)

Next ==
  \/ Main \/ StartFails \/ Worker
  \/ \E g \in Monitors : Monitor(g) \/ Break(g)
  \/ Mine \/ Save \/ Crash

Spec == Init /\ [][Next]_vars

(* The timing the code relies on and does not enforce: emptying a channel,  *)
(* and looking at its length and taking the element, are not interleaved    *)
(* with somebody else's use of the same channels.                           *)
Prompt ==
  /\ main.pc \in {"deliver", "more", "request", "moreNotif", "drain", "drainTake"}
       => main' # main
  /\ \A g \in Monitors : At(g, "drain") \/ At(g, "take") => mon'[g] # mon[g]

(* All goroutines are scheduled fairly.                                     *)
Fairness ==
  WF_vars(Main) /\ WF_vars(Worker) /\ \A g \in Monitors : WF_vars(Monitor(g))

TimelySpec == Init /\ [][Next /\ Prompt]_vars /\ Fairness

-----------------------------------------------------------------------------

(* Types.                                                                   *)
TypeOK ==
  /\ head \in Height /\ saved \in Height /\ processed \in Height
  /\ token \in BOOLEAN
  /\ main.pc \in {"down", "select", "deliver", "more", "request", "moreNotif",
                  "fetch", "drain", "drainTake", "returned"}
  /\ notif \in Seq(Height) /\ Len(notif) <= Cap
  /\ resp \in Seq([height : Height, logs : SUBSET Active]) /\ Len(resp) <= Cap
  /\ DOMAIN batch \subseteq Height
  /\ \A h \in DOMAIN batch :
       batch[h] \in [st : {"asking", "ok", "nil"}, retry : 0 .. Retries,
                     logs : SUBSET Active]
  /\ mon \in [Monitors -> [pc : {"off", "dial", "read", "send", "sleep",
                                 "drain", "take"},
                           next : Height, canceled : BOOLEAN]]

(* Properties. *)

(* icon/listener.go:139-146, 195-205: notifications that are missing, stale   *)
(* or twice there, failing requests, broken connections and restarts: the    *)
(* engine is handed consecutive blocks and none is passed by, as long as     *)
(* reconnect's loop is not interleaved with the main loop's use of the       *)
(* channels.                                                                *)
Feed == INSTANCE BlockFeed WITH
  First <- StartAt - 1, Down <- None,
  upcoming <- IF main.pc = "down" \/ (main.pc = "returned" /\ first = 0)
              THEN None ELSE first + Len(sent)
HandsOverInOrder == Feed!Spec

(* icon/listener.go:139-146: the listener does not sit idle before a block    *)
(* that is there: it hands it over in the end, or reconnects again and again, *)
(* or a request was given up and the chain has not grown since (only the next *)
(* notification shows that one is missing).  It may reconnect for ever: a     *)
(* notification that arrives after reconnect has emptied the channel and      *)
(* before the new monitor begins is the next one that is out of order.        *)
NeverIdle ==
  \/ []<>token
  \/ \A h \in StartAt .. LastHead :
       (h <= head) ~> (h - 1 \in handed \/ gaveUp = head \/ main.pc = "returned")
=============================================================================
