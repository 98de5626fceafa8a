-------------------------- MODULE IconListenerProofs --------------------------
(***************************************************************************)
(* Theorems about IconListener.tla: whatever notifications are missing,     *)
(* stale or twice there, whatever fails and whoever reconnects, the engine  *)
(* is handed consecutive blocks, as long as the emptying of the channels is *)
(* not interleaved with their use.  For any channels, monitors, retries,    *)
(* broken connections and restarts.                                         *)
(***************************************************************************)
EXTENDS IconListener, SequenceTheorems, FiniteSetTheorems

Block == [height : Height, logs : SUBSET Active]
Req == [st : {"asking", "ok", "nil"}, retry : 0 .. Retries, logs : SUBSET Active]
Mon == [pc : {"off", "dial", "read", "send", "sleep", "drain", "take"},
        next : Height, canceled : BOOLEAN]

Running == main.pc \notin {"down", "returned"}
Local == main.pc \in {"deliver", "more", "request", "moreNotif", "drain", "drainTake"}
Draining(g) == At(g, "drain") \/ At(g, "take")

(* The rest of the types.                                                   *)
Rest ==
  /\ first \in Nat /\ sent \in Seq(Block) /\ handed \subseteq Height
  /\ main.pc = "deliver" => main.got \in Block
  /\ main.pc = "request" => main.got \in Height

(* Nobody knows of a block the chain does not have.                         *)
OnChain ==
  /\ FirstHead <= head /\ head <= LastHead
  /\ \A i \in 1 .. Len(notif) : notif[i] <= head
  /\ \A i \in 1 .. Len(resp) : resp[i].height <= head
  /\ \A h \in DOMAIN batch : h <= head
  /\ \A g \in Monitors : At(g, "send") => mon[g].next <= head
  /\ main.pc = "request" => main.got <= head
  /\ main.pc \in {"deliver", "more"} => processed <= head

(* Nobody empties the channels while the loop works on what it took from    *)
(* them, and there are no answers while it makes or waits for requests.     *)
Apart ==
  /\ Local => \A g \in Monitors : ~Draining(g)
  /\ main.pc \in {"request", "moreNotif", "fetch", "drain", "drainTake"}
       => resp = <<>>
  /\ ~Running => /\ resp = <<>> /\ sent = <<>> /\ first = 0
                 /\ \A g \in Monitors : mon[g].pc = "off"

(* The requests of a batch are for blocks from processedheight on, and no   *)
(* more than the channel of the answers has room for.                       *)
Batch ==
  /\ main.pc \notin {"request", "moreNotif", "fetch"} => DOMAIN batch = {}
  /\ \A h \in DOMAIN batch : processed <= h
  /\ Cardinality(DOMAIN batch) <= Cap
  /\ main.pc \in {"request", "moreNotif"} => Cardinality(DOMAIN batch) < Cap

(* The blocks handed over, the one in the loop's hand and the ones in       *)
(* btpBlockRespCh follow each other, unless somebody is emptying that;      *)
(* processedheight is the notification to be handed over next, or the last  *)
(* one in the middle of a round.                                            *)
Ready == IF main.pc \in {"deliver", "more"} THEN processed + 1 ELSE processed
Consecutive ==
  /\ \A i \in 1 .. Len(sent) : sent[i].height = first + i - 1
  /\ Running => processed = first + Len(sent) + (IF main.pc = "more" THEN 0 ELSE 1)
  /\ main.pc = "deliver" => main.got.height = processed
  /\ (\A g \in Monitors : ~Draining(g)) =>
       \A i \in 1 .. Len(resp) : resp[i].height = Ready + i - 1

IInv == TypeOK /\ Rest /\ OnChain /\ Apart /\ Batch /\ Consecutive

-----------------------------------------------------------------------------
(* Lemmas on the operators of the model.                                    *)

LEMMA Heights ==
  /\ Height \subseteq Nat /\ 0 \in Height
  /\ {StartAt, FirstHead, LastHead} \subseteq Height
  /\ 0 < FirstHead /\ FirstHead <= LastHead
  /\ LastHead \in Nat /\ LastHead + 1 \in Height
  /\ \A n \in Nat : n <= LastHead + 1 => n \in Height
  BY WidthAssumption, ListenerAssumption DEF Height

LEMMA HeightsAreFinite == IsFiniteSet(Height)
<1>1. Modulus - 1 \in Int /\ 0 \in Int
  BY WidthAssumption
<1> QED
  BY <1>1, FS_Interval DEF Height

LEMMA NoRequests == DOMAIN NoBatch = {}
  BY DEF NoBatch

LEMMA OffIsMon == Off \in Mon /\ Off.pc = "off"
  BY Heights DEF Off, Mon

LEMMA Numbers ==
  ASSUME IInv
  PROVE  /\ processed \in Nat /\ head \in Nat /\ head <= LastHead /\ 0 < head
         /\ first \in Nat /\ Len(sent) \in Nat
         /\ sent \in Seq(Block) /\ DOMAIN sent = 1 .. Len(sent)
         /\ resp \in Seq(Block) /\ Len(resp) \in Nat
         /\ notif \in Seq(Height) /\ Len(notif) \in Nat
         /\ \A g \in Monitors : mon[g] \in Mon /\ mon[g].next \in Nat
         /\ IsFiniteSet(DOMAIN batch) /\ Cardinality(DOMAIN batch) \in Nat
         /\ DOMAIN batch \subseteq Nat
<1>1. processed \in Nat /\ head \in Nat
  BY Heights DEF IInv, TypeOK
<1>2. head <= LastHead /\ 0 < head
  <2>1. FirstHead \in Nat /\ 0 < FirstHead
    BY Heights
  <2>2. FirstHead <= head /\ head <= LastHead
    BY DEF IInv, OnChain
  <2> QED
    BY <1>1, <2>1, <2>2
<1>3. sent \in Seq(Block) /\ resp \in Seq(Block) /\ notif \in Seq(Height) /\ first \in Nat
  BY DEF IInv, TypeOK, Rest, Block
<1>4. /\ DOMAIN sent = 1 .. Len(sent) /\ Len(sent) \in Nat
      /\ Len(resp) \in Nat /\ Len(notif) \in Nat
  BY <1>3
<1>5. IsFiniteSet(DOMAIN batch)
  BY HeightsAreFinite, FS_Subset DEF IInv, TypeOK
<1>6. Cardinality(DOMAIN batch) \in Nat
  BY <1>5, FS_CardinalityType
<1>7. \A g \in Monitors : mon[g] \in Mon /\ mon[g].next \in Nat
  BY Heights DEF IInv, TypeOK, Mon
<1>8. DOMAIN batch \subseteq Nat
  BY Heights DEF IInv, TypeOK
<1> QED
  BY <1>1, <1>2, <1>3, <1>4, <1>5, <1>6, <1>7, <1>8

(* What is left of a channel after its first element was received.          *)
LEMMA Received ==
  ASSUME NEW S, NEW s \in Seq(S), s # <<>>
  PROVE  /\ Head(s) = s[1] /\ s[1] \in S /\ Len(s) \in Nat \ {0}
         /\ Tail(s) \in Seq(S) /\ Len(Tail(s)) = Len(s) - 1
         /\ \A i \in 1 .. Len(Tail(s)) : Tail(s)[i] = s[i + 1]
  BY HeadTailProperties, EmptySeq

(* Where a listener starts (icon/listener.go:259-279): at a block the chain *)
(* has, or at one it was handed before.                                     *)
LEMMA StartIsHeight ==
  ASSUME IInv
  PROVE  /\ IconStart(saved, StartAt, head) \in Height
         /\ IconStart(saved, StartAt, head) \in Nat \ {0}
<1>1. saved \in Nat /\ StartAt \in Nat /\ saved \in Height /\ StartAt \in Height /\ head \in Height
  BY Heights DEF IInv, TypeOK
<1> QED
  BY <1>1, Numbers DEF IconStart, Prefer

(* The run that Collect takes, the answered requests from processedheight   *)
(* on without a hole, is an interval.  Its size is that of the interval it  *)
(* lies in, so that no induction on heights is needed.                      *)
Answered(h) == h \in DOMAIN batch /\ batch[h].st = "ok"
Run == {h \in DOMAIN batch : \A i \in processed .. h : Answered(i)}

LEMMA RunIsInterval ==
  ASSUME IInv
  PROVE  /\ Cardinality(Run) \in Nat /\ Cardinality(Run) <= Cap
         /\ Run = processed .. processed + Cardinality(Run) - 1
<1>1. processed \in Nat /\ DOMAIN batch \subseteq Nat
  BY Numbers
<1>2. Run \subseteq DOMAIN batch
  BY DEF Run
<1>3. \A h \in Run : processed <= h
  BY <1>2 DEF IInv, Batch
<1>4. /\ IsFiniteSet(Run) /\ Cardinality(Run) <= Cardinality(DOMAIN batch)
      /\ Cardinality(DOMAIN batch) \in Nat /\ Cardinality(DOMAIN batch) <= Cap
  BY <1>2, Numbers, FS_Subset DEF IInv, Batch
<1>5. Cardinality(Run) \in Nat
  BY <1>4, FS_CardinalityType
<1> DEFINE c == Cardinality(Run)
<1>6. ASSUME NEW h \in Run PROVE h \in processed .. processed + c - 1
  <2>1. h \in Nat /\ processed <= h
    BY <1>1, <1>2, <1>3
  <2>2. processed .. h \subseteq Run
    BY <1>1, <2>1 DEF Run, Answered
  <2>3. Cardinality(processed .. h) <= c
    BY <2>2, <1>4, FS_Subset
  <2>4. Cardinality(processed .. h) = h - processed + 1
    BY <1>1, <2>1, FS_Interval
  <2> HIDE DEF c
  <2> QED
    BY <2>1, <2>3, <2>4, <1>1, <1>5 DEF c
<1>7. Run \in SUBSET (processed .. processed + c - 1)
  BY <1>6
<1>8. /\ IsFiniteSet(processed .. processed + c - 1)
      /\ Cardinality(processed .. processed + c - 1) = c
  <2>1. c \in Nat
    BY <1>5
  <2> HIDE DEF c
  <2>2. processed + c - 1 \in Int /\ processed \in Int
    BY <2>1, <1>1
  <2> QED
    BY <2>1, <2>2, <1>1, FS_Interval
<1>9. processed .. processed + c - 1 = Run
  BY <1>7, <1>8, FS_Subset
<1>10. c <= Cap
  <2>1. c \in Nat /\ Cap \in Nat
    BY <1>5, ListenerAssumption
  <2> HIDE DEF c
  <2> QED
    BY <1>4, <2>1 DEF c
<1> QED
  BY <1>5, <1>9, <1>10

-----------------------------------------------------------------------------
(* The inductive invariant.                                                 *)

LEMMA InitInv == Init => IInv
<1> SUFFICES ASSUME Init PROVE IInv
  OBVIOUS
<1>1. main.pc = "down" /\ DOMAIN batch = {} /\ Cardinality(DOMAIN batch) = 0
  BY NoRequests, FS_EmptySet DEF Init, Loop
<1>2. head = FirstHead /\ FirstHead \in Nat /\ LastHead \in Nat /\ FirstHead <= LastHead
  BY Heights DEF Init
<1>3. Cap \in Nat \ {0}
  BY ListenerAssumption
<1>4. \A g \in Monitors : mon[g] = Off
  BY DEF Init
<1>5. TypeOK
  <2>1. head \in Height /\ saved \in Height /\ processed \in Height /\ token \in BOOLEAN
    BY Heights DEF Init
  <2>2. mon \in [Monitors -> Mon]
    BY OffIsMon DEF Init
  <2>3. /\ notif \in Seq(Height) /\ Len(notif) <= Cap
        /\ resp \in Seq([height : Height, logs : SUBSET Active]) /\ Len(resp) <= Cap
    BY <1>3 DEF Init
  <2> QED
    BY <1>1, <2>1, <2>2, <2>3 DEF TypeOK, Mon
<1>6. Rest
  BY <1>1 DEF Init, Rest
<1>7. OnChain
  BY <1>1, <1>2, <1>4, OffIsMon DEF Init, OnChain, At
<1>8. Apart
  BY <1>1, <1>4, OffIsMon DEF Init, Apart, Running, Local
<1>9. Batch
  BY <1>1, <1>3 DEF Batch
<1>10. Consecutive
  BY <1>1 DEF Init, Consecutive, Running
<1> QED
  BY <1>5, <1>6, <1>7, <1>8, <1>9, <1>10 DEF IInv

(* A step of a monitor that uses no channel.                                *)
LEMMA MonitorInv ==
  ASSUME IInv, NEW g \in Monitors, NEW r \in Mon,
         ~At(g, "off"), mon' = [mon EXCEPT ![g] = r],
         r.pc = "send" => r.next <= head,
         r.pc \in {"drain", "take"} => ~Local,
         r.pc \notin {"drain", "take"} => ~Draining(g) \/ resp = <<>>,
         token' \in BOOLEAN,
         UNCHANGED <<main, processed, notif, resp, batch, feed, world>>
  PROVE  IInv'
<1> USE DEF IInv
<1>1. UNCHANGED <<main, processed, notif, resp, batch, first, sent, handed, head, saved, restarts>>
  BY DEF feed, world
<1>2. mon \in [Monitors -> Mon]
  BY DEF TypeOK, Mon
<1>3. mon' \in [Monitors -> Mon] /\ mon'[g] = r /\ \A i \in Monitors : i # g => mon'[i] = mon[i]
  BY <1>2
<1>4. TypeOK'
  BY <1>1, <1>3 DEF TypeOK, Mon
<1>5. Rest'
  BY <1>1 DEF Rest
<1>6. OnChain'
  <2>1. \A i \in Monitors : At(i, "send")' => mon'[i].next <= head
    BY <1>3 DEF OnChain, At
  <2> QED
    BY <1>1, <2>1 DEF OnChain
<1>7. Apart'
  <2>1. Running
    BY DEF Apart, At
  <2>2. Local => \A i \in Monitors : ~Draining(i)'
    BY <1>3 DEF Apart, Draining, At
  <2> QED
    BY <1>1, <2>1, <2>2 DEF Apart, Running, Local
<1>8. Batch'
  BY <1>1 DEF Batch
<1>9. Consecutive'
  <2>1. (\A i \in Monitors : ~Draining(i)') => resp = <<>> \/ \A i \in Monitors : ~Draining(i)
    BY <1>3 DEF Draining, At
  <2>2. (\A i \in Monitors : ~Draining(i)') =>
          \A i \in 1 .. Len(resp) : resp[i].height = Ready + i - 1
    BY <2>1 DEF Consecutive
  <2> QED
    BY <1>1, <2>2 DEF Consecutive, Running, Ready
<1> QED
  BY <1>4, <1>5, <1>6, <1>7, <1>8, <1>9

LEMMA MonitorsInv ==
  ASSUME IInv, Prompt, NEW g \in Monitors,
         Dial(g) \/ Read(g) \/ Canceled(g) \/ Break(g) \/ Wake(g) \/ MonitorDrains(g)
  PROVE  IInv'
<1>1. mon[g] \in Mon /\ mon \in [Monitors -> Mon] /\ processed \in Height
  BY Numbers DEF IInv, TypeOK, Mon
<1>2. UNCHANGED <<main, processed, notif, resp, batch, feed, world>>
  BY DEF Dial, Read, Canceled, Break, Wake, MonitorDrains
<1>3. ~At(g, "off")
  BY DEF Dial, Read, Canceled, Break, Wake, MonitorDrains, At
<1>4. ~Local
  BY <1>2 DEF Prompt, Local
<1>5. token' \in BOOLEAN
  BY DEF Dial, Read, Canceled, Break, Wake, MonitorDrains, IInv, TypeOK
<1>6. CASE Dial(g)
  <2> DEFINE r == [mon[g] EXCEPT !.pc = "read", !.next = processed]
  <2>1. r \in Mon /\ r.pc = "read" /\ ~Draining(g)
    BY <1>1, <1>6 DEF Mon, Dial, Draining, At
  <2>2. mon' = [mon EXCEPT ![g] = r]
    BY <1>6 DEF Dial
  <2> QED
    BY <1>2, <1>3, <1>5, <2>1, <2>2, MonitorInv
<1>7. CASE Read(g)
  <2> DEFINE r == [mon[g] EXCEPT !.pc = "send"]
  <2>1. r \in Mon /\ r.pc = "send" /\ r.next <= head /\ ~Draining(g)
    BY <1>1, <1>7 DEF Mon, Read, Draining, At
  <2>2. mon' = [mon EXCEPT ![g] = r]
    BY <1>7 DEF Read, MonitorGoto
  <2> QED
    BY <1>2, <1>3, <1>5, <2>1, <2>2, MonitorInv
<1>8. CASE Canceled(g)
  <2>1. mon' = [mon EXCEPT ![g] = Off] /\ ~Draining(g)
    BY <1>8 DEF Canceled, MonitorEnds, Draining, At
  <2> QED
    BY <1>2, <1>3, <1>5, <2>1, OffIsMon, MonitorInv
<1>9. CASE Break(g)
  <2> DEFINE r == [mon[g] EXCEPT !.pc = "sleep"]
  <2>1. r \in Mon /\ r.pc = "sleep" /\ ~Draining(g)
    BY <1>1, <1>9 DEF Mon, Break, Draining, At
  <2>2. mon' = [mon EXCEPT ![g] = r]
    BY <1>9 DEF Break, MonitorGoto
  <2> QED
    BY <1>2, <1>3, <1>5, <2>1, <2>2, MonitorInv
<1>10. CASE Wake(g)
  <2> DEFINE r == [mon[g] EXCEPT !.pc = "drain"]
  <2>1. r \in Mon /\ r.pc = "drain"
    BY <1>1 DEF Mon
  <2>2. mon' = [mon EXCEPT ![g] = r]
    BY <1>10 DEF Wake, MonitorGoto
  <2> QED
    BY <1>2, <1>3, <1>4, <1>5, <2>1, <2>2, MonitorInv
<1>11. CASE MonitorDrains(g)
  <2> DEFINE r == [mon[g] EXCEPT !.pc = "take"]
  <2>1. r \in Mon /\ r.pc = "take"
    BY <1>1 DEF Mon
  <2>2. CASE resp = <<>> /\ notif = <<>>
    <3>1. mon' = [mon EXCEPT ![g] = Off]
      BY <1>11, <2>2 DEF MonitorDrains, MonitorEnds
    <3> QED
      BY <1>2, <1>3, <1>5, <2>2, <3>1, OffIsMon, MonitorInv
  <2>3. CASE ~(resp = <<>> /\ notif = <<>>)
    <3>1. mon' = [mon EXCEPT ![g] = r]
      BY <1>11, <2>3 DEF MonitorDrains, MonitorGoto
    <3> QED
      BY <1>2, <1>3, <1>4, <1>5, <2>1, <3>1, MonitorInv
  <2> QED
    BY <2>2, <2>3
<1> QED
  BY <1>6, <1>7, <1>8, <1>9, <1>10, <1>11

LEMMA SendInv ==
  ASSUME IInv, Prompt, NEW g \in Monitors, SendNotification(g) PROVE IInv'
<1> USE DEF IInv
<1> DEFINE r == [mon[g] EXCEPT !.pc = "read", !.next = @ + 1]
           n == mon[g].next
<1>1. /\ At(g, "send") /\ Len(notif) < Cap
      /\ notif' = Append(notif, n) /\ mon' = [mon EXCEPT ![g] = r]
      /\ UNCHANGED <<main, processed, token, resp, batch, feed, world>>
  BY DEF SendNotification
<1>2. UNCHANGED <<main, processed, token, resp, batch, first, sent, handed, head, saved, restarts>>
  BY <1>1 DEF feed, world
<1>3. ~Local /\ Running
  BY <1>1 DEF Prompt, Local, Apart, At
<1>4. /\ n \in Height /\ n \in Nat /\ n <= head /\ n + 1 \in Height
      /\ mon[g] \in Mon /\ mon \in [Monitors -> Mon]
  <2>1. n \in Nat /\ n <= head /\ head \in Nat /\ head <= LastHead /\ LastHead \in Nat
    BY <1>1, Numbers, Heights DEF OnChain
  <2>2. n + 1 \in Nat /\ n + 1 <= LastHead + 1
    BY <2>1
  <2>3. mon \in [Monitors -> Mon]
    BY DEF TypeOK, Mon
  <2> QED
    BY <2>1, <2>2, <2>3, Heights DEF Mon
<1>5. r \in Mon /\ r.pc = "read"
  BY <1>4 DEF Mon
<1> HIDE DEF r, n
<1>6. mon' \in [Monitors -> Mon] /\ mon'[g] = r /\ \A i \in Monitors : i # g => mon'[i] = mon[i]
  BY <1>1, <1>4, <1>5
<1>7. /\ notif' \in Seq(Height) /\ Len(notif') = Len(notif) + 1 /\ Len(notif) \in Nat
      /\ notif'[Len(notif) + 1] = n
      /\ \A i \in 1 .. Len(notif) : notif'[i] = notif[i]
  BY <1>1, <1>4, Numbers, AppendProperties
<1>8. TypeOK'
  <2>1. Len(notif') <= Cap
    BY <1>1, <1>7, ListenerAssumption
  <2> QED
    BY <1>2, <1>6, <1>7, <2>1 DEF TypeOK, Mon
<1>9. Rest'
  BY <1>2 DEF Rest
<1>10. OnChain'
  <2>1. \A i \in 1 .. Len(notif') : notif'[i] <= head
    BY <1>4, <1>7 DEF OnChain
  <2>2. \A i \in Monitors : At(i, "send")' => mon'[i].next <= head
    BY <1>5, <1>6 DEF OnChain, At
  <2> QED
    BY <1>2, <2>1, <2>2 DEF OnChain
<1>11. Apart'
  BY <1>2, <1>3 DEF Apart, Running, Local
<1>12. Batch'
  BY <1>2 DEF Batch
<1>13. Consecutive'
  <2>1. ~Draining(g)
    BY <1>1 DEF Draining, At
  <2>2. (\A i \in Monitors : ~Draining(i)') => \A i \in Monitors : ~Draining(i)
    BY <1>6, <2>1 DEF Draining, At
  <2> QED
    BY <1>2, <2>2 DEF Consecutive, Running, Ready
<1> QED
  BY <1>8, <1>9, <1>10, <1>11, <1>12, <1>13

(* An element of either channel is thrown away.                             *)
LEMMA Taken ==
  ASSUME IInv, TakeEither
  PROVE  /\ notif' \in Seq(Height) /\ Len(notif') <= Cap
         /\ resp' \in Seq(Block) /\ Len(resp') <= Cap
         /\ \A i \in 1 .. Len(notif') : notif'[i] <= head
         /\ \A i \in 1 .. Len(resp') : resp'[i].height <= head
         /\ resp = <<>> => resp' = <<>>
<1>1. /\ notif \in Seq(Height) /\ Len(notif) <= Cap /\ Len(notif) \in Nat
      /\ resp \in Seq(Block) /\ Len(resp) <= Cap /\ Len(resp) \in Nat
      /\ \A i \in 1 .. Len(notif) : notif[i] <= head
      /\ \A i \in 1 .. Len(resp) : resp[i].height <= head
  BY Numbers DEF IInv, TypeOK, OnChain
<1>2. Cap \in Nat
  BY ListenerAssumption
<1>3. CASE resp # <<>> /\ resp' = Tail(resp) /\ UNCHANGED notif
  <2>1. /\ resp' \in Seq(Block) /\ Len(resp') = Len(resp) - 1
        /\ \A i \in 1 .. Len(resp') : resp'[i] = resp[i + 1]
    BY <1>1, <1>3, Received
  <2>2. \A i \in 1 .. Len(resp') : i + 1 \in 1 .. Len(resp)
    BY <1>1, <2>1
  <2>3. Len(resp') <= Cap
    BY <1>1, <1>2, <2>1
  <2> QED
    BY <1>1, <1>3, <2>1, <2>2, <2>3
<1>4. CASE notif # <<>> /\ notif' = Tail(notif) /\ UNCHANGED resp
  <2>1. /\ notif' \in Seq(Height) /\ Len(notif') = Len(notif) - 1
        /\ \A i \in 1 .. Len(notif') : notif'[i] = notif[i + 1]
    BY <1>1, <1>4, Received
  <2>2. \A i \in 1 .. Len(notif') : i + 1 \in 1 .. Len(notif)
    BY <1>1, <2>1
  <2>3. Len(notif') <= Cap
    BY <1>1, <1>2, <2>1
  <2> QED
    BY <1>1, <1>4, <2>1, <2>2, <2>3
<1> QED
  BY <1>3, <1>4 DEF TakeEither

LEMMA MonitorTakesInv ==
  ASSUME IInv, Prompt, NEW g \in Monitors, MonitorTakes(g) PROVE IInv'
<1> USE DEF IInv
<1> DEFINE r == [mon[g] EXCEPT !.pc = "drain"]
<1>1. /\ At(g, "take") /\ TakeEither /\ mon' = [mon EXCEPT ![g] = r]
      /\ UNCHANGED <<main, processed, token, batch, feed, world>>
  BY DEF MonitorTakes, MonitorGoto
<1>2. UNCHANGED <<main, processed, token, batch, first, sent, handed, head, saved, restarts>>
  BY <1>1 DEF feed, world
<1>3. ~Local /\ Running
  BY <1>1 DEF Prompt, Local, Apart, At
<1>4. mon \in [Monitors -> Mon] /\ r \in Mon /\ r.pc = "drain"
  <2>1. mon \in [Monitors -> Mon]
    BY DEF TypeOK, Mon
  <2> QED
    BY <2>1 DEF Mon
<1> HIDE DEF r
<1>5. mon' \in [Monitors -> Mon] /\ mon'[g] = r /\ \A i \in Monitors : i # g => mon'[i] = mon[i]
  BY <1>1, <1>4
<1>6. TypeOK'
  BY <1>1, <1>2, <1>5, Taken DEF TypeOK, Mon, Block
<1>7. Rest'
  BY <1>2 DEF Rest
<1>8. OnChain'
  <2>1. \A i \in Monitors : At(i, "send")' => mon'[i].next <= head
    BY <1>4, <1>5 DEF OnChain, At
  <2> QED
    BY <1>1, <1>2, <2>1, Taken DEF OnChain
<1>9. Apart'
  BY <1>1, <1>2, <1>3, Taken DEF Apart, Running, Local
<1>10. Batch'
  BY <1>2 DEF Batch
<1>11. Consecutive'
  <2>1. Draining(g)'
    BY <1>4, <1>5 DEF Draining, At
  <2> QED
    BY <1>2, <2>1 DEF Consecutive, Running
<1> QED
  BY <1>6, <1>7, <1>8, <1>9, <1>10, <1>11

(* handleBTPBlockRequest changes its own request.                           *)
LEMMA WorkerInv ==
  ASSUME IInv, NEW h \in DOMAIN batch, Answer(h) \/ HeaderFails(h) \/ ProofFails(h)
  PROVE  IInv'
<1> USE DEF IInv
<1>1. /\ main.pc = "fetch"
      /\ UNCHANGED <<main, processed, token, notif, resp, mon, feed, world>>
  BY DEF Answer, HeaderFails, ProofFails, Asking
<1>2. UNCHANGED <<main, processed, token, notif, resp, mon, first, sent, handed, head, saved, restarts>>
  BY <1>1 DEF feed, world
<1>3. batch[h] \in Req
  BY DEF TypeOK, Req
<1> DEFINE own == {h} \cap Active
<1>4. own \in SUBSET Active
  OBVIOUS
<1>5. DOMAIN batch' = DOMAIN batch
  BY DEF Answer, HeaderFails, ProofFails
<1>6. \A i \in DOMAIN batch : batch'[i] \in Req
  <2> HIDE DEF own
  <2>1. \A i \in DOMAIN batch : i # h => batch'[i] = batch[i] /\ batch[i] \in Req
    BY DEF Answer, HeaderFails, ProofFails, TypeOK, Req
  <2>2. CASE Answer(h)
    <3>1. batch'[h] = [batch[h] EXCEPT !.st = "ok", !.logs = own]
      BY <2>2 DEF Answer, own
    <3>2. batch'[h] \in Req
      BY <1>3, <1>4, <3>1 DEF Req
    <3> QED
      BY <2>1, <3>2
  <2>3. CASE HeaderFails(h)
    <3>1. batch'[h] \in Req
      BY <1>3, <2>3 DEF HeaderFails, Req
    <3> QED
      BY <2>1, <3>1
  <2>4. CASE ProofFails(h)
    <3>1. CASE batch[h].retry > 0
      <4>1. batch'[h] = [batch[h] EXCEPT !.retry = @ - 1]
        BY <2>4, <3>1 DEF ProofFails
      <4>2. batch[h].retry - 1 \in 0 .. Retries
        BY <1>3, <3>1, ListenerAssumption DEF Req
      <4>3. batch'[h] \in Req
        BY <1>3, <4>1, <4>2 DEF Req
      <4> QED
        BY <2>1, <4>3
    <3>2. CASE ~(batch[h].retry > 0)
      <4>1. batch'[h] \in Req
        BY <1>3, <2>4, <3>2 DEF ProofFails, Req
      <4> QED
        BY <2>1, <4>1
    <3> QED
      BY <3>1, <3>2
  <2> QED
    BY <2>2, <2>3, <2>4
<1>7. TypeOK'
  BY <1>2, <1>5, <1>6 DEF TypeOK, Req
<1>8. Rest'
  BY <1>2 DEF Rest
<1>9. OnChain'
  BY <1>2, <1>5 DEF OnChain, At
<1>10. Apart'
  BY <1>2 DEF Apart, Running, Local, Draining, At
<1>11. Batch'
  BY <1>2, <1>5 DEF Batch
<1>12. Consecutive'
  BY <1>2 DEF Consecutive, Running, Ready, Draining, At
<1> QED
  BY <1>7, <1>8, <1>9, <1>10, <1>11, <1>12

LEMMA MineInv == ASSUME IInv, Mine PROVE IInv'
<1> USE DEF IInv
<1>1. /\ head < LastHead /\ head' = head + 1
      /\ UNCHANGED <<main, processed, token, notif, resp, batch, mon, first, sent, handed, saved>>
  BY DEF Mine, feed
<1>2. head \in Nat /\ LastHead \in Nat /\ head' \in Nat /\ head' <= LastHead
  BY <1>1, Numbers, Heights
<1>3. head' \in Height /\ FirstHead <= head' /\ head <= head'
  <2>1. FirstHead \in Nat /\ FirstHead <= head
    BY Heights DEF OnChain
  <2>2. head' <= LastHead + 1
    BY <1>2
  <2> QED
    BY <1>1, <1>2, <2>1, <2>2, Heights
<1>4. \A n \in Nat : n <= head => n <= head'
  BY <1>2, <1>3
<1>5. TypeOK'
  BY <1>1, <1>3 DEF TypeOK
<1>6. Rest'
  BY <1>1 DEF Rest
<1>7. OnChain'
  <2>1. \A i \in 1 .. Len(notif) : notif[i] \in Nat
    <3>1. \A i \in 1 .. Len(notif) : notif[i] \in Height
      BY Numbers, ElementOfSeq
    <3> QED
      BY <3>1, Heights
  <2>2. \A i \in 1 .. Len(resp) : resp[i].height \in Nat
    <3>1. \A i \in 1 .. Len(resp) : resp[i] \in Block
      BY Numbers, ElementOfSeq
    <3>2. \A i \in 1 .. Len(resp) : resp[i].height \in Height
      BY <3>1 DEF Block
    <3> QED
      BY <3>2, Heights
  <2>3. \A h \in DOMAIN batch : h \in Nat
    BY Numbers
  <2>4. \A g \in Monitors : mon[g].next \in Nat
    BY Numbers
  <2>5. processed \in Nat /\ (main.pc = "request" => main.got \in Nat)
    BY Numbers, Heights DEF Rest
  <2>6. \A i \in 1 .. Len(notif) : notif[i] <= head'
    BY <1>4, <2>1 DEF OnChain
  <2>7. \A i \in 1 .. Len(resp) : resp[i].height <= head'
    BY <1>4, <2>2 DEF OnChain
  <2>8. \A h \in DOMAIN batch : h <= head'
    BY <1>4, <2>3 DEF OnChain
  <2>9. \A g \in Monitors : At(g, "send") => mon[g].next <= head'
    BY <1>4, <2>4 DEF OnChain
  <2>10. /\ main.pc = "request" => main.got <= head'
         /\ main.pc \in {"deliver", "more"} => processed <= head'
    BY <1>4, <2>5 DEF OnChain
  <2> QED
    BY <1>1, <1>2, <1>3, <2>6, <2>7, <2>8, <2>9, <2>10 DEF OnChain, At
<1>8. Apart'
  BY <1>1 DEF Apart, Running, Local, Draining, At
<1>9. Batch'
  BY <1>1 DEF Batch
<1>10. Consecutive'
  BY <1>1 DEF Consecutive, Running, Ready, Draining, At
<1> QED
  BY <1>5, <1>6, <1>7, <1>8, <1>9, <1>10

LEMMA SaveInv == ASSUME IInv, Save PROVE IInv'
<1> USE DEF IInv
<1>1. UNCHANGED <<main, processed, token, notif, resp, batch, mon, first, sent, handed, head>>
  BY DEF Save, feed
<1>2. saved' \in Height
  <2>1. PICK i \in DOMAIN sent : saved' = sent[i].height
    BY DEF Save
  <2>2. i \in 1 .. Len(sent) /\ sent \in Seq(Block)
    BY Numbers
  <2>3. sent[i] \in Block
    BY <2>2, ElementOfSeq
  <2> QED
    BY <2>1, <2>3 DEF Block
<1>3. TypeOK'
  BY <1>1, <1>2 DEF TypeOK
<1>4. Rest'
  BY <1>1 DEF Rest
<1>5. OnChain'
  BY <1>1 DEF OnChain, At
<1>6. Apart'
  BY <1>1 DEF Apart, Running, Local, Draining, At
<1>7. Batch'
  BY <1>1 DEF Batch
<1>8. Consecutive'
  BY <1>1 DEF Consecutive, Running, Ready, Draining, At
<1> QED
  BY <1>3, <1>4, <1>5, <1>6, <1>7, <1>8

LEMMA CrashInv == ASSUME IInv, Crash PROVE IInv'
<1> USE DEF IInv
<1>1. /\ main'.pc = "down" /\ processed' = 0 /\ token' = FALSE
      /\ notif' = <<>> /\ resp' = <<>> /\ batch' = NoBatch
      /\ mon' = [g \in Monitors |-> Off] /\ first' = 0 /\ sent' = <<>>
      /\ UNCHANGED <<handed, head, saved>>
  BY DEF Crash, Loop
<1>2. DOMAIN batch' = {} /\ Cardinality(DOMAIN batch') = 0
  BY <1>1, NoRequests, FS_EmptySet
<1>3. Cap \in Nat \ {0}
  BY ListenerAssumption
<1>4. /\ mon' \in [Monitors -> Mon] /\ \A g \in Monitors : mon'[g].pc = "off"
  BY <1>1, OffIsMon
<1>5. TypeOK'
  <2>1. head' \in Height /\ saved' \in Height /\ processed' \in Height /\ token' \in BOOLEAN
    BY <1>1, Heights DEF TypeOK
  <2>2. /\ notif' \in Seq(Height) /\ Len(notif') <= Cap
        /\ resp' \in Seq([height : Height, logs : SUBSET Active]) /\ Len(resp') <= Cap
    BY <1>1, <1>3
  <2> QED
    BY <1>1, <1>2, <1>4, <2>1, <2>2 DEF TypeOK, Mon
<1>6. Rest'
  BY <1>1 DEF Rest
<1>7. OnChain'
  BY <1>1, <1>2, <1>4 DEF OnChain, At
<1>8. Apart'
  BY <1>1, <1>4 DEF Apart, Running, Local
<1>9. Batch'
  BY <1>1, <1>2, <1>3 DEF Batch
<1>10. Consecutive'
  BY <1>1 DEF Consecutive, Running
<1> QED
  BY <1>5, <1>6, <1>7, <1>8, <1>9, <1>10

LEMMA StartFailsInv == ASSUME IInv, StartFails PROVE IInv'
<1> USE DEF IInv
<1>1. /\ main.pc = "down" /\ main'.pc = "returned"
      /\ UNCHANGED <<processed, token, notif, resp, batch, mon, first, sent, handed, head, saved>>
  BY DEF StartFails, Goto, Loop, feed, world
<1>2. TypeOK'
  BY <1>1 DEF TypeOK
<1>3. Rest'
  BY <1>1 DEF Rest
<1>4. OnChain'
  BY <1>1 DEF OnChain, At
<1>5. Apart'
  BY <1>1 DEF Apart, Running, Local
<1>6. Batch'
  BY <1>1 DEF Batch
<1>7. Consecutive'
  BY <1>1 DEF Consecutive, Running, Ready, Draining, At
<1> QED
  BY <1>2, <1>3, <1>4, <1>5, <1>6, <1>7

LEMMA StutterInv == ASSUME IInv, UNCHANGED vars PROVE IInv'
  BY DEF vars, feed, world, IInv, TypeOK, Rest, OnChain, Apart, Batch, Consecutive,
         Running, Local, Ready, Draining, At

-----------------------------------------------------------------------------
(* The steps of the loop.                                                   *)

LEMMA StartInv == ASSUME IInv, Start PROVE IInv'
<1> USE DEF IInv
<1>1. /\ main.pc = "down" /\ main'.pc = "select" /\ token' = TRUE
      /\ processed' = IconStart(saved, StartAt, head) /\ first' = processed' - 1
      /\ UNCHANGED <<notif, resp, batch, mon, sent, handed, head, saved>>
  BY DEF Start, Goto, Loop, world
<1>2. processed' \in Height /\ processed' \in Nat \ {0} /\ first' \in Nat
  BY <1>1, StartIsHeight
<1>3. resp = <<>> /\ sent = <<>> /\ Len(sent) = 0 /\ Len(resp) = 0
  BY <1>1 DEF Apart, Running
<1>4. DOMAIN batch = {}
  BY <1>1 DEF Batch
<1>5. TypeOK'
  BY <1>1, <1>2 DEF TypeOK
<1>6. Rest'
  BY <1>1, <1>2 DEF Rest
<1>7. OnChain'
  BY <1>1 DEF OnChain, At
<1>8. Apart'
  BY <1>1, <1>3 DEF Apart, Running, Local
<1>9. Batch'
  BY <1>1, <1>4 DEF Batch
<1>10. Consecutive'
  <2>1. processed' = first' + 0 + 1
    BY <1>1, <1>2
  <2>2. Len(sent') = 0 /\ Len(resp') = 0
    BY <1>1, <1>3
  <2> QED
    BY <1>1, <2>1, <2>2 DEF Consecutive, Running
<1> QED
  BY <1>5, <1>6, <1>7, <1>8, <1>9, <1>10

(* Reconnecting changes what the monitors are told, not where they are.     *)
LEMMA ReconnectInv ==
  ASSUME IInv, NEW g \in Monitors, Reconnect(g) PROVE IInv'
<1> USE DEF IInv
<1>1. /\ main.pc = "select" /\ token' = FALSE /\ mon[g] = Off
      /\ mon' = [i \in Monitors |-> IF i = g THEN [Off EXCEPT !.pc = "dial"]
                   ELSE [mon[i] EXCEPT !.canceled = @ \/ mon[i] # Off]]
      /\ UNCHANGED <<main, processed, notif, resp, batch, first, sent, handed, head, saved>>
  BY DEF Reconnect, feed, world
<1>2. \A i \in Monitors : mon[i] \in Mon
  BY Numbers
<1>3. mon'[g] \in Mon /\ mon'[g].pc = "dial"
  BY <1>1, OffIsMon DEF Mon
<1>4. ASSUME NEW i \in Monitors, i # g
      PROVE  mon'[i] \in Mon /\ mon'[i].pc = mon[i].pc /\ mon'[i].next = mon[i].next
  <2> DEFINE c == mon[i].canceled \/ mon[i] # Off
  <2>1. c \in BOOLEAN
    BY <1>2 DEF Mon
  <2>2. mon'[i] = [mon[i] EXCEPT !.canceled = c]
    BY <1>1, <1>4
  <2> HIDE DEF c
  <2> QED
    BY <1>2, <2>1, <2>2 DEF Mon
<1>5. mon' \in [Monitors -> Mon]
  BY <1>1, <1>3, <1>4
<1>6. mon[g].pc = "off"
  BY <1>1, OffIsMon
<1>7. TypeOK'
  BY <1>1, <1>5 DEF TypeOK, Mon
<1>8. Rest'
  BY <1>1 DEF Rest
<1>9. OnChain'
  <2>1. \A i \in Monitors : At(i, "send")' => mon'[i].next <= head
    BY <1>3, <1>4 DEF OnChain, At
  <2> QED
    BY <1>1, <2>1 DEF OnChain
<1>10. Apart'
  BY <1>1 DEF Apart, Running, Local
<1>11. Batch'
  BY <1>1 DEF Batch
<1>12. Consecutive'
  <2>1. (\A i \in Monitors : ~Draining(i)') => \A i \in Monitors : ~Draining(i)
    BY <1>4, <1>6 DEF Draining, At
  <2> QED
    BY <1>1, <2>1 DEF Consecutive, Running, Ready
<1> QED
  BY <1>7, <1>8, <1>9, <1>10, <1>11, <1>12

(* While nobody empties the channels, the first answer that waits is for    *)
(* the next block, and what is left follows it.                             *)
LEMMA FirstResponse ==
  ASSUME IInv, resp # <<>>, \A g \in Monitors : ~Draining(g), resp' = Tail(resp)
  PROVE  /\ Head(resp) \in Block /\ Head(resp).height = Ready /\ Ready <= head
         /\ Ready \in Nat /\ Ready \in Height
         /\ resp' \in Seq(Block) /\ Len(resp') <= Cap
         /\ \A i \in 1 .. Len(resp') : resp'[i].height = (Ready + 1) + i - 1
         /\ \A i \in 1 .. Len(resp') : resp'[i].height <= head
<1> USE DEF IInv
<1>1. resp \in Seq(Block) /\ Len(resp) \in Nat /\ Len(resp) <= Cap /\ Cap \in Nat
  BY Numbers, ListenerAssumption DEF TypeOK
<1>2. /\ Head(resp) = resp[1] /\ resp[1] \in Block /\ Len(resp) \in Nat \ {0}
      /\ resp' \in Seq(Block) /\ Len(resp') = Len(resp) - 1
      /\ \A i \in 1 .. Len(resp') : resp'[i] = resp[i + 1]
  BY <1>1, Received
<1>3. Ready \in Nat
  BY Numbers DEF Ready
<1>4. \A i \in 1 .. Len(resp) : resp[i].height = Ready + i - 1 /\ resp[i].height <= head
  BY DEF Consecutive, OnChain
<1>5. 1 \in 1 .. Len(resp)
  BY <1>2
<1>6. resp[1].height = Ready /\ Ready <= head
  <2>1. Ready + 1 - 1 = Ready
    BY <1>3
  <2> QED
    BY <1>4, <1>5, <2>1
<1>7. ASSUME NEW i \in 1 .. Len(resp')
      PROVE  resp'[i].height = (Ready + 1) + i - 1 /\ resp'[i].height <= head
  <2>1. i + 1 \in 1 .. Len(resp) /\ i \in Nat
    BY <1>2
  <2>2. resp[i + 1].height = Ready + (i + 1) - 1
    BY <1>4, <2>1
  <2>3. Ready + (i + 1) - 1 = (Ready + 1) + i - 1
    BY <1>3, <2>1
  <2> QED
    BY <1>2, <1>4, <2>1, <2>2, <2>3
<1>8. Len(resp') <= Cap
  BY <1>1, <1>2
<1>9. Ready \in Height
  BY <1>2, <1>6 DEF Block
<1> QED
  BY <1>2, <1>3, <1>6, <1>7, <1>8, <1>9

LEMMA TakeResponseInv ==
  ASSUME IInv, Prompt, TakeResponse \/ More PROVE IInv'
<1> USE DEF IInv
<1>1. /\ main.pc \in {"select", "more"} /\ main'.pc = "deliver" /\ main'.got = Head(resp)
      /\ resp # <<>> /\ resp' = Tail(resp)
      /\ UNCHANGED <<token, notif, batch, mon, first, sent, handed, head, saved>>
  BY DEF TakeResponse, More, feed, world
<1>2. processed' = Ready
  BY DEF TakeResponse, More, Ready
<1>3. \A g \in Monitors : ~Draining(g)
  BY <1>1 DEF Prompt, Draining
<1>4. /\ Head(resp) \in Block /\ Head(resp).height = Ready /\ Ready <= head
      /\ Ready \in Nat /\ Ready \in Height
      /\ resp' \in Seq(Block) /\ Len(resp') <= Cap
      /\ \A i \in 1 .. Len(resp') : resp'[i].height = (Ready + 1) + i - 1
      /\ \A i \in 1 .. Len(resp') : resp'[i].height <= head
  BY <1>1, <1>3, FirstResponse
<1>5. DOMAIN batch = {}
  BY <1>1 DEF Batch
<1>6. TypeOK'
  BY <1>1, <1>2, <1>4 DEF TypeOK, Block
<1>7. Rest'
  BY <1>1, <1>4 DEF Rest
<1>8. OnChain'
  BY <1>1, <1>2, <1>4 DEF OnChain, At
<1>9. Apart'
  BY <1>1, <1>3 DEF Apart, Running, Local, Draining, At
<1>10. Batch'
  BY <1>1, <1>5 DEF Batch
<1>11. Consecutive'
  <2>1. Ready' = Ready + 1
    BY <1>1, <1>2 DEF Ready
  <2>2. Ready = first + Len(sent) + 1
    <3>1. CASE main.pc = "select"
      BY <3>1 DEF Consecutive, Running, Ready
    <3>2. CASE main.pc = "more"
      <4>1. processed = first + Len(sent) + 0
        BY <3>2 DEF Consecutive, Running
      <4> QED
        BY <3>2, <4>1, Numbers DEF Ready
    <3> QED
      BY <1>1, <3>1, <3>2
  <2>3. \A i \in 1 .. Len(resp') : resp'[i].height = Ready' + i - 1
    BY <1>4, <2>1
  <2> QED
    BY <1>1, <1>2, <1>4, <2>2, <2>3 DEF Consecutive, Running
<1> QED
  BY <1>6, <1>7, <1>8, <1>9, <1>10, <1>11

(* What Deliver hands over is the block that follows the ones before.       *)
LEMMA Delivered ==
  ASSUME IInv, Deliver
  PROVE  /\ main.pc = "deliver" /\ main'.pc \in {"select", "more"}
         /\ processed = first + Len(sent) + 1
         /\ handed' = handed \cup {first + Len(sent)}
         /\ sent' \in Seq(Block) /\ Len(sent') = Len(sent) + 1
         /\ sent'[Len(sent) + 1].height = first + Len(sent)
         /\ \A i \in 1 .. Len(sent) : sent'[i] = sent[i]
         /\ first + Len(sent) \in Height
         /\ UNCHANGED <<token, notif, resp, batch, mon, first, head, saved>>
<1> USE DEF IInv
<1> DEFINE height == main.got.height - 1
           block == Response(height, main.got.logs)
<1>1. /\ main.pc = "deliver" /\ sent' = Append(sent, block)
      /\ handed' = handed \cup {height}
      /\ UNCHANGED <<token, notif, resp, batch, mon, first, head, saved>>
  BY DEF Deliver, world
<1>2. main'.pc \in {"select", "more"}
  BY DEF Deliver, Goto, Loop
<1>3. main.got.height = processed /\ processed = first + Len(sent) + 1 /\ main.got \in Block
  BY <1>1 DEF Consecutive, Running, Rest
<1>4. /\ height = first + Len(sent) /\ height \in Nat
      /\ height < processed /\ processed \in Height /\ processed \in Nat
  <2>1. /\ processed \in Nat /\ first \in Nat /\ Len(sent) \in Nat
        /\ processed = first + Len(sent) + 1
    BY <1>3, Numbers
  <2>2. height = processed - 1
    BY <1>3
  <2> HIDE DEF height
  <2>3. height = first + Len(sent) /\ height \in Nat /\ height < processed
    BY <2>1, <2>2
  <2> QED
    BY <2>1, <2>3 DEF TypeOK
<1>5. height \in Height
  <2>1. \A n, m \in Nat : m \in Height /\ n < m => n \in Height
    BY WidthAssumption DEF Height
  <2> HIDE DEF height
  <2> QED
    BY <1>4, <2>1
<1>6. block \in Block /\ block.height = height
  <2> HIDE DEF height
  <2> QED
    BY <1>3, <1>5 DEF Response, Block
<1> HIDE DEF height, block
<1>7. sent \in Seq(Block)
  BY Numbers
<1>8. /\ sent' \in Seq(Block) /\ Len(sent') = Len(sent) + 1
      /\ sent'[Len(sent) + 1] = block
      /\ \A i \in 1 .. Len(sent) : sent'[i] = sent[i]
  BY <1>1, <1>6, <1>7, AppendProperties
<1> QED
  BY <1>1, <1>2, <1>3, <1>4, <1>5, <1>6, <1>8

LEMMA DeliverInv == ASSUME IInv, Deliver PROVE IInv'
<1> USE DEF IInv
<1>1. /\ processed \in Nat /\ first \in Nat /\ Len(sent) \in Nat
      /\ head \in Nat /\ head <= LastHead /\ LastHead \in Nat
      /\ processed <= head /\ processed \in Height
  BY Delivered, Numbers, Heights DEF OnChain, TypeOK
<1>2. processed + 1 \in Height
  <2>1. processed + 1 \in Nat /\ processed + 1 <= LastHead + 1
    BY <1>1
  <2> QED
    BY <2>1, Heights
<1>3. \/ main'.pc = "select" /\ resp = <<>> /\ processed' = processed + 1
      \/ main'.pc = "more" /\ processed' = processed
  BY DEF Deliver, Goto, Loop
<1>4. TypeOK'
  BY <1>1, <1>2, <1>3, Delivered DEF TypeOK
<1>5. Rest'
  <2>1. handed' \subseteq Height
    BY Delivered DEF Rest
  <2> QED
    BY <1>3, <2>1, Delivered DEF Rest
<1>6. OnChain'
  BY <1>1, <1>3, Delivered DEF OnChain, At
<1>7. Apart'
  BY <1>3, Delivered DEF Apart, Running, Local, Draining, At
<1>8. Batch'
  <2>1. DOMAIN batch' = {} /\ Cardinality(DOMAIN batch') <= Cap
    BY Delivered DEF Batch
  <2> QED
    BY <1>3, <2>1 DEF Batch
<1>9. Consecutive'
  <2>1. \A i \in 1 .. Len(sent') : sent'[i].height = first' + i - 1
    <3>1. \A i \in 1 .. Len(sent') : i \in 1 .. Len(sent) \/ i = Len(sent) + 1
      BY <1>1, Delivered
    <3>2. \A i \in 1 .. Len(sent) : sent'[i].height = first + i - 1
      BY Delivered DEF Consecutive
    <3>3. first + Len(sent) = first + (Len(sent) + 1) - 1
      BY <1>1
    <3>4. sent'[Len(sent) + 1].height = first + (Len(sent) + 1) - 1
      BY <3>3, Delivered
    <3> QED
      BY <3>1, <3>2, <3>4, Delivered
  <2>2. first + (Len(sent) + 1) + 0 = processed /\ first + (Len(sent) + 1) + 1 = processed + 1
    BY <1>1, Delivered
  <2>3. processed' = first' + Len(sent') + (IF main'.pc = "more" THEN 0 ELSE 1)
    BY <1>3, <2>2, Delivered
  <2>4. (\A g \in Monitors : ~Draining(g)')
          => \A i \in 1 .. Len(resp') : resp'[i].height = Ready' + i - 1
    <3>1. CASE main'.pc = "select" /\ resp = <<>>
      BY <3>1, Delivered
    <3>2. CASE main'.pc = "more" /\ processed' = processed
      <4>1. Ready' = Ready
        BY <3>2, Delivered DEF Ready
      <4>2. \A g \in Monitors : ~Draining(g)
        BY Delivered DEF Apart, Local
      <4> QED
        BY <4>1, <4>2, Delivered DEF Consecutive
    <3> QED
      BY <1>3, <3>1, <3>2
  <2> QED
    BY <1>3, <2>1, <2>3, <2>4 DEF Consecutive, Running
<1> QED
  BY <1>4, <1>5, <1>6, <1>7, <1>8, <1>9

LEMMA TakeNotificationInv ==
  ASSUME IInv, Prompt, TakeNotification \/ MoreNotifications PROVE IInv'
<1> USE DEF IInv
<1>1. /\ main.pc \in {"select", "moreNotif"}
      /\ main'.pc = "request" /\ main'.got = Head(notif)
      /\ notif # <<>> /\ notif' = Tail(notif)
      /\ UNCHANGED <<processed, token, resp, batch, mon, first, sent, handed, head, saved>>
  BY DEF TakeNotification, MoreNotifications, feed, world
<1>2. resp = <<>> /\ Len(resp) = 0
  BY DEF TakeNotification, MoreNotifications, Apart
<1>3. \A g \in Monitors : ~Draining(g)
  BY <1>1 DEF Prompt, Draining
<1>4. notif \in Seq(Height) /\ Len(notif) \in Nat /\ Len(notif) <= Cap /\ Cap \in Nat \ {0}
  BY Numbers, ListenerAssumption DEF TypeOK
<1>5. /\ Head(notif) = notif[1] /\ notif[1] \in Height /\ Len(notif) \in Nat \ {0}
      /\ notif' \in Seq(Height) /\ Len(notif') = Len(notif) - 1
      /\ \A i \in 1 .. Len(notif') : notif'[i] = notif[i + 1]
  BY <1>1, <1>4, Received
<1>6. /\ Head(notif) <= head /\ \A i \in 1 .. Len(notif') : notif'[i] <= head
      /\ Len(notif') <= Cap
  <2>1. 1 \in 1 .. Len(notif) /\ \A i \in 1 .. Len(notif') : i + 1 \in 1 .. Len(notif)
    BY <1>5
  <2>2. Len(notif') <= Cap
    BY <1>4, <1>5
  <2> QED
    BY <1>5, <2>1, <2>2 DEF OnChain
<1>7. TypeOK'
  BY <1>1, <1>5, <1>6 DEF TypeOK
<1>8. Rest'
  BY <1>1, <1>5 DEF Rest
<1>9. OnChain'
  BY <1>1, <1>6 DEF OnChain, At
<1>10. Apart'
  BY <1>1, <1>2, <1>3 DEF Apart, Running, Local, Draining, At
<1>11. Batch'
  <2>1. Cardinality(DOMAIN batch) < Cap
    <3>1. CASE main.pc = "select"
      <4>1. Cardinality(DOMAIN batch) = 0
        BY <3>1, FS_EmptySet DEF Batch
      <4> QED
        BY <4>1, <1>4
    <3>2. CASE main.pc = "moreNotif"
      BY <3>2 DEF Batch
    <3> QED
      BY <1>1, <3>1, <3>2
  <2>2. \A h \in DOMAIN batch : processed <= h
    BY DEF Batch
  <2>3. Cardinality(DOMAIN batch) <= Cap
    BY DEF Batch
  <2> QED
    BY <1>1, <2>1, <2>2, <2>3 DEF Batch
<1>12. Consecutive'
  BY <1>1, <1>2 DEF Consecutive, Running
<1> QED
  BY <1>7, <1>8, <1>9, <1>10, <1>11, <1>12

LEMMA MakeRequestInv == ASSUME IInv, MakeRequest PROVE IInv'
<1> USE DEF IInv
<1> DEFINE n == main.got
           c == Cardinality(DOMAIN batch)
<1>1. /\ main.pc = "request" /\ n = processed + c
      /\ batch' = [h \in DOMAIN batch \cup {n} |->
                     IF h = n THEN Request(Retries) ELSE batch[h]]
      /\ UNCHANGED <<processed, token, notif, resp, mon, first, sent, handed, head, saved>>
  BY DEF MakeRequest, Expected, feed, world
<1>2. \/ main'.pc = "moreNotif" /\ Cardinality(DOMAIN batch') < Cap
      \/ main'.pc = "fetch"
  BY DEF MakeRequest, Goto, Loop
<1>3. n \in Height /\ n <= head
  BY <1>1 DEF Rest, OnChain
<1>4. c \in Nat /\ processed \in Nat /\ IsFiniteSet(DOMAIN batch)
  BY Numbers
<1>5. c < Cap /\ Cap \in Nat
  BY <1>1, ListenerAssumption DEF Batch
<1>6. resp = <<>> /\ \A g \in Monitors : ~Draining(g)
  BY <1>1 DEF Apart, Local
<1>7. Request(Retries) \in Req
  <2>1. Retries \in 0 .. Retries
    BY ListenerAssumption
  <2>2. {} \in SUBSET Active
    OBVIOUS
  <2> QED
    BY <2>1, <2>2 DEF Request, Req
<1>8. Cardinality(DOMAIN batch \cup {n}) \in {c, c + 1}
  BY <1>4, FS_AddElement
<1> HIDE DEF n, c
<1>9. /\ DOMAIN batch' = DOMAIN batch \cup {n}
      /\ \A h \in DOMAIN batch' : batch'[h] \in Req
  BY <1>1, <1>7 DEF TypeOK, Req
<1>10. Cardinality(DOMAIN batch') <= Cap
  <2>1. c <= Cap /\ c + 1 <= Cap
    BY <1>4, <1>5
  <2> QED
    BY <1>8, <1>9, <2>1
<1>11. processed <= n
  BY <1>1, <1>4
<1>12. TypeOK'
  <2>1. DOMAIN batch' \subseteq Height
    BY <1>3, <1>9 DEF TypeOK
  <2> QED
    BY <1>1, <1>2, <1>9, <2>1 DEF TypeOK, Req
<1>13. Rest'
  BY <1>1, <1>2 DEF Rest
<1>14. OnChain'
  <2>1. \A h \in DOMAIN batch' : h <= head
    BY <1>3, <1>9 DEF OnChain
  <2> QED
    BY <1>1, <1>2, <2>1 DEF OnChain, At
<1>15. Apart'
  BY <1>1, <1>2, <1>6 DEF Apart, Running, Local, Draining, At
<1>16. Batch'
  BY <1>1, <1>2, <1>9, <1>10, <1>11 DEF Batch
<1>17. Consecutive'
  BY <1>1, <1>2, <1>6 DEF Consecutive, Running
<1> QED
  BY <1>12, <1>13, <1>14, <1>15, <1>16, <1>17

(* Whatever empties the channels hands nothing over.                        *)
LEMMA MissingNotificationInv == ASSUME IInv, MissingNotification PROVE IInv'
<1> USE DEF IInv
<1>1. /\ main.pc = "request" /\ main'.pc = "drain" /\ token' = TRUE /\ batch' = NoBatch
      /\ UNCHANGED <<processed, notif, resp, mon, first, sent, handed, head, saved>>
  BY DEF MissingNotification, Goto, Loop, feed, world
<1>2. DOMAIN batch' = {} /\ Cardinality(DOMAIN batch') = 0
  BY <1>1, NoRequests, FS_EmptySet
<1>3. resp = <<>> /\ \A g \in Monitors : ~Draining(g)
  BY <1>1 DEF Apart, Local
<1>4. Cap \in Nat \ {0}
  BY ListenerAssumption
<1>5. TypeOK'
  BY <1>1, <1>2 DEF TypeOK
<1>6. Rest'
  BY <1>1 DEF Rest
<1>7. OnChain'
  BY <1>1, <1>2 DEF OnChain, At
<1>8. Apart'
  BY <1>1, <1>3 DEF Apart, Running, Local, Draining, At
<1>9. Batch'
  BY <1>1, <1>2, <1>4 DEF Batch
<1>10. Consecutive'
  BY <1>1, <1>3 DEF Consecutive, Running
<1> QED
  BY <1>5, <1>6, <1>7, <1>8, <1>9, <1>10

LEMMA DrainNextInv == ASSUME IInv, DrainNext PROVE IInv'
<1> USE DEF IInv
<1>1. /\ main.pc = "drain" /\ main'.pc \in {"select", "drainTake"}
      /\ UNCHANGED <<processed, token, notif, resp, batch, mon, first, sent, handed, head, saved>>
  BY DEF DrainNext, Goto, Loop, feed, world
<1>2. resp = <<>> /\ (\A g \in Monitors : ~Draining(g)) /\ DOMAIN batch = {}
  BY <1>1 DEF Apart, Local, Batch
<1>3. TypeOK'
  BY <1>1 DEF TypeOK
<1>4. Rest'
  BY <1>1 DEF Rest
<1>5. OnChain'
  BY <1>1 DEF OnChain, At
<1>6. Apart'
  BY <1>1, <1>2 DEF Apart, Running, Local, Draining, At
<1>7. Batch'
  BY <1>1, <1>2 DEF Batch
<1>8. Consecutive'
  BY <1>1, <1>2 DEF Consecutive, Running
<1> QED
  BY <1>3, <1>4, <1>5, <1>6, <1>7, <1>8

LEMMA DrainTakeInv == ASSUME IInv, DrainTake PROVE IInv'
<1> USE DEF IInv
<1>1. /\ main.pc = "drainTake" /\ main'.pc = "drain" /\ TakeEither
      /\ UNCHANGED <<processed, token, batch, mon, first, sent, handed, head, saved>>
  BY DEF DrainTake, Goto, Loop, feed, world
<1>2. /\ notif' \in Seq(Height) /\ Len(notif') <= Cap
      /\ \A i \in 1 .. Len(notif') : notif'[i] <= head
      /\ resp = <<>> /\ resp' = <<>> /\ (\A g \in Monitors : ~Draining(g))
      /\ DOMAIN batch = {}
  BY <1>1, Taken DEF Apart, Local, Batch
<1>3. TypeOK'
  BY <1>1, <1>2 DEF TypeOK
<1>4. Rest'
  BY <1>1 DEF Rest
<1>5. OnChain'
  BY <1>1, <1>2 DEF OnChain, At
<1>6. Apart'
  BY <1>1, <1>2 DEF Apart, Running, Local, Draining, At
<1>7. Batch'
  BY <1>1, <1>2 DEF Batch
<1>8. Consecutive'
  BY <1>1, <1>2 DEF Consecutive, Running
<1> QED
  BY <1>3, <1>4, <1>5, <1>6, <1>7, <1>8

(* What Collect puts into btpBlockRespCh.                                   *)
LEMMA CollectedResponses ==
  ASSUME IInv, Collect
  PROVE  /\ resp' \in Seq(Block) /\ Len(resp') <= Cap
         /\ \A i \in 1 .. Len(resp') :
              resp'[i].height = processed + i - 1 /\ resp'[i].height <= head
<1> USE DEF IInv
<1> DEFINE c == Cardinality(Run)
           taken == [i \in 1 .. c |->
                       Response(processed + i - 1, batch[processed + i - 1].logs)]
<1>1. c \in Nat /\ c <= Cap /\ Run = processed .. processed + c - 1
  BY RunIsInterval
<1>2. resp' = resp \o taken
  BY DEF Collect, Run, Answered
<1>3. resp = <<>>
  BY DEF Collect, Apart
<1> HIDE DEF c
<1>4. processed \in Nat
  BY Numbers
<1>5. \A i \in 1 .. c : processed + i - 1 \in Run
  BY <1>1, <1>4
<1>6. \A h \in Run : h \in Height /\ h <= head /\ batch[h].logs \in SUBSET Active
  BY DEF Run, TypeOK, OnChain
<1>7. \A i \in 1 .. c : taken[i] \in Block /\ taken[i].height = processed + i - 1
  BY <1>5, <1>6 DEF Response, Block
<1>8. taken \in Seq(Block) /\ Len(taken) = c
  <2>1. taken \in [1 .. c -> Block]
    BY <1>7
  <2> QED
    BY <2>1, <1>1
<1>9. resp' = taken
  BY <1>2, <1>3, <1>8, ConcatEmptySeq
<1> QED
  BY <1>1, <1>5, <1>6, <1>7, <1>8, <1>9

LEMMA CollectInv == ASSUME IInv, Collect PROVE IInv'
<1> USE DEF IInv
<1>1. /\ main.pc = "fetch" /\ main'.pc = "select" /\ batch' = NoBatch
      /\ UNCHANGED <<processed, token, notif, mon, first, sent, handed, head, saved>>
  BY DEF Collect, Goto, Loop, feed, world
<1>2. DOMAIN batch' = {} /\ Cardinality(DOMAIN batch') = 0
  BY <1>1, NoRequests, FS_EmptySet
<1>3. Cap \in Nat \ {0}
  BY ListenerAssumption
<1>4. TypeOK'
  BY <1>1, <1>2, CollectedResponses DEF TypeOK, Block
<1>5. Rest'
  BY <1>1 DEF Rest
<1>6. OnChain'
  BY <1>1, <1>2, CollectedResponses DEF OnChain, At
<1>7. Apart'
  BY <1>1 DEF Apart, Running, Local
<1>8. Batch'
  BY <1>1, <1>2, <1>3 DEF Batch
<1>9. Consecutive'
  <2>1. Ready' = processed
    BY <1>1 DEF Ready
  <2>2. \A i \in 1 .. Len(resp') : resp'[i].height = Ready' + i - 1
    BY <2>1, CollectedResponses
  <2> QED
    BY <1>1, <2>2 DEF Consecutive, Running
<1> QED
  BY <1>4, <1>5, <1>6, <1>7, <1>8, <1>9

LEMMA StepInv == ASSUME IInv, [Next /\ Prompt]_vars PROVE IInv'
<1>1. CASE Main /\ Prompt
  BY <1>1, StartInv, TakeResponseInv, DeliverInv, TakeNotificationInv,
     MakeRequestInv, MissingNotificationInv, CollectInv, DrainNextInv,
     DrainTakeInv, ReconnectInv DEF Main
<1>2. CASE StartFails
  BY <1>2, StartFailsInv
<1>3. CASE Worker
  BY <1>3, WorkerInv DEF Worker
<1>4. CASE (\E g \in Monitors : Monitor(g) \/ Break(g)) /\ Prompt
  BY <1>4, MonitorsInv, SendInv, MonitorTakesInv DEF Monitor
<1>5. CASE Mine \/ Save \/ Crash
  BY <1>5, MineInv, SaveInv, CrashInv
<1>6. CASE UNCHANGED vars
  BY <1>6, StutterInv
<1> QED
  BY <1>1, <1>2, <1>3, <1>4, <1>5, <1>6 DEF Next

(* The inductive invariant holds in every state reached in time.            *)
LEMMA ListenerInvariant == TimelySpec => []IInv
<1>1. IInv /\ [Next /\ Prompt]_vars => IInv'
  BY StepInv
<1> QED
  BY InitInv, <1>1, PTL DEF TimelySpec

(* Types: no height leaves uint64, processedheight included, which counts   *)
(* on with every response (icon/listener.go:144), and neither channel is    *)
(* sent more than it has room for: what a batch puts into btpBlockRespCh at *)
(* once (icon/listener.go:195-205) never blocks the loop that empties it.   *)
THEOREM IconListenerTypeOK == TimelySpec => []TypeOK
<1>1. IInv => TypeOK
  BY DEF IInv
<1> QED
  BY ListenerInvariant, <1>1, PTL

-----------------------------------------------------------------------------
(* The listener implements BlockFeed.                                       *)

(* The block handed over next, while a listener runs.                       *)
Upcoming == first + Len(sent)

(* No block from the one before StartAt on (its events come with the        *)
(* notification of StartAt) is missing below the one handed over next, nor  *)
(* below the saved one, from which a restarted listener goes on.            *)
NothingMissed ==
  /\ Running => StartAt - 1 .. Upcoming - 1 \subseteq handed
  /\ saved # 0 => StartAt - 1 .. saved \subseteq handed

LEMMA UpcomingIsNat ==
  ASSUME IInv
  PROVE  first \in Nat /\ Len(sent) \in Nat /\ Upcoming \in Nat /\ Upcoming # None
<1>1. first \in Nat /\ Len(sent) \in Nat
  BY Numbers
<1>2. Upcoming \in Nat
  BY <1>1 DEF Upcoming
<1> QED
  BY <1>1, <1>2, ListenerAssumption

(* Wherever a listener starts, the blocks from StartAt - 1 to the one before *)
(* it have been handed over: it starts at the saved block, at StartAt or     *)
(* below it.                                                                *)
LEMMA StartPassesNothing ==
  ASSUME IInv, NothingMissed, StartAt # 0
  PROVE  StartAt - 1 .. (IconStart(saved, StartAt, head) - 1) - 1 \subseteq handed
<1> DEFINE start == IconStart(saved, StartAt, head)
<1>1. saved \in Nat /\ StartAt \in Nat /\ head \in Nat
  BY Numbers, Heights DEF IInv, TypeOK
<1>2. start = Prefer(saved, StartAt, head)
  BY DEF IconStart
<1> HIDE DEF start
<1>3. (saved # 0 /\ start = saved) \/ start \in 0 .. StartAt
  BY <1>1, <1>2 DEF Prefer
<1>4. CASE saved # 0 /\ start = saved
  <2>1. StartAt - 1 .. (start - 1) - 1 \subseteq StartAt - 1 .. saved
    BY <1>1, <1>4
  <2> QED
    BY <1>4, <2>1 DEF NothingMissed, start
<1>5. CASE start \in 0 .. StartAt
  <2>1. StartAt - 1 .. (start - 1) - 1 = {}
    BY <1>1, <1>5
  <2> QED
    BY <2>1 DEF start
<1> QED
  BY <1>3, <1>4, <1>5

(* Every step of the listener is one of the feed, or changes nothing of it. *)
LEMMA StartIsFeedStart ==
  ASSUME IInv, NothingMissed, StartAt # 0, Start
  PROVE  Feed!Start /\ NothingMissed'
<1>1. /\ main.pc = "down" /\ main'.pc = "select"
      /\ processed' = IconStart(saved, StartAt, head) /\ first' = processed' - 1
      /\ UNCHANGED <<sent, handed, saved>>
  BY DEF Start, Goto, Loop, world
<1>2. sent = <<>> /\ Len(sent) = 0
  BY <1>1 DEF IInv, Apart, Running
<1>3. first' \in Nat
  BY <1>1, StartIsHeight
<1>4. StartAt - 1 .. first' - 1 \subseteq handed
  BY <1>1, StartPassesNothing
<1>5. Upcoming' = first' /\ first' + Len(sent') = first'
  <2>1. \A n \in Nat : n + 0 = n
    OBVIOUS
  <2>2. first' + Len(sent') = first' + 0
    BY <1>1, <1>2
  <2> QED
    BY <1>3, <2>1, <2>2 DEF Upcoming
<1>6. NothingMissed'
  BY <1>1, <1>4, <1>5 DEF NothingMissed
<1>7. Feed!Start
  BY <1>1, <1>3, <1>4, <1>5 DEF Feed!Start
<1> QED
  BY <1>6, <1>7

LEMMA DeliverIsHandOver ==
  ASSUME IInv, NothingMissed, StartAt # 0, Deliver
  PROVE  Feed!HandOver /\ NothingMissed'
<1>1. Running /\ Running' /\ UNCHANGED <<first, saved>>
  BY Delivered DEF Running
<1>2. handed' = handed \cup {Upcoming} /\ Len(sent') = Len(sent) + 1
  BY Delivered DEF Upcoming
<1>3. Upcoming' = Upcoming + 1
  BY <1>1, <1>2, UpcomingIsNat DEF Upcoming
<1>4. first' + Len(sent') = first + Len(sent) + 1
  BY <1>3 DEF Upcoming
<1>5. Feed!HandOver
  <2>1. main.pc \notin {"down", "returned"} /\ main'.pc \notin {"down", "returned"}
    BY <1>1 DEF Running
  <2> QED
    BY <2>1, <1>2, <1>4, UpcomingIsNat DEF Feed!HandOver, Upcoming
<1>6. \A h \in StartAt - 1 .. Upcoming' - 1 :
        h \in StartAt - 1 .. Upcoming - 1 \/ h = Upcoming
  <2>1. StartAt \in Nat
    BY Heights
  <2> QED
    BY <1>3, <2>1, UpcomingIsNat
<1>7. NothingMissed'
  BY <1>1, <1>2, <1>6 DEF NothingMissed
<1> QED
  BY <1>5, <1>7

LEMMA CrashIsStop == ASSUME NothingMissed, Crash PROVE Feed!Stop /\ NothingMissed'
  BY DEF Crash, Loop, Running, Feed!Stop, NothingMissed

(* Only a height that was handed over in this life is saved.                *)
LEMMA SavePassesNothing ==
  ASSUME IInv, NothingMissed, StartAt # 0, Save
  PROVE  NothingMissed' /\ UNCHANGED <<main, first, sent, handed>>
<1>1. UNCHANGED <<main, first, sent, handed>>
  BY DEF Save, feed
<1>2. DOMAIN sent = 1 .. Len(sent)
  BY Numbers
<1>3. PICK i \in 1 .. Len(sent) : saved' = sent[i].height
  BY <1>2 DEF Save
<1>4. saved' = first + i - 1
  BY <1>3 DEF IInv, Consecutive
<1>5. Running
  <2>1. Len(sent) # 0
    BY <1>3, Numbers
  <2> QED
    BY <2>1 DEF IInv, Apart
<1>6. StartAt - 1 .. saved' \subseteq StartAt - 1 .. Upcoming - 1
  BY <1>3, <1>4, UpcomingIsNat, Heights DEF Upcoming
<1> QED
  BY <1>1, <1>5, <1>6 DEF NothingMissed, Running, Upcoming

LEMMA OthersPassNothing ==
  ASSUME IInv, [Next /\ Prompt]_vars, ~ Start, ~ Deliver, ~ Crash, ~ Save
  PROVE  UNCHANGED <<first, sent, handed, saved, Running>>
<1>1. CASE Main
  <2>1. CASE TakeResponse \/ More \/ TakeNotification \/ MoreNotifications
    BY <2>1 DEF TakeResponse, More, TakeNotification, MoreNotifications,
                feed, world, Running
  <2>2. CASE MakeRequest \/ MissingNotification \/ Collect
    BY <2>2 DEF MakeRequest, MissingNotification, Collect, Goto, Loop, feed, world, Running
  <2>3. CASE DrainNext \/ DrainTake \/ \E g \in Monitors : Reconnect(g)
    BY <2>3 DEF DrainNext, DrainTake, Reconnect, Goto, Loop, feed, world, Running
  <2> QED
    BY <1>1, <2>1, <2>2, <2>3 DEF Main
<1>2. CASE StartFails \/ Mine
  BY <1>2 DEF StartFails, Mine, Goto, Loop, feed, world, Running
<1>3. CASE Worker
  BY <1>3 DEF Worker, Answer, HeaderFails, ProofFails, feed, world, Running
<1>4. CASE \E g \in Monitors : Monitor(g) \/ Break(g)
  BY <1>4 DEF Monitor, Dial, Read, SendNotification, Canceled, Wake, MonitorDrains,
              MonitorTakes, Break, feed, world, Running
<1>5. CASE UNCHANGED vars
  BY <1>5 DEF vars, feed, world, Running
<1> QED
  BY <1>1, <1>2, <1>3, <1>4, <1>5 DEF Next

(* A listener that returned never handed over anything: BlockFeed is down.  *)
LEMMA DownWhileNotRunning ==
  ASSUME IInv
  PROVE  (main.pc = "down" \/ (main.pc = "returned" /\ first = 0)) <=> ~Running
  BY DEF IInv, Apart, Running

LEMMA FeedStep ==
  ASSUME IInv, NothingMissed, StartAt # 0, [Next /\ Prompt]_vars
  PROVE  /\ NothingMissed'
         /\ [Feed!Next]_<<IF main.pc = "down" \/ (main.pc = "returned" /\ first = 0)
                          THEN None ELSE first + Len(sent), handed>>
<1>1. CASE Start
  BY <1>1, StartIsFeedStart DEF Feed!Next
<1>2. CASE Deliver
  BY <1>2, DeliverIsHandOver DEF Feed!Next
<1>3. CASE Crash
  BY <1>3, CrashIsStop DEF Feed!Next
<1>4. CASE Save
  BY <1>4, SavePassesNothing
<1>5. CASE ~ (Start \/ Deliver \/ Crash \/ Save)
  <2>1. UNCHANGED <<first, sent, handed, saved, Running>>
    BY <1>5, OthersPassNothing
  <2>2. NothingMissed'
    BY <2>1 DEF NothingMissed, Upcoming
  <2>3. (main'.pc = "down" \/ (main'.pc = "returned" /\ first' = 0)) <=> ~Running'
    <3>1. IInv'
      BY StepInv
    <3> QED
      BY <3>1 DEF IInv, Apart, Running
  <2> QED
    BY <2>1, <2>2, <2>3, DownWhileNotRunning
<1> QED
  BY <1>1, <1>2, <1>3, <1>4, <1>5

(* The engine is handed consecutive blocks, and after notifications that    *)
(* are missing, stale or twice there, failing requests, broken connections  *)
(* and restarts none from the configured start on is passed by              *)
(* (icon/listener.go:139-146, 195-205): the listener implements BlockFeed,  *)
(* as long as reconnect's emptying of the channels is not interleaved with  *)
(* their use.  StartHeight has to be set: without it nothing says from      *)
(* which block on the engine wants to know.                                 *)
THEOREM IconListenerHandsOverInOrder ==
  ASSUME StartAt # 0
  PROVE  TimelySpec => HandsOverInOrder
<1>1. Init => Feed!Init /\ NothingMissed
  BY DEF Init, Loop, Running, Feed!Init, NothingMissed
<1>2. IInv /\ NothingMissed /\ [Next /\ Prompt]_vars
        => /\ NothingMissed'
           /\ [Feed!Next]_<<IF main.pc = "down" \/ (main.pc = "returned" /\ first = 0)
                            THEN None ELSE first + Len(sent), handed>>
  BY FeedStep
<1> QED
  BY <1>1, <1>2, ListenerInvariant, PTL DEF TimelySpec, HandsOverInOrder, Feed!Spec
=============================================================================
