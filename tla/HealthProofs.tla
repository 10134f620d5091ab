---------------------------- MODULE HealthProofs ----------------------------
(***************************************************************************)
(* Proofs about Health for every set of nodes and responders, every set of *)
(* rumours and every table of thresholds: its type invariant, that no      *)
(* threshold is missed while the cluster stays in its band, and that a     *)
(* target in quarantine has a timer.                                       *)
(***************************************************************************)
EXTENDS Health, TLAPS

(* NoMissedThreshold for one node, and QuarantineHasTimer for one node: both
   speak of one phonebook at a time, and a step writes one phonebook. *)
Graded(n) ==
  resizes = 0 /\ n \in member =>
    /\ score[n] >= Quarantine[band] => status[n] \in {"quarantined", "failed"}
    /\ score[n] >= Suspect[band] => status[n] # "active"

Timed(n) == n \in member /\ status[n] = "quarantined" => timer[n] # "off"

Sound == \A n \in Nodes : Graded(n) /\ Timed(n)

Inv == TypeOK /\ Sound

(* The invariant is the two properties of the runs. *)
LEMMA SoundMeans ==
  ASSUME TypeOK
  PROVE  Sound <=> NoMissedThreshold /\ QuarantineHasTimer
  BY DEF TypeOK, Sound, Graded, Timed, NoMissedThreshold, QuarantineHasTimer

-----------------------------------------------------------------------------
(* The thresholds of a band are scores above 0, the lower one first. *)
LEMMA Thresholds ==
  ASSUME NEW b \in Bands
  PROVE  /\ Suspect[b] \in Nat /\ Quarantine[b] \in Nat
         /\ 0 < Suspect[b] /\ Suspect[b] <= Quarantine[b]
         /\ MaxScore \in Nat
  BY HealthAssumption

(* A failed ping leaves the score a score. *)
LEMMA RaiseTyped ==
  ASSUME NEW s \in Scores
  PROVE  Raise(s) \in Scores
  BY HealthAssumption DEF Raise, Scores

(* The answer of a ping. *)
LEMMA PingTyped == Ping \subseteq Answers
  BY DEF Ping, Answers

(* What a node gossips is a set of messages. *)
LEMMA GossipTyped ==
  ASSUME TypeOK, NEW n \in Nodes,
         NEW kinds \in SUBSET ({"alive", "score", "ping", "crossed"} \X Scores),
         Gossip(n, kinds)
  PROVE  net' \subseteq Messages
<1>1. \A k \in kinds, m \in {x \in Nodes \ {n} : Room(x)} : Msg(k[1], m, k[2]) \in Messages
  BY DEF Msg, Messages
<1> QED
  BY <1>1 DEF Gossip, TypeOK

(* So is the news of a failed ping. *)
LEMMA NewsTyped ==
  ASSUME NEW n \in Nodes, NEW s \in Scores
  PROVE  FailureNews(n, s) \subseteq {"alive", "score", "ping", "crossed"} \X Scores
  BY HealthAssumption DEF FailureNews, Scores

-----------------------------------------------------------------------------
(* What a step does to the phonebook of n, and to no other.  Another node's
   row is as it was. *)
Elsewhere(n) ==
  \A m \in Nodes \ {n} : /\ score'[m] = score[m] /\ status'[m] = status[m]
                         /\ timer'[m] = timer[m]
                         /\ m \in member' <=> m \in member

(* Whatever happens to the phonebook of n, the others stay sound. *)
LEMMA SoundElsewhere ==
  ASSUME TypeOK, Sound, NEW n \in Nodes, Elsewhere(n), UNCHANGED <<band, resizes>>,
         Graded(n)', Timed(n)'
  PROVE  Sound'
<1> SUFFICES ASSUME NEW m \in Nodes PROVE Graded(m)' /\ Timed(m)'
  BY DEF Sound
<1>1. CASE m = n
  BY <1>1
<1>2. CASE m # n
  <2>1. Graded(m) /\ Timed(m)
    BY DEF Sound
  <2> QED
    BY <1>2, <2>1 DEF Elsewhere, Graded, Timed
<1> QED
  BY <1>1, <1>2

(* A new score, with the crossings it makes, keeps the row graded and
   timed: old and new are compared with the same thresholds. *)
LEMMA PutScoreSound ==
  ASSUME TypeOK, Sound, NEW n \in Nodes, NEW new \in Scores, n \in member,
         PutScore(n, new), UNCHANGED <<band, resizes, member>>
  PROVE  /\ score' \in [Nodes -> Scores] /\ status' \in [Nodes -> Statuses]
         /\ timer' \in [Nodes -> Timers]
         /\ Sound'
<1> DEFINE q == Quarantine[band]
           s == Suspect[band]
<1>0. /\ score[n] \in Nat /\ new \in Nat /\ q \in Nat /\ s \in Nat /\ s <= q
      /\ score' = [score EXCEPT ![n] = new] /\ score'[n] = new
  BY Thresholds, HealthAssumption DEF TypeOK, Scores, PutScore
<1>1. /\ score' \in [Nodes -> Scores] /\ status' \in [Nodes -> Statuses]
      /\ timer' \in [Nodes -> Timers] /\ Elsewhere(n)
  BY <1>0 DEF PutScore, CheckThresholds, TypeOK, Statuses, Timers, Elsewhere
<1>2. Graded(n) /\ Timed(n)
  BY DEF Sound
<1>3. CASE score[n] < q /\ new >= q
  <2>1. status'[n] = "quarantined" /\ timer'[n] = "running"
    BY <1>3 DEF PutScore, CheckThresholds, TypeOK
  <2>2. Graded(n)' /\ Timed(n)'
    BY <2>1 DEF Graded, Timed
  <2> QED
    BY <1>1, <2>2, SoundElsewhere
<1>4. CASE ~(score[n] < q /\ new >= q) /\ score[n] < s /\ new >= s
  <2>1. status'[n] = "suspected" /\ timer' = timer
    BY <1>4 DEF PutScore, CheckThresholds, TypeOK
  <2>2. ~(new >= q)
    BY <1>0, <1>4
  <2>3. Graded(n)' /\ Timed(n)'
    BY <1>0, <2>1, <2>2 DEF Graded, Timed
  <2> QED
    BY <1>1, <2>3, SoundElsewhere
<1>5. CASE ~(score[n] < q /\ new >= q) /\ ~(score[n] < s /\ new >= s)
  <2>1. status'[n] = status[n] /\ timer' = timer
    BY <1>5 DEF PutScore, CheckThresholds, TypeOK
  <2>2. (new >= q => score[n] >= q) /\ (new >= s => score[n] >= s)
    BY <1>0, <1>5
  <2>3. Graded(n)' /\ Timed(n)'
    BY <1>0, <1>2, <2>1, <2>2 DEF Graded, Timed
  <2> QED
    BY <1>1, <2>3, SoundElsewhere
<1> QED
  BY <1>3, <1>4, <1>5

(* A failed ping is a new score, or nothing. *)
LEMMA RecordFailureSound ==
  ASSUME TypeOK, Sound, NEW n \in Nodes, RecordFailure(n),
         UNCHANGED <<band, resizes, member>>
  PROVE  /\ score' \in [Nodes -> Scores] /\ status' \in [Nodes -> Statuses]
         /\ timer' \in [Nodes -> Timers]
         /\ Sound'
<1>1. CASE n \in member
  <2>1. Raise(score[n]) \in Scores
    BY RaiseTyped DEF TypeOK
  <2> QED
    BY <1>1, <2>1, PutScoreSound DEF RecordFailure
<1>2. CASE n \notin member
  BY <1>2 DEF RecordFailure, TypeOK, Sound, Graded, Timed
<1> QED
  BY <1>1, <1>2

(* A row that is set back to score 0 and active is sound, whatever becomes
   of its timer. *)
LEMMA FreshRowSound ==
  ASSUME TypeOK, Sound, NEW n \in Nodes, Elsewhere(n), UNCHANGED <<band, resizes>>,
         n \in member' => score'[n] = 0 /\ status'[n] = "active"
  PROVE  Sound'
<1>1. /\ ~(0 >= Quarantine[band]) /\ ~(0 >= Suspect[band])
  BY Thresholds DEF TypeOK
<1>2. Graded(n)' /\ Timed(n)'
  BY <1>1 DEF Graded, Timed
<1> QED
  BY <1>2, SoundElsewhere

(* A successful ping and an "alive" message do that. *)
LEMMA ResetSound ==
  ASSUME TypeOK, Sound, NEW n \in Nodes, Reset(n),
         timer' \in {timer, [timer EXCEPT ![n] = "off"]}, UNCHANGED <<band, resizes, member>>
  PROVE  /\ score' \in [Nodes -> Scores] /\ status' \in [Nodes -> Statuses]
         /\ timer' \in [Nodes -> Timers]
         /\ Sound'
<1>1. /\ score' \in [Nodes -> Scores] /\ status' \in [Nodes -> Statuses]
      /\ timer' \in [Nodes -> Timers] /\ Elsewhere(n)
  BY HealthAssumption DEF Reset, TypeOK, Scores, Statuses, Timers, Elsewhere
<1>2. n \in member' => score'[n] = 0 /\ status'[n] = "active"
  BY DEF Reset, TypeOK
<1> QED
  BY <1>1, <1>2, FreshRowSound

(* A step that leaves the rows alone. *)
LEMMA RowsKept ==
  ASSUME Sound, UNCHANGED <<band, resizes, member, score, status, timer>>
  PROVE  Sound'
  BY DEF Sound, Graded, Timed

-----------------------------------------------------------------------------
(* The initial state. *)
LEMMA InitInv == Init => Inv
<1> SUFFICES ASSUME Init PROVE Inv
  OBVIOUS
<1>1. TypeOK
  BY HealthAssumption DEF Init, TypeOK, Scores, Statuses, Timers, Answers
<1>2. /\ ~(0 >= Quarantine[band]) /\ ~(0 >= Suspect[band])
  BY <1>1, Thresholds DEF TypeOK
<1>3. Sound
  BY <1>2 DEF Init, Sound, Graded, Timed
<1> QED
  BY <1>1, <1>3 DEF Inv

(* The probe loop. *)
LEMMA LoopInv ==
  ASSUME Inv, NEW n \in Nodes, Loop(n)
  PROVE  Inv'
<1> USE DEF Inv
<1>1. CASE ProbeStart(n)
  <2>1. Sound'
    BY <1>1, RowsKept DEF ProbeStart
  <2> QED
    BY <1>1, <2>1, PingTyped DEF ProbeStart, TypeOK
<1>2. CASE OnProbeSuccess(n)
  <2>1. {<<"alive", 0>>} \subseteq {"alive", "score", "ping", "crossed"} \X Scores
    BY HealthAssumption DEF Scores
  <2>2. net' \subseteq Messages
    BY <1>2, <2>1, GossipTyped DEF OnProbeSuccess
  <2>3. /\ score' \in [Nodes -> Scores] /\ status' \in [Nodes -> Statuses]
        /\ timer' \in [Nodes -> Timers] /\ Sound'
    BY <1>2, ResetSound DEF OnProbeSuccess, RecordSuccess
  <2> QED
    BY <1>2, <2>2, <2>3 DEF OnProbeSuccess, TypeOK, Answers
<1>3. CASE OnDirectPingFail(n)
  <2>1. /\ score' \in [Nodes -> Scores] /\ status' \in [Nodes -> Statuses]
        /\ timer' \in [Nodes -> Timers] /\ Sound'
    BY <1>3, RecordFailureSound DEF OnDirectPingFail
  <2> DEFINE s == IF n \in member THEN score'[n] ELSE 0
  <2>2. s \in Scores /\ 0 \in Scores
    BY <2>1, HealthAssumption DEF Scores
  <2>3. FailureNews(n, s) \cup {<<"ping", 0>>} \subseteq
          {"alive", "score", "ping", "crossed"} \X Scores
    BY <2>2, NewsTyped
  <2>4. Gossip(n, FailureNews(n, s) \cup {<<"ping", 0>>})
    BY <1>3 DEF OnDirectPingFail
  <2>5. net' \subseteq Messages
    <3> HIDE DEF s
    <3> QED
      BY <2>3, <2>4, GossipTyped
  <2> QED
    BY <1>3, <2>1, <2>5 DEF OnDirectPingFail, TypeOK, Answers
<1> QED
  BY <1>1, <1>2, <1>3 DEF Loop

(* The message loop. *)
LEMMA MessageLoopInv ==
  ASSUME Inv, NEW n \in Nodes, MessageLoop(n)
  PROVE  Inv'
<1> USE DEF Inv
<1>1. ASSUME NEW m \in net, OnScoreUpdate(n, m)
      PROVE  Inv'
  <2>1. m.score \in Scores
    BY DEF TypeOK, Messages
  <2>2. /\ score' \in [Nodes -> Scores] /\ status' \in [Nodes -> Statuses]
        /\ timer' \in [Nodes -> Timers] /\ Sound'
    <3>1. CASE m.kind = "alive" /\ Reset(n) /\ timer' = [timer EXCEPT ![n] = "off"]
      BY <1>1, <3>1, ResetSound DEF OnScoreUpdate
    <3>2. CASE n \in member /\ PutScore(n, m.score)
      BY <1>1, <2>1, <3>2, PutScoreSound DEF OnScoreUpdate
    <3>3. CASE UNCHANGED <<score, status, timer>>
      BY <1>1, <3>3, RowsKept DEF OnScoreUpdate, TypeOK
    <3> QED
      BY <1>1, <3>1, <3>2, <3>3 DEF OnScoreUpdate
  <2> QED
    BY <1>1, <2>2 DEF OnScoreUpdate, TypeOK
<1>2. ASSUME NEW m \in net, OnPingRequest(n, m)
      PROVE  Inv'
  <2>1. /\ score' \in [Nodes -> Scores] /\ status' \in [Nodes -> Statuses]
        /\ timer' \in [Nodes -> Timers] /\ Sound'
    <3>1. CASE RecordFailure(n)
      BY <1>2, <3>1, RecordFailureSound DEF OnPingRequest
    <3>2. CASE UNCHANGED <<score, status, timer>>
      BY <1>2, <3>2, RowsKept DEF OnPingRequest, TypeOK
    <3> QED
      BY <1>2, <3>1, <3>2 DEF OnPingRequest
  <2>2. hand' \in [Nodes -> Answers \cup {"confirmed"}]
    BY <1>2, PingTyped DEF OnPingRequest, TypeOK
  <2> QED
    BY <1>2, <2>1, <2>2 DEF OnPingRequest, TypeOK
<1>3. ASSUME NEW m \in net, OnThresholdCrossed(n, m)
      PROVE  Inv'
  <2>1. Sound'
    BY <1>3, RowsKept DEF OnThresholdCrossed
  <2> QED
    BY <1>3, <2>1 DEF OnThresholdCrossed, TypeOK
<1>4. CASE IndirectSuccess(n)
  <2>1. {<<"alive", 0>>} \subseteq {"alive", "score", "ping", "crossed"} \X Scores
    BY HealthAssumption DEF Scores
  <2>2. net' \subseteq Messages
    BY <1>4, <2>1, GossipTyped DEF IndirectSuccess
  <2>3. /\ score' \in [Nodes -> Scores] /\ status' \in [Nodes -> Statuses]
        /\ timer' \in [Nodes -> Timers] /\ Sound'
    BY <1>4, ResetSound DEF IndirectSuccess, RecordSuccess
  <2> QED
    BY <1>4, <2>2, <2>3 DEF IndirectSuccess, TypeOK, Answers
<1>5. CASE IndirectFail(n)
  <2> DEFINE s == IF n \in member THEN score[n] ELSE 0
  <2>1. s \in Scores
    BY HealthAssumption DEF TypeOK, Scores
  <2>2. Gossip(n, FailureNews(n, s))
    BY <1>5 DEF IndirectFail
  <2>3. net' \subseteq Messages
    <3> HIDE DEF s
    <3> QED
      BY <2>1, <2>2, NewsTyped, GossipTyped
  <2>4. Sound'
    BY <1>5, RowsKept DEF IndirectFail
  <2> QED
    BY <1>5, <2>3, <2>4 DEF IndirectFail, TypeOK, Answers
<1> QED
  BY <1>1, <1>2, <1>3, <1>4, <1>5 DEF MessageLoop

(* The quarantine loop, and the subscriber that writes a fresh entry. *)
LEMMA EntryInv ==
  ASSUME Inv, NEW n \in Nodes,
         CheckLoop(n) \/ ProbeQuarantined(n) \/ AddOrUpdateEntry(n) \/ Elapse(n)
  PROVE  Inv'
<1> USE DEF Inv
<1>1. CASE QuarantineTimeout(n)
  <2>1. TypeOK'
    BY <1>1 DEF QuarantineTimeout, TypeOK, Statuses, Timers
  <2>2. Elsewhere(n) /\ Graded(n) /\ Timed(n)
    BY <1>1 DEF QuarantineTimeout, Elsewhere, Sound, TypeOK
  <2>3. Graded(n)' /\ Timed(n)'
    BY <1>1, <2>2 DEF QuarantineTimeout, Graded, Timed, TypeOK
  <2> QED
    BY <1>1, <2>1, <2>2, <2>3, SoundElsewhere DEF QuarantineTimeout
<1>2. CASE RemoveFailed(n)
  <2>1. TypeOK' /\ Elsewhere(n) /\ n \notin member'
    BY <1>2, HealthAssumption DEF RemoveFailed, TypeOK, Statuses, Scores, Elsewhere
  <2> QED
    BY <1>2, <2>1, FreshRowSound DEF RemoveFailed
<1>3. CASE ProbeQuarantined(n)
  <2>1. {<<"ping", 0>>} \subseteq {"alive", "score", "ping", "crossed"} \X Scores
    BY HealthAssumption DEF Scores
  <2>2. net' \subseteq Messages
    BY <1>3, <2>1, GossipTyped DEF ProbeQuarantined
  <2>3. Sound'
    BY <1>3, RowsKept DEF ProbeQuarantined
  <2> QED
    BY <1>3, <2>2, <2>3 DEF ProbeQuarantined, TypeOK
<1>4. CASE AddOrUpdateEntry(n)
  <2>1. TypeOK' /\ Elsewhere(n) /\ score'[n] = 0 /\ status'[n] = "active"
    BY <1>4, HealthAssumption DEF AddOrUpdateEntry, TypeOK, Statuses, Scores, Elsewhere
  <2> QED
    BY <1>4, <2>1, FreshRowSound DEF AddOrUpdateEntry
<1>5. CASE Elapse(n)
  <2>1. /\ timer[n] = "running" /\ timer' = [timer EXCEPT ![n] = "due"]
        /\ UNCHANGED <<up, outages, band, resizes, member, score, status, removing, probe,
                       hand, net, rejoined>>
    BY <1>5 DEF Elapse
  <2>2. TypeOK' /\ timer'[n] = "due" /\ Elsewhere(n)
    BY <2>1 DEF TypeOK, Timers, Elsewhere
  <2>3. Graded(n) /\ Timed(n)
    BY DEF Sound
  <2>4. Graded(n)' /\ Timed(n)'
    BY <2>1, <2>2, <2>3 DEF Graded, Timed
  <2> QED
    BY <2>1, <2>2, <2>4, SoundElsewhere
<1> QED
  BY <1>1, <1>2, <1>3, <1>4, <1>5 DEF CheckLoop

(* What the target, the cluster and the nodes outside the model do. *)
LEMMA WorldInv ==
  ASSUME Inv,
         \/ GoDown \/ ComeBack
         \/ \E b \in Bands : Resize(b)
         \/ \E n \in Nodes, r \in Rumours : Hear(n, r)
  PROVE  Inv'
<1> USE DEF Inv
<1>1. CASE GoDown
  <2>1. Sound'
    BY <1>1, RowsKept DEF GoDown
  <2>2. outages' \in 0 .. MaxOutages
    BY <1>1, HealthAssumption DEF GoDown, TypeOK
  <2> QED
    BY <1>1, <2>1, <2>2 DEF GoDown, TypeOK
<1>2. CASE ComeBack
  <2>1. Sound'
    BY <1>2, RowsKept DEF ComeBack
  <2> QED
    BY <1>2, <2>1 DEF ComeBack, TypeOK
<1>3. ASSUME NEW b \in Bands, Resize(b)
      PROVE  Inv'
  <2>1. resizes' \in 0 .. MaxResizes /\ resizes' # 0
    BY <1>3, HealthAssumption DEF Resize, TypeOK
  <2>2. timer' \in [Nodes -> Timers] /\ \A n \in Nodes : timer[n] # "off" => timer'[n] # "off"
    BY <1>3 DEF Resize, TypeOK, Timers
  <2>3. TypeOK'
    BY <1>3, <2>1, <2>2 DEF Resize, TypeOK
  <2>4. Sound'
    BY <1>3, <2>1, <2>2 DEF Resize, Sound, Graded, Timed
  <2> QED
    BY <2>3, <2>4
<1>4. ASSUME NEW n \in Nodes, NEW r \in Rumours, Hear(n, r)
      PROVE  Inv'
  <2>1. Msg(r[1], n, r[2]) \in Messages
    BY HealthAssumption DEF Msg, Messages, Scores
  <2>2. Sound'
    BY <1>4, RowsKept DEF Hear
  <2> QED
    BY <1>4, <2>1, <2>2 DEF Hear, TypeOK
<1> QED
  BY <1>1, <1>2, <1>3, <1>4

(* Every step preserves the invariant. *)
LEMMA NextInv == Inv /\ [Next]_vars => Inv'
<1> SUFFICES ASSUME Inv, [Next]_vars PROVE Inv'
  OBVIOUS
<1>1. CASE UNCHANGED vars
  BY <1>1 DEF vars, Inv, TypeOK, Sound, Graded, Timed
<1>2. CASE Next
  BY <1>2, LoopInv, MessageLoopInv, EntryInv, WorldInv DEF Next
<1> QED
  BY <1>1, <1>2

(* The invariant holds in every reachable state. *)
LEMMA Invariant == Spec => []Inv
  BY InitInv, NextInv, PTL DEF Spec

-----------------------------------------------------------------------------
(* Scores, statuses, timers and messages keep their types in every behaviour
   of the tracker and the monitor. *)
THEOREM TypeCorrect == Spec => []TypeOK
<1>1. Inv => TypeOK
  BY DEF Inv
<1> QED
  BY <1>1, Invariant, PTL

(* checkThresholds looks at crossings only, and yet misses no threshold as
   long as the cluster stays in its band, whatever any number of nodes say. *)
THEOREM NoThresholdMissed == Spec => []NoMissedThreshold
<1>1. Inv => NoMissedThreshold
  BY SoundMeans DEF Inv
<1> QED
  BY <1>1, Invariant, PTL

(* A target in quarantine has a timer, in a cluster of any size, across
   resizes, rejoins and rumours. *)
THEOREM QuarantineTimed == Spec => []QuarantineHasTimer
<1>1. Inv => QuarantineHasTimer
  BY SoundMeans DEF Inv
<1> QED
  BY <1>1, Invariant, PTL
=============================================================================
