------------------------------- MODULE Health -------------------------------
(***************************************************************************)
(* Failure detection (node/health): what the nodes of a cluster believe    *)
(* about one of them, the target.  Every other node keeps a reliability    *)
(* score and a status for it in its phonebook (score.go), raises the score *)
(* on failed pings, and gossips scores, requests for indirect pings and    *)
(* threshold crossings (monitor.go).  Rumours are what nodes that are not  *)
(* modelled may say at any time: with them a few nodes stand for a cluster *)
(* of any size.                                                            *)
(*                                                                         *)
(* On a node the probe loop, the message loop and the quarantine loop are  *)
(* goroutines of their own.  A tracker method runs under the tracker's     *)
(* lock and is one step; a ping takes time, so what it answered may be     *)
(* stale when it is recorded.  Scores count failed pings (ScoreIncrement). *)
(***************************************************************************)
EXTENDS Integers, FiniteSets

CONSTANTS
  Nodes,       \* the nodes that watch the target
  Knowing,     \* the nodes that know the target at the start
  Rumours,     \* <<kind, score>> of messages from nodes outside Nodes
  Responders,  \* the longest-lived of them: isTopResponder
  Bands,       \* cluster-size bands
  Suspect,     \* Suspect[b]: the suspected threshold in band b
  Quarantine,  \* Quarantine[b]: the quarantine threshold in band b
  MaxScore,    \* bound: scores from here on are not told apart
  MaxOutages,  \* bound: how often the target goes down
  MaxResizes,  \* bound: how often the cluster changes its band
  MaxNet,      \* bound: with this many messages under way to a node, more are lost
  Flaky        \* TRUE: a ping of a target that is up may fail

ASSUME HealthAssumption ==
  /\ Responders \subseteq Nodes /\ Knowing \subseteq Nodes /\ Flaky \in BOOLEAN
  /\ MaxScore \in Nat /\ MaxOutages \in Nat /\ MaxResizes \in Nat /\ MaxNet \in Nat
  /\ Suspect \in [Bands -> 1 .. MaxScore]
  /\ Quarantine \in [Bands -> 1 .. MaxScore]
  /\ \A b \in Bands : Suspect[b] <= Quarantine[b]
  /\ Rumours \subseteq {"alive", "score", "ping", "crossed"} \X (0 .. MaxScore)

VARIABLES
  up,       \* the target runs
  outages,  \* how often it went down
  band,     \* the band the cluster size is in
  resizes,  \* how often it changed
  member,   \* the nodes whose phonebook has an entry for the target
  score,    \* score[n]: its reliability score there
  status,   \* status[n]: its status there
  timer,    \* timer[n]: its quarantine timer there
  removing, \* the nodes that marked it failed and are about to remove it
  probe,    \* probe[n]: the probe loop, idle or with the answer of its ping
  hand,     \* hand[n]: the message loop, the same for an indirect ping
  net,      \* messages under way
  rejoined  \* the nodes that have yet to hear that the target is back

vars == <<up, outages, band, resizes, member, score, status, timer, removing,
          probe, hand, net, rejoined>>

Statuses == {"active", "suspected", "quarantined", "failed"}
Answers == {"idle", "ok", "fail"}
(* No timer, one that was started, one whose QuarantineTimeout has passed. *)
Timers == {"off", "running", "due"}
Scores == 0 .. MaxScore
Messages == [kind : {"alive", "score", "ping", "crossed"}, to : Nodes, score : Scores]

TypeOK ==
  /\ up \in BOOLEAN /\ outages \in 0 .. MaxOutages
  /\ band \in Bands /\ resizes \in 0 .. MaxResizes
  /\ member \subseteq Nodes /\ score \in [Nodes -> Scores]
  /\ status \in [Nodes -> Statuses]
  /\ timer \in [Nodes -> Timers] /\ removing \subseteq Nodes
  /\ probe \in [Nodes -> Answers]
  /\ hand \in [Nodes -> Answers \cup {"confirmed"}]
  /\ net \subseteq Messages
  /\ rejoined \subseteq Nodes

Init ==
  /\ up = TRUE /\ outages = 0
  /\ band \in Bands /\ resizes = 0
  /\ member = Knowing
  /\ score = [n \in Nodes |-> 0] /\ status = [n \in Nodes |-> "active"]
  /\ timer = [n \in Nodes |-> "off"] /\ removing = {}
  /\ probe = [n \in Nodes |-> "idle"] /\ hand = [n \in Nodes |-> "idle"]
  /\ net = {} /\ rejoined = {}

-----------------------------------------------------------------------------
(* The answers a ping of the target may give now. *)
Ping == (IF up THEN {"ok"} ELSE {}) \cup (IF ~up \/ Flaky THEN {"fail"} ELSE {})

(* A failure that lowers the score. *)
RaiseReversed(s) == s - 1

(* RecordFailure's score + ScoreIncrement. *)
Raise(s) == IF s < MaxScore THEN s + 1 ELSE s

Msg(kind, to, s) == [kind |-> kind, to |-> to, score |-> s]

Room(n) == Cardinality({m \in net : m.to = n}) < MaxNet

(* n publishes messages of these <<kind, score>>. *)
Gossip(n, kinds) ==
  net' = net \cup {Msg(k[1], m, k[2]) : k \in kinds, m \in {x \in Nodes \ {n} : Room(x)}}

(* checkThresholds that looks at the new score only at the lower threshold. *)
CheckThresholdsOnlySuspect(n, old, new) ==
  LET suspects == old < Suspect[band] /\ new >= Suspect[band] IN
  /\ status' = IF suspects THEN [status EXCEPT ![n] = "suspected"] ELSE status
  /\ UNCHANGED timer

(* checkThresholds that does not start the quarantine timer. *)
CheckThresholdsNoTimer(n, old, new) ==
  LET crosses(t) == old < t /\ new >= t IN
  /\ status' = IF crosses(Quarantine[band]) THEN [status EXCEPT ![n] = "quarantined"]
               ELSE IF crosses(Suspect[band]) THEN [status EXCEPT ![n] = "suspected"]
               ELSE status
  /\ UNCHANGED timer

(* checkThresholds: a status changes when the score crosses a threshold.  Every
   crossing into quarantine starts the timer anew, also that of a target that
   is in quarantine and whose score was lowered meanwhile. *)
CheckThresholds(n, old, new) ==
  LET crosses(t) == old < t /\ new >= t IN
  /\ status' = IF crosses(Quarantine[band]) THEN [status EXCEPT ![n] = "quarantined"]
               ELSE IF crosses(Suspect[band]) THEN [status EXCEPT ![n] = "suspected"]
               ELSE status
  /\ timer' = IF crosses(Quarantine[band]) THEN [timer EXCEPT ![n] = "running"] ELSE timer

(* Write a score and see whether it crosses a threshold: RecordFailure, and
   SetScore for a target that is not reported alive. *)
PutScore(n, new) ==
  /\ score' = [score EXCEPT ![n] = new]
  /\ CheckThresholds(n, score[n], new)

(* RecordFailure; an unknown target has score 0 and changes nothing. *)
RecordFailure(n) ==
  IF n \in member THEN PutScore(n, Raise(score[n])) ELSE UNCHANGED <<score, status, timer>>

(* RecordSuccess, and SetScore for a target reported alive. *)
Reset(n) ==
  /\ score' = IF n \in member THEN [score EXCEPT ![n] = 0] ELSE score
  /\ status' = IF n \in member THEN [status EXCEPT ![n] = "active"] ELSE status

RecordSuccess(n) ==
  /\ Reset(n)
  /\ timer' = IF n \in member THEN [timer EXCEPT ![n] = "off"] ELSE timer

(* What a node says after a failed ping: the score, 0 for a target it does not
   know, and the crossing when it has the target in quarantine. *)
FailureNews(n, s) ==
  {<<"score", s>>} \cup (IF n \in member /\ status'[n] = "quarantined"
                         THEN {<<"crossed", 0>>} ELSE {})

-----------------------------------------------------------------------------
(* runProtocolPeriod: pick the target, ping it, and later record the answer. *)
ProbeStart(n) ==
  /\ probe[n] = "idle" /\ n \in member
  /\ status[n] \notin {"quarantined", "failed"}
  /\ \E answer \in Ping : probe' = [probe EXCEPT ![n] = answer]
  /\ UNCHANGED <<up, outages, band, resizes, member, score, status, timer, removing,
                 hand, net, rejoined>>

OnProbeSuccess(n) ==
  /\ probe[n] = "ok"
  /\ RecordSuccess(n)
  /\ Gossip(n, {<<"alive", 0>>})
  /\ probe' = [probe EXCEPT ![n] = "idle"]
  /\ UNCHANGED <<up, outages, band, resizes, member, removing, hand, rejoined>>

OnDirectPingFail(n) ==
  /\ probe[n] = "fail"
  /\ RecordFailure(n)
  /\ LET s == IF n \in member THEN score'[n] ELSE 0 IN
     Gossip(n, FailureNews(n, s) \cup {<<"ping", 0>>})
  /\ probe' = [probe EXCEPT ![n] = "idle"]
  /\ UNCHANGED <<up, outages, band, resizes, member, removing, hand, rejoined>>

-----------------------------------------------------------------------------
(* The message loop takes one message at a time, ping included. *)
Take(n, m) == m \in net /\ m.to = n /\ hand[n] = "idle"

(* onScoreUpdate: SetScore, where alive always wins. *)
OnScoreUpdate(n, m) ==
  /\ Take(n, m) /\ net' = net \ {m}
  /\ \/ /\ m.kind = "alive"
        /\ Reset(n)
        /\ timer' = [timer EXCEPT ![n] = "off"]
     \/ /\ m.kind = "score" /\ n \in member
        /\ PutScore(n, m.score)
     \/ /\ m.kind = "score" /\ n \notin member
        /\ UNCHANGED <<score, status, timer>>
  /\ UNCHANGED <<up, outages, band, resizes, member, removing, probe, hand, rejoined>>

(* onPingRequest: a top responder raises the score, then pings. *)
OnPingRequest(n, m) ==
  /\ Take(n, m) /\ m.kind = "ping" /\ net' = net \ {m}
  /\ \/ /\ n \in Responders
        /\ RecordFailure(n)
        /\ \E answer \in Ping : hand' = [hand EXCEPT ![n] = answer]
     \/ /\ n \notin Responders
        /\ UNCHANGED <<score, status, timer, hand>>
  /\ UNCHANGED <<up, outages, band, resizes, member, removing, probe, rejoined>>

(* onThresholdCrossed: the confirmation ping; a failed one changes nothing. *)
OnThresholdCrossed(n, m) ==
  /\ Take(n, m) /\ m.kind = "crossed" /\ net' = net \ {m}
  /\ \E answer \in Ping :
       hand' = IF answer = "ok" THEN [hand EXCEPT ![n] = "confirmed"] ELSE hand
  /\ UNCHANGED <<up, outages, band, resizes, member, score, status, timer, removing,
                 probe, rejoined>>

(* The answer of an indirect or confirmation ping. *)
IndirectSuccess(n) ==
  /\ hand[n] \in {"ok", "confirmed"}
  /\ RecordSuccess(n)
  /\ Gossip(n, {<<"alive", 0>>})
  /\ hand' = [hand EXCEPT ![n] = "idle"]
  /\ UNCHANGED <<up, outages, band, resizes, member, removing, probe, rejoined>>

IndirectFail(n) ==
  /\ hand[n] = "fail"
  /\ UNCHANGED <<score, status, timer>>
  /\ Gossip(n, FailureNews(n, IF n \in member THEN score[n] ELSE 0))
  /\ hand' = [hand EXCEPT ![n] = "idle"]
  /\ UNCHANGED <<up, outages, band, resizes, member, removing, probe, rejoined>>

-----------------------------------------------------------------------------
(* The effective QuarantineTimeout passes since the timer was last started. *)
Elapse(n) ==
  /\ timer[n] = "running"
  /\ timer' = [timer EXCEPT ![n] = "due"]
  /\ UNCHANGED <<up, outages, band, resizes, member, score, status, removing, probe,
                 hand, net, rejoined>>

(* CheckQuarantineTimeouts that spares a target whose score was lowered. *)
QuarantineTimeoutIfHigh(n) ==
  /\ timer[n] = "due" /\ n \notin removing /\ score[n] >= Quarantine[band]
  /\ status' = IF n \in member THEN [status EXCEPT ![n] = "failed"] ELSE status
  /\ timer' = [timer EXCEPT ![n] = "off"]
  /\ removing' = removing \cup {n}
  /\ UNCHANGED <<up, outages, band, resizes, member, score, probe, hand, net, rejoined>>

(* CheckQuarantineTimeouts; it does not look at the status.  The loop then
   removes the entry. *)
QuarantineTimeout(n) ==
  /\ timer[n] = "due" /\ n \notin removing
  /\ status' = IF n \in member THEN [status EXCEPT ![n] = "failed"] ELSE status
  /\ timer' = [timer EXCEPT ![n] = "off"]
  /\ removing' = removing \cup {n}
  /\ UNCHANGED <<up, outages, band, resizes, member, score, probe, hand, net, rejoined>>

RemoveFailed(n) ==
  /\ n \in removing
  /\ removing' = removing \ {n}
  /\ member' = member \ {n}
  /\ score' = [score EXCEPT ![n] = 0] /\ status' = [status EXCEPT ![n] = "active"]
  /\ UNCHANGED <<up, outages, band, resizes, timer, probe, hand, net, rejoined>>

(* probeQuarantinedPeers: ask the responders to ping it. *)
ProbeQuarantined(n) ==
  /\ n \in member /\ status[n] = "quarantined"
  /\ Gossip(n, {<<"ping", 0>>})
  /\ UNCHANGED <<up, outages, band, resizes, member, score, status, timer, removing,
                 probe, hand, rejoined>>

-----------------------------------------------------------------------------
(* The target goes down; it comes back and authenticates again, which every
   node hears of; addOrUpdateEntry writes a fresh entry. *)
GoDown ==
  /\ up /\ outages < MaxOutages
  /\ up' = FALSE /\ outages' = outages + 1
  /\ UNCHANGED <<band, resizes, member, score, status, timer, removing, probe, hand,
                 net, rejoined>>

ComeBack ==
  /\ ~up
  /\ up' = TRUE /\ rejoined' = Nodes
  /\ UNCHANGED <<outages, band, resizes, member, score, status, timer, removing, probe,
                 hand, net>>

AddOrUpdateEntry(n) ==
  /\ n \in rejoined
  /\ rejoined' = rejoined \ {n}
  /\ member' = member \cup {n}
  /\ score' = [score EXCEPT ![n] = 0] /\ status' = [status EXCEPT ![n] = "active"]
  /\ UNCHANGED <<up, outages, band, resizes, timer, removing, probe, hand, net>>

(* Other nodes join or leave: the thresholds and the timeout scale with the
   cluster size, so a timer that had run out may have time left again. *)
Resize(b) ==
  /\ b # band /\ resizes < MaxResizes
  /\ band' = b /\ resizes' = resizes + 1
  /\ \/ UNCHANGED timer
     \/ timer' = [n \in Nodes |-> IF timer[n] = "due" THEN "running" ELSE timer[n]]
  /\ UNCHANGED <<up, outages, member, score, status, removing, probe, hand, net,
                 rejoined>>

(* A node that is not modelled publishes. *)
Hear(n, r) ==
  /\ Room(n)
  /\ net' = net \cup {Msg(r[1], n, r[2])}
  /\ UNCHANGED <<up, outages, band, resizes, member, score, status, timer, removing,
                 probe, hand, rejoined>>

Loop(n) == ProbeStart(n) \/ OnProbeSuccess(n) \/ OnDirectPingFail(n)

MessageLoop(n) ==
  \/ \E m \in net : OnScoreUpdate(n, m) \/ OnPingRequest(n, m) \/ OnThresholdCrossed(n, m)
  \/ IndirectSuccess(n) \/ IndirectFail(n)

CheckLoop(n) == QuarantineTimeout(n) \/ RemoveFailed(n)

Next ==
  \/ \E n \in Nodes : Loop(n) \/ MessageLoop(n) \/ CheckLoop(n) \/ Elapse(n)
                      \/ ProbeQuarantined(n) \/ AddOrUpdateEntry(n)
  \/ GoDown \/ ComeBack
  \/ \E b \in Bands : Resize(b)
  \/ \E n \in Nodes, r \in Rumours : Hear(n, r)

(* The three loops run on tickers or block on the topic, and a peer is picked
   at random every period: each gets its turn.  Time passes. *)
Spec == /\ Init /\ [][Next]_vars
        /\ \A n \in Nodes : WF_vars(Loop(n)) /\ WF_vars(MessageLoop(n))
                            /\ WF_vars(CheckLoop(n)) /\ WF_vars(Elapse(n))
                            /\ WF_vars(AddOrUpdateEntry(n))

-----------------------------------------------------------------------------
(* checkThresholds looks at crossings only (score.go:342, 364), against
   thresholds that scale with the cluster size.  As long as the size has stayed
   in its band none is missed: whatever scores are gossiped, a target at a
   threshold has the status of that threshold or a graver one. *)
NoMissedThreshold ==
  resizes = 0 =>
    \A n \in member :
      /\ score[n] >= Quarantine[band] => status[n] \in {"quarantined", "failed"}
      /\ score[n] >= Suspect[band] => status[n] # "active"

(* A target that the score tracker put in quarantine has a timer, so it
   recovers or is removed; it is not forgotten there (score.go:343-344). *)
QuarantineHasTimer == \A n \in member : status[n] = "quarantined" => timer[n] # "off"

(* The score of the target crosses into quarantine on n, once more perhaps. *)
Crosses(n) == score[n] < Quarantine[band] /\ score'[n] >= Quarantine[band]

(* Quarantine ends: the target is heard of again or it is removed, unless its
   score falls below the threshold and crosses it again for ever, each time
   before the timeout is noticed (score.go:307, 342-344).  Nothing else that
   other nodes say of it, no rejoin and no change of the cluster's size holds
   it there. *)
QuarantineEnds ==
  \A n \in Nodes : <>[](n \in member /\ status[n] = "quarantined") => []<><<Crosses(n)>>_vars

(* CheckQuarantineTimeouts "marks them as failed if they've been quarantined
   longer than the effective QuarantineTimeout" (score.go:295-296): quarantine
   ends, whatever other nodes say. *)
QuarantineAlwaysEnds ==
  \A n \in Nodes : (n \in member /\ status[n] = "quarantined") ~>
                    (n \notin member \/ status[n] # "quarantined")

(* "suspected peers need continued probing to either recover or reach
   quarantine" (monitor.go:352-353): a target that stays down is in the end
   removed from every phonebook. *)
DeadIsRemoved == <>[](~up) => \A n \in Nodes : <>[](n \notin member)
=============================================================================
