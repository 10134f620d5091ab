------------------------------ MODULE Election ------------------------------
(***************************************************************************)
(* The election of the nodes that run the replicas of one capsule:         *)
(* election/manager.go, the delay strategy that decides when a node claims *)
(* (election/delay/strategy.go), the gossip topic that carries claims and  *)
(* failures (election/topic.go), and the node's subscribers that record    *)
(* the verdicts (node/capsule_handler.go).                                 *)
(*                                                                         *)
(* Every node runs a round of its own for each replica slot.  Time is      *)
(* discrete and global; a timer fires up to Slack ticks late and a message *)
(* takes up to Delta ticks.  Several things happen at one tick, in every   *)
(* order; time passes when nothing that is due is left to do.              *)
(***************************************************************************)
EXTENDS Integers, Sequences

CONSTANTS
  Nodes,      \* node IDs: integers, for the order of the last tiebreak
  NSlots,     \* replica slots 0 .. NSlots - 1
  Offers,     \* Offers[n]: the scores Decide may compute on n
  Lookups,    \* nodes whose calculator has a capsule lookup: no override here
  MaxScore,   \* the score that waits only for the jitter
  ScoreStep,  \* wait per point of score below MaxScore
  Stagger,    \* wait per slot index (replicaStagger)
  Jitter,     \* largest random extra wait
  Tiebreak,   \* tiebreakWindow
  Timeout,    \* electionTimeout
  BufferTTL,  \* how long a message without a listener is kept
  Delta,      \* bound: the longest a message travels
  Slack,      \* bound: the latest a timer fires
  LastRequest,\* bound: no request arrives after this time
  MaxRounds,  \* bound: rounds per node and slot
  MaxTime,    \* bound on the clock
  Faults,     \* what may go wrong: a subset of FaultKinds
  Nil

NoBid == -1                    \* Decide's Eligible = false
Slots == 0 .. NSlots - 1
FaultKinds == {"loss", "publish", "stop", "leave", "crash", "delete"}

ASSUME ElectionAssumption ==
  /\ Nodes \subseteq Nat /\ Nil \notin Nodes
  /\ NSlots \in Nat /\ MaxScore \in Nat /\ ScoreStep \in Nat /\ Stagger \in Nat
  /\ Jitter \in Nat /\ Tiebreak \in Nat /\ Timeout \in Nat /\ BufferTTL \in Nat
  /\ Delta \in Nat /\ Slack \in Nat /\ LastRequest \in Nat /\ MaxRounds \in Nat
  /\ MaxTime \in Nat
  /\ Offers \in [Nodes -> SUBSET (0 .. MaxScore \cup {NoBid})]
  /\ Faults \subseteq FaultKinds /\ Lookups \subseteq Nodes

VARIABLES
  now,      \* the clock
  round,    \* round[n][s]: the round of n for slot s, inflight while it is open
  asked,    \* asked[n][s]: rounds n has run for s
  claimed,  \* the nodes whose localClaims holds the capsule
  net,      \* messages on their way
  inbox,    \* messages in a listener's channel or, without one, in the buffer
  wonCh,    \* wonCh[n]: ElectionWon events that n has not handled
  lostCh,   \* lostCh[n]: ElectionLost events that n has not handled
  replicas, \* replicas[n][s]: the host of s in the capsule store of n
  known,    \* the nodes that have the capsule
  life,     \* life[n]: "up", "stopped", "left" the cluster, or "dead"
  wins,     \* history: the <<node, slot>> reported as won
  spoiled   \* history: nodes that failed a round, forgot the capsule or died

vars == <<now, round, asked, claimed, net, inbox, wonCh, lostCh, replicas,
          known, life, wins, spoiled>>

-----------------------------------------------------------------------------
(* A round: its phase, the score and PublishAt of the Decision, publishedAt,
   the deadline, and once it is over the winner it reported. *)
Round(phase, score, at, pub, end, who) ==
  [phase |-> phase, score |-> score, at |-> at, pub |-> pub, end |-> end,
   who |-> who]

Over(outcome, who) == Round(outcome, 0, 0, 0, 0, who)

Outcomes == {"won", "lost", "failed"}
OpenPhases == {"wait", "publish", "tiebreak", "verdict"}
Phases == OpenPhases \cup Outcomes \cup {"none"}
Rounds == [phase : Phases, score : 0 .. MaxScore, at : Nat, pub : Nat,
           end : Nat, who : Nodes \cup {Nil}]

Messages == [kind : {"claim", "failed"}, from : Nodes, to : Nodes, slot : Slots,
             score : 0 .. MaxScore, ts : Nat, at : Nat]

Open(n, s) == round[n][s].phase \in OpenPhases

(* n has reserved the capsule and not yet been told whether it won. *)
Holding(n, s) == round[n][s].phase \in {"publish", "tiebreak"}

Claims(n, s) == {m \in inbox : m.to = n /\ m.slot = s /\ m.kind = "claim"}
Failures(n, s) == {m \in inbox : m.to = n /\ m.slot = s /\ m.kind = "failed"}

TypeOK ==
  /\ now \in Nat
  /\ round \in [Nodes -> [Slots -> Rounds]]
  /\ asked \in [Nodes -> [Slots -> Nat]]
  /\ claimed \subseteq Nodes
  /\ net \subseteq Messages
  /\ inbox \subseteq Messages
  /\ wonCh \in [Nodes -> Seq(Slots \X Nodes)]
  /\ lostCh \in [Nodes -> Seq(Slots \X Nodes)]
  /\ replicas \in [Nodes -> [Slots -> Nodes \cup {Nil}]]
  /\ known \subseteq Nodes
  /\ life \in [Nodes -> {"up", "stopped", "left", "dead"}]
  /\ wins \subseteq Nodes \X Slots
  /\ spoiled \subseteq Nodes

Init ==
  /\ now = 0
  /\ round = [n \in Nodes |-> [s \in Slots |-> Over("none", Nil)]]
  /\ asked = [n \in Nodes |-> [s \in Slots |-> 0]]
  /\ claimed = {}
  /\ net = {} /\ inbox = {}
  /\ wonCh = [n \in Nodes |-> <<>>] /\ lostCh = [n \in Nodes |-> <<>>]
  /\ replicas = [n \in Nodes |-> [s \in Slots |-> Nil]]
  /\ known = Nodes
  /\ life = [n \in Nodes |-> "up"]
  /\ wins = {} /\ spoiled = {}

-----------------------------------------------------------------------------
SetRound(n, s, r) == round' = [round EXCEPT ![n] = [round[n] EXCEPT ![s] = r]]

(* What n publishes reaches every other node; it drops its own messages. *)
Sent(kind, n, s, score) ==
  {[kind |-> kind, from |-> n, to |-> m, slot |-> s, score |-> score,
    ts |-> now, at |-> now] : m \in Nodes \ {n}}

(* The end of a round: the listener and what its channel holds are gone. *)
Finish(n, s, outcome, who) ==
  /\ SetRound(n, s, Over(outcome, who))
  /\ inbox' = {m \in inbox : m.to # n \/ m.slot # s}

(* report: release the capsule's claim on a failure and gossip it if the
   topic is still joined; queue the event of the other two outcomes. *)
ReportFailed(n, s) ==
  /\ Finish(n, s, "failed", Nil)
  /\ claimed' = claimed \ {n}
  /\ spoiled' = spoiled \cup {n}
  /\ net' = IF life[n] = "up" THEN net \cup Sent("failed", n, s, 0) ELSE net
  /\ UNCHANGED <<now, asked, wonCh, lostCh, replicas, known, life, wins>>

ReportLost(n, s, winner) ==
  /\ Finish(n, s, "lost", winner)
  /\ lostCh' = [lostCh EXCEPT ![n] = Append(@, <<s, winner>>)]
  /\ UNCHANGED <<now, asked, net, wonCh, replicas, known, life, wins, spoiled>>

ReportWon(n, s) ==
  /\ Finish(n, s, "won", n)
  /\ wonCh' = [wonCh EXCEPT ![n] = Append(@, <<s, n>>)]
  /\ wins' = wins \cup {<<n, s>>}
  /\ UNCHANGED <<now, asked, claimed, net, lostCh, replicas, known, life, spoiled>>

(* isBetter with the three criteria in no order of precedence. *)
IsBetterEither(claim, r, n) ==
  \/ claim.score > r.score
  \/ claim.ts < r.at
  \/ claim.ts = r.at /\ claim.from < n

(* isBetter: higher score, then earlier time, then smaller node ID.  The
   rival's time is when it published, ours is when we planned to. *)
IsBetter(claim, r, n) ==
  \/ claim.score > r.score
  \/ claim.score = r.score /\ claim.ts < r.at
  \/ claim.score = r.score /\ claim.ts = r.at /\ claim.from < n

(* waitForScore with its subtraction the wrong way round. *)
BaseWaitFlipped(score) == (score - MaxScore) * ScoreStep

(* waitForScore and replicaSlotStagger. *)
BaseWait(score) == (MaxScore - score) * ScoreStep
SlotDelay(s) == s * Stagger

(* Decide: when a node with this score claims slot s. *)
PublishAt(score, s, jitter) == now + BaseWait(score) + SlotDelay(s) + jitter

-----------------------------------------------------------------------------
(* gravity.IsEligible's implicit rule: n sees a replica of the capsule on n.
   The calculator of a cluster with overridden weights has no lookup and
   skips the rule. *)
RunsReplica(n) == n \in Lookups /\ \E s \in Slots : replicas[n][s] = n

(* HandleRequest, and the start of runElection: listen, decide, and step
   aside when ineligible or when the capsule is already claimed here. *)
Request(n, s) ==
  /\ life[n] = "up" /\ n \in known /\ ~Open(n, s)
  /\ asked[n][s] < MaxRounds /\ now <= LastRequest
  /\ asked' = [asked EXCEPT ![n] = [asked[n] EXCEPT ![s] = @ + 1]]
  /\ \E score \in Offers[n], jitter \in 0 .. Jitter :
       LET bids == score # NoBid /\ ~RunsReplica(n) /\ n \notin claimed IN
       SetRound(n, s,
         IF bids THEN Round("wait", score, PublishAt(score, s, jitter),
                            0, now + Timeout, Nil)
                 ELSE Round("verdict", 0, 0, 0, now + Timeout, Nil))
  /\ UNCHANGED <<now, claimed, net, inbox, wonCh, lostCh, replicas, known, life,
                 wins, spoiled>>

(* tryClaimCapsule that does not look whether the claim is taken. *)
TryClaimUnguarded(n, s) ==
  LET r == round[n][s] IN
  /\ SetRound(n, s, Round("publish", r.score, r.at, now, r.end, Nil))
  /\ claimed' = claimed \cup {n}

(* tryClaimCapsule: reserve the capsule, or wait for what the others say. *)
TryClaim(n, s) ==
  LET r == round[n][s] IN
  \/ /\ n \in claimed
     /\ SetRound(n, s, Round("verdict", 0, 0, 0, r.end, Nil))
     /\ UNCHANGED claimed
  \/ /\ n \notin claimed
     /\ SetRound(n, s, Round("publish", r.score, r.at, now, r.end, Nil))
     /\ claimed' = claimed \cup {n}

Rest == <<now, asked, net, wonCh, lostCh, replicas, known, life, wins, spoiled>>

(* The wait for PublishAt: the timer, a rival's claim, a remote failure, or
   the deadline.  A claim that is not better makes us publish at once. *)
WaitTimer(n, s) ==
  /\ round[n][s].phase = "wait" /\ now >= round[n][s].at
  /\ TryClaim(n, s)
  /\ UNCHANGED <<inbox, Rest>>

WaitRival(n, s) ==
  /\ round[n][s].phase = "wait"
  /\ \E m \in Claims(n, s) :
       \/ /\ IsBetter(m, round[n][s], n)
          /\ ReportLost(n, s, m.from)
          /\ UNCHANGED claimed
       \/ /\ ~IsBetter(m, round[n][s], n)
          /\ TryClaim(n, s)
          /\ inbox' = inbox \ {m}
          /\ UNCHANGED Rest

WaitFailure(n, s) ==
  /\ round[n][s].phase = "wait" /\ Failures(n, s) # {}
  /\ ReportFailed(n, s)

WaitDeadline(n, s) ==
  /\ round[n][s].phase = "wait" /\ now >= round[n][s].end
  /\ ReportFailed(n, s)

(* PublishClaim, then the tiebreak window. *)
Publish(n, s) ==
  LET r == round[n][s] IN
  /\ r.phase = "publish" /\ life[n] = "up"
  /\ SetRound(n, s, Round("tiebreak", r.score, r.at, r.pub, r.end, Nil))
  /\ net' = net \cup Sent("claim", n, s, r.score)
  /\ UNCHANGED <<now, asked, claimed, inbox, wonCh, lostCh, replicas, known, life,
                 wins, spoiled>>

PublishError(n, s) ==
  /\ round[n][s].phase = "publish"
  /\ "publish" \in Faults \/ life[n] # "up"
  /\ ReportFailed(n, s)

(* A tiebreak that is lost without releaseCapsuleClaim. *)
TieBetterKeepsClaim(n, s) ==
  /\ round[n][s].phase = "tiebreak"
  /\ \E m \in Claims(n, s) : /\ IsBetter(m, round[n][s], n)
                             /\ ReportLost(n, s, m.from)
  /\ UNCHANGED claimed

(* A win without waiting for the window, and one that only a rival's message
   wakes up. *)
TieWindowSkipped(n, s) == round[n][s].phase = "tiebreak" /\ ReportWon(n, s)

TieWindowWithoutTimer(n, s) ==
  /\ round[n][s].phase = "tiebreak" /\ now >= round[n][s].pub + Tiebreak
  /\ Claims(n, s) # {}
  /\ ReportWon(n, s)

(* The tiebreak window: a better rival releases the claim, a worse one is
   ignored, and the end of the window is a win. *)
TieBetter(n, s) ==
  /\ round[n][s].phase = "tiebreak"
  /\ \E m \in Claims(n, s) : /\ IsBetter(m, round[n][s], n)
                             /\ ReportLost(n, s, m.from)
  /\ claimed' = claimed \ {n}

TieWorse(n, s) ==
  /\ round[n][s].phase = "tiebreak"
  /\ \E m \in Claims(n, s) : /\ ~IsBetter(m, round[n][s], n)
                             /\ inbox' = inbox \ {m}
  /\ UNCHANGED <<round, claimed, Rest>>

TieWindowEnds(n, s) ==
  /\ round[n][s].phase = "tiebreak" /\ now >= round[n][s].pub + Tiebreak
  /\ ReportWon(n, s)

(* waitForRemoteVerdict: the first claim heard names the winner. *)
VerdictClaim(n, s) ==
  /\ round[n][s].phase = "verdict"
  /\ \E m \in Claims(n, s) : ReportLost(n, s, m.from)
  /\ UNCHANGED claimed

VerdictFailure(n, s) ==
  /\ round[n][s].phase = "verdict" /\ Failures(n, s) # {}
  /\ ReportFailed(n, s)

VerdictDeadline(n, s) ==
  /\ round[n][s].phase = "verdict" /\ now >= round[n][s].end
  /\ ReportFailed(n, s)

(* Stop cancelled the round's context. *)
Cancelled(n, s) ==
  /\ life[n] = "stopped"
  /\ round[n][s].phase \in {"wait", "tiebreak", "verdict"}
  /\ ReportFailed(n, s)

(* LeaveCluster closed the channels: the verdict wait reports a failure. *)
ChannelClosed(n, s) ==
  /\ life[n] = "left" /\ round[n][s].phase = "verdict"
  /\ ReportFailed(n, s)

-----------------------------------------------------------------------------
(* The process of n is gone: its memory with it, the capsule store not. *)
Die(n) ==
  /\ life' = [life EXCEPT ![n] = "dead"]
  /\ round' = [round EXCEPT ![n] = [s \in Slots |-> Over("none", Nil)]]
  /\ inbox' = {m \in inbox : m.to # n}
  /\ claimed' = claimed \ {n}
  /\ wonCh' = [wonCh EXCEPT ![n] = <<>>] /\ lostCh' = [lostCh EXCEPT ![n] = <<>>]
  /\ spoiled' = spoiled \cup {n}
  /\ UNCHANGED <<now, asked, net, replicas, known, wins>>

(* The other two waits take nil from a closed channel and dereference it. *)
NilRival(n, s) ==
  /\ life[n] = "left" /\ round[n][s].phase \in {"wait", "tiebreak"}
  /\ Die(n)

Crash(n) == "crash" \in Faults /\ life[n] # "dead" /\ Die(n)

(* Stop and LeaveCluster; rounds that are open see it later. *)
Stop(n) ==
  /\ "stop" \in Faults /\ life[n] = "up"
  /\ life' = [life EXCEPT ![n] = "stopped"]
  /\ inbox' = {m \in inbox : m.to # n \/ Open(n, m.slot)}
  /\ UNCHANGED <<now, round, asked, claimed, net, wonCh, lostCh, replicas, known,
                 wins, spoiled>>

LeaveCluster(n) ==
  /\ "leave" \in Faults /\ life[n] = "up"
  /\ life' = [life EXCEPT ![n] = "left"]
  /\ inbox' = {m \in inbox : m.to # n \/ Open(n, m.slot)}
  /\ UNCHANGED <<now, round, asked, claimed, net, wonCh, lostCh, replicas, known,
                 wins, spoiled>>

(* JoinCluster after a leave, or a new process. *)
Rejoin(n) ==
  /\ life[n] # "up" /\ \A s \in Slots : ~Open(n, s)
  /\ life' = [life EXCEPT ![n] = "up"]
  /\ claimed' = IF life[n] = "left" THEN claimed ELSE claimed \ {n}
  /\ spoiled' = IF life[n] = "left" THEN spoiled ELSE spoiled \cup {n}
  /\ UNCHANGED <<now, round, asked, net, inbox, wonCh, lostCh, replicas, known, wins>>

(* The capsule is deleted on n: ForgetCapsule drops the claim whatever the
   open rounds are doing. *)
ForgetCapsule(n) ==
  /\ "delete" \in Faults /\ n \in known /\ life[n] # "dead"
  /\ known' = known \ {n}
  /\ claimed' = claimed \ {n}
  /\ replicas' = [replicas EXCEPT ![n] = [s \in Slots |-> Nil]]
  /\ spoiled' = spoiled \cup {n}
  /\ UNCHANGED <<now, round, asked, net, inbox, wonCh, lostCh, life, wins>>

-----------------------------------------------------------------------------
(* topic.loop: hand a message to the listener or keep it in the buffer. *)
Deliver(m) ==
  /\ net' = net \ {m}
  /\ inbox' = IF life[m.to] = "up"
              THEN inbox \cup {[kind |-> m.kind, from |-> m.from, to |-> m.to,
                                slot |-> m.slot, score |-> m.score, ts |-> m.ts,
                                at |-> now]}
              ELSE inbox
  /\ UNCHANGED <<now, round, asked, claimed, wonCh, lostCh, replicas, known, life,
                 wins, spoiled>>

(* Gossip loses a message. *)
Lose(m) ==
  /\ "loss" \in Faults
  /\ net' = net \ {m}
  /\ UNCHANGED <<now, round, asked, claimed, inbox, wonCh, lostCh, replicas,
                 known, life, wins, spoiled>>

(* sweepBuffer: a message without a listener is dropped when it is old. *)
Sweep(m) ==
  /\ ~Open(m.to, m.slot) /\ now >= m.at + BufferTTL
  /\ inbox' = inbox \ {m}
  /\ UNCHANGED <<now, round, asked, claimed, net, wonCh, lostCh, replicas, known,
                 life, wins, spoiled>>

(* handleElectionWon and handleElectionLost: AssignReplica, which fails when
   the capsule is gone. *)
Assign(n, s, host) ==
  replicas' = IF n \in known
              THEN [replicas EXCEPT ![n] = [replicas[n] EXCEPT ![s] = host]]
              ELSE replicas

HandleElectionWon(n) ==
  /\ wonCh[n] # <<>>
  /\ Assign(n, Head(wonCh[n])[1], Head(wonCh[n])[2])
  /\ wonCh' = [wonCh EXCEPT ![n] = Tail(@)]
  /\ UNCHANGED <<now, round, asked, claimed, net, inbox, lostCh, known, life,
                 wins, spoiled>>

HandleElectionLost(n) ==
  /\ lostCh[n] # <<>>
  /\ Assign(n, Head(lostCh[n])[1], Head(lostCh[n])[2])
  /\ lostCh' = [lostCh EXCEPT ![n] = Tail(@)]
  /\ UNCHANGED <<now, round, asked, claimed, net, inbox, wonCh, known, life,
                 wins, spoiled>>

-----------------------------------------------------------------------------
(* Nothing of the round of n for s is due. *)
Waiting(n, s) ==
  LET r == round[n][s] IN
  Open(n, s) =>
    /\ life[n] = "up"
    /\ r.phase # "publish"
    /\ Claims(n, s) = {}
    /\ r.phase = "tiebreak" => now < r.pub + Tiebreak + Slack
    /\ r.phase # "tiebreak" => Failures(n, s) = {} /\ now < r.end + Slack
    /\ r.phase = "wait" => now < r.at + Slack

Busy == net # {} \/ \E n \in Nodes, s \in Slots : Open(n, s)

Tick ==
  /\ now < MaxTime /\ (Busy \/ now < LastRequest)
  /\ \A m \in net : now < m.at + Delta
  /\ \A n \in Nodes, s \in Slots : Waiting(n, s)
  /\ now' = now + 1
  /\ UNCHANGED <<round, asked, claimed, net, inbox, wonCh, lostCh, replicas,
                 known, life, wins, spoiled>>

RoundStep(n, s) ==
  \/ WaitTimer(n, s) \/ WaitRival(n, s) \/ WaitFailure(n, s) \/ WaitDeadline(n, s)
  \/ Publish(n, s) \/ PublishError(n, s)
  \/ TieBetter(n, s) \/ TieWorse(n, s) \/ TieWindowEnds(n, s)
  \/ VerdictClaim(n, s) \/ VerdictFailure(n, s) \/ VerdictDeadline(n, s)
  \/ Cancelled(n, s) \/ ChannelClosed(n, s) \/ NilRival(n, s)

NodeStep(n) ==
  \/ Crash(n) \/ Stop(n) \/ LeaveCluster(n) \/ Rejoin(n) \/ ForgetCapsule(n)
  \/ HandleElectionWon(n) \/ HandleElectionLost(n)

Next ==
  \/ \E n \in Nodes, s \in Slots : Request(n, s) \/ RoundStep(n, s)
  \/ \E n \in Nodes : NodeStep(n)
  \/ \E m \in net : Deliver(m) \/ Lose(m)
  \/ \E m \in inbox : Sweep(m)
  \/ Tick

Spec == Init /\ [][Next]_vars

(* Timers fire and goroutines are scheduled: an open round, a message and
   the clock do not stand still for ever. *)
Progress ==
  \/ \E n \in Nodes, s \in Slots : RoundStep(n, s)
  \/ \E m \in net : Deliver(m)
  \/ Tick

FairSpec == Spec /\ WF_vars(Progress)

-----------------------------------------------------------------------------
(* "Every ElectionRequested resolves to exactly one Outcome" (elector.go:183):
   a round that is open is reported by its own node. *)
RoundsResolve ==
  \A n \in Nodes, s \in Slots :
    Open(n, s) ~> round[n][s].phase \in Outcomes

(* "exactly one node in the cluster wins the election" for a slot
   (election_integration_test.go:93), under the deterministic tiebreak of
   isBetter. *)
UniqueWinner == \A a, b \in wins : a[2] = b[2] => a[1] = b[1]

(* Every node has asked for slot s, and every round is over. *)
Settled(s) == \A n \in Nodes : asked[n][s] = MaxRounds /\ ~Open(n, s)

(* A slot for which nodes bid does not end without a host: the node
   that beats the others is not made to step aside by one that then loses. *)
SomeWinner == \A s \in Slots : Settled(s) => \E n \in Nodes : <<n, s>> \in wins

(* The guard on localClaims "prevents the best-fit node from winning every
   replica of a multi-replica capsule" (manager.go:494-496). *)
OneSlotPerNode == \A a, b \in wins : a[1] = b[1] => a[2] = b[2]

(* The same for a node none of whose rounds failed and that kept the capsule. *)
OneSlotUnlessFailed ==
  \A a, b \in wins : a[1] = b[1] /\ a[1] \notin spoiled => a[2] = b[2]

(* localClaims does not leak: while a node's claim on the capsule is set, one
   of its rounds is between tryClaimCapsule and its verdict or the node has
   won a replica.  A claim that nothing backs would keep the node from ever
   bidding for the capsule again. *)
ClaimBacked ==
  \A n \in claimed : \E s \in Slots : Holding(n, s) \/ <<n, s>> \in wins

-----------------------------------------------------------------------------
(* The host of a slot, as the nodes that won it would say. *)
owner == [s \in Slots |-> IF \E n \in Nodes : <<n, s>> \in wins
                          THEN CHOOSE n \in Nodes : <<n, s>> \in wins ELSE Nil]

Placement == INSTANCE SlotAssignment WITH owner <- owner

(* The rounds of all nodes together place the replicas one at a time, each
   on a node of its own, and never move one. *)
ImplementsPlacement == Placement!Spec
=============================================================================
