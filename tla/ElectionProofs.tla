--------------------------- MODULE ElectionProofs ---------------------------
(***************************************************************************)
(* Proofs about Election for every set of nodes, number of slots, timing   *)
(* and combination of faults: its type invariant, that localClaims never   *)
(* holds a claim nothing backs, and that a node none of whose rounds       *)
(* failed wins at most one replica of the capsule.  For nodes that stay up *)
(* and messages that arrive in time (Timely): that no slot has two         *)
(* winners, and that the rounds implement SlotAssignment.  For a slot that *)
(* a node is sure to bid for (Contested): that it does not end without a   *)
(* winner.                                                                 *)
(***************************************************************************)
EXTENDS Election, TLAPS

(* OneSlotUnlessFailed is not inductive by itself.  The claim of a node that
   is not spoiled is set exactly while it matters: a node that holds a slot
   or has won one has its claim set, so tryClaimCapsule refuses it another,
   and it cannot both hold a slot and have won one. *)
ExclusiveAt(n) ==
  \A s \in Slots :
    /\ <<n, s>> \in wins => n \in claimed
    /\ Holding(n, s) =>
         /\ n \in claimed
         /\ \A t \in Slots : <<n, t>> \notin wins /\ (Holding(n, t) => t = s)

Exclusive == \A n \in Nodes : n \notin spoiled => ExclusiveAt(n)

Core == ClaimBacked /\ Exclusive /\ OneSlotUnlessFailed

Inv == TypeOK /\ Core

-----------------------------------------------------------------------------
(* The records the actions build. *)
LEMMA Shapes ==
  /\ \A p \in Phases, sc \in 0 .. MaxScore, at, pub, end \in Nat, w \in Nodes \cup {Nil} :
       Round(p, sc, at, pub, end, w) \in Rounds /\ Round(p, sc, at, pub, end, w).phase = p
  /\ \A p \in Phases, w \in Nodes \cup {Nil} :
       Over(p, w) \in Rounds /\ Over(p, w).phase = p
  BY ElectionAssumption DEF Round, Over, Rounds

(* SetRound changes one round and no other. *)
LEMMA Updated ==
  ASSUME TypeOK, NEW n \in Nodes, NEW s \in Slots, NEW r \in Rounds,
         SetRound(n, s, r)
  PROVE  /\ round' \in [Nodes -> [Slots -> Rounds]]
         /\ round'[n][s] = r
         /\ \A m \in Nodes, t \in Slots :
              m # n \/ t # s => round'[m][t] = round[m][t]
  BY DEF TypeOK, SetRound

(* What is published is a set of messages. *)
LEMMA SentTyped ==
  ASSUME TypeOK, NEW n \in Nodes, NEW s \in Slots, NEW kind \in {"claim", "failed"},
         NEW score \in 0 .. MaxScore
  PROVE  Sent(kind, n, s, score) \subseteq Messages
  BY DEF TypeOK, Sent, Messages

(* The initial state satisfies the invariant. *)
LEMMA InitInv == Init => Inv
<1> SUFFICES ASSUME Init PROVE Inv
  OBVIOUS
<1>1. Over("none", Nil) \in Rounds /\ Over("none", Nil).phase = "none"
  BY Shapes DEF Phases
<1>2. TypeOK
  BY <1>1 DEF Init, TypeOK
<1>3. \A n \in Nodes, s \in Slots : ~Holding(n, s)
  BY <1>1 DEF Init, Holding
<1> QED
  BY <1>2, <1>3 DEF Init, Inv, Core, ClaimBacked, Exclusive, ExclusiveAt, OneSlotUnlessFailed

-----------------------------------------------------------------------------
(* The ways in which a step touches what the core of the invariant talks of.
   First: nobody starts or stops holding a slot. *)
LEMMA CoreKept ==
  ASSUME TypeOK, Core,
         \A m \in Nodes, t \in Slots : Holding(m, t)' <=> Holding(m, t),
         UNCHANGED <<claimed, wins>>, spoiled \subseteq spoiled'
  PROVE  Core'
  BY DEF TypeOK, Core, ClaimBacked, Exclusive, ExclusiveAt, OneSlotUnlessFailed

(* A node whose claim is free takes it for one slot. *)
LEMMA CoreTaken ==
  ASSUME TypeOK, Core, NEW n \in Nodes, NEW s \in Slots,
         n \notin claimed, claimed' = claimed \cup {n},
         Holding(n, s)',
         \A m \in Nodes, t \in Slots :
           m # n \/ t # s => (Holding(m, t)' <=> Holding(m, t)),
         UNCHANGED <<wins, spoiled>>
  PROVE  Core'
<1>1. ClaimBacked'
  BY DEF TypeOK, Core, ClaimBacked
<1>2. Exclusive'
  <2> SUFFICES ASSUME NEW m \in Nodes, m \notin spoiled
               PROVE  ExclusiveAt(m)'
    BY DEF Exclusive
  <2>1. CASE m # n
    BY <2>1 DEF Core, Exclusive, ExclusiveAt, TypeOK
  <2>2. CASE m = n
    <3>1. \A t \in Slots : ~Holding(n, t) /\ <<n, t>> \notin wins
      BY <2>2 DEF Core, Exclusive, ExclusiveAt
    <3> QED
      BY <2>2, <3>1 DEF ExclusiveAt
  <2> QED
    BY <2>1, <2>2
<1>3. OneSlotUnlessFailed'
  BY DEF TypeOK, Core, OneSlotUnlessFailed
<1> QED
  BY <1>1, <1>2, <1>3 DEF Core

(* A node loses its claim and is spoiled. *)
LEMMA CoreSpoiled ==
  ASSUME TypeOK, Core, NEW n \in Nodes,
         claimed' = claimed \ {n}, n \in spoiled', spoiled \subseteq spoiled',
         \A m \in Nodes, t \in Slots : m # n => (Holding(m, t)' <=> Holding(m, t)),
         UNCHANGED wins
  PROVE  Core'
  BY DEF TypeOK, Core, ClaimBacked, Exclusive, ExclusiveAt, OneSlotUnlessFailed

(* A node that holds a slot gives it up with its claim. *)
LEMMA CoreLost ==
  ASSUME TypeOK, Core, NEW n \in Nodes, NEW s \in Slots, Holding(n, s),
         ~Holding(n, s)', claimed' = claimed \ {n},
         \A m \in Nodes, t \in Slots :
           m # n \/ t # s => (Holding(m, t)' <=> Holding(m, t)),
         UNCHANGED <<wins, spoiled>>
  PROVE  Core'
<1>1. ClaimBacked'
  BY DEF TypeOK, Core, ClaimBacked
<1>2. Exclusive'
  <2> SUFFICES ASSUME NEW m \in Nodes, m \notin spoiled
               PROVE  ExclusiveAt(m)'
    BY DEF Exclusive
  <2>1. CASE m # n
    BY <2>1 DEF Core, Exclusive, ExclusiveAt, TypeOK
  <2>2. CASE m = n
    <3>1. \A t \in Slots : <<n, t>> \notin wins /\ ~Holding(n, t)'
      BY <2>2 DEF Core, Exclusive, ExclusiveAt
    <3> QED
      BY <2>2, <3>1 DEF ExclusiveAt
  <2> QED
    BY <2>1, <2>2
<1>3. OneSlotUnlessFailed'
  BY DEF TypeOK, Core, OneSlotUnlessFailed
<1> QED
  BY <1>1, <1>2, <1>3 DEF Core

(* A node that holds a slot wins it. *)
LEMMA CoreWon ==
  ASSUME TypeOK, Core, NEW n \in Nodes, NEW s \in Slots, Holding(n, s),
         ~Holding(n, s)', wins' = wins \cup {<<n, s>>},
         \A m \in Nodes, t \in Slots :
           m # n \/ t # s => (Holding(m, t)' <=> Holding(m, t)),
         UNCHANGED <<claimed, spoiled>>
  PROVE  Core'
<1>1. ClaimBacked'
  <2> SUFFICES ASSUME NEW m \in claimed
               PROVE  \E t \in Slots : Holding(m, t)' \/ <<m, t>> \in wins'
    BY DEF ClaimBacked
  <2>1. PICK t \in Slots : Holding(m, t) \/ <<m, t>> \in wins
    BY DEF Core, ClaimBacked
  <2> QED
    BY <2>1 DEF TypeOK
<1>2. Exclusive'
  <2> SUFFICES ASSUME NEW m \in Nodes, m \notin spoiled
               PROVE  ExclusiveAt(m)'
    BY DEF Exclusive
  <2>1. CASE m # n
    BY <2>1 DEF Core, Exclusive, ExclusiveAt, TypeOK
  <2>2. CASE m = n
    <3>1. n \in claimed /\ \A t \in Slots : ~Holding(n, t)'
      BY <2>2 DEF Core, Exclusive, ExclusiveAt
    <3> QED
      BY <2>2, <3>1 DEF ExclusiveAt
  <2> QED
    BY <2>1, <2>2
<1>3. OneSlotUnlessFailed'
  BY DEF TypeOK, Core, Exclusive, ExclusiveAt, OneSlotUnlessFailed
<1> QED
  BY <1>1, <1>2, <1>3 DEF Core

-----------------------------------------------------------------------------
(* The end of a round, whatever its outcome, is well typed and leaves nothing
   held. *)
LEMMA Finished ==
  ASSUME TypeOK, NEW n \in Nodes, NEW s \in Slots, NEW outcome \in Outcomes,
         NEW who \in Nodes \cup {Nil}, Finish(n, s, outcome, who)
  PROVE  /\ round' \in [Nodes -> [Slots -> Rounds]]
         /\ inbox' \subseteq Messages
         /\ ~Holding(n, s)'
         /\ \A m \in Nodes, t \in Slots :
              m # n \/ t # s => (Holding(m, t)' <=> Holding(m, t))
<1>1. Over(outcome, who) \in Rounds /\ Over(outcome, who).phase = outcome
  BY Shapes DEF Phases
<1> HIDE DEF Over
<1>2. SetRound(n, s, Over(outcome, who))
  BY DEF Finish
<1>3. /\ round' \in [Nodes -> [Slots -> Rounds]]
      /\ round'[n][s] = Over(outcome, who)
      /\ \A m \in Nodes, t \in Slots :
           m # n \/ t # s => round'[m][t] = round[m][t]
  BY <1>1, <1>2, Updated
<1>4. inbox' \subseteq Messages
  BY DEF Finish, TypeOK
<1> QED
  BY <1>1, <1>3, <1>4 DEF Holding, Outcomes

(* report(Failed). *)
LEMMA FailedInv ==
  ASSUME Inv, NEW n \in Nodes, NEW s \in Slots, ReportFailed(n, s)
  PROVE  Inv'
<1>1. Finish(n, s, "failed", Nil)
  BY DEF ReportFailed
<1>2. /\ round' \in [Nodes -> [Slots -> Rounds]]
      /\ inbox' \subseteq Messages
      /\ \A m \in Nodes, t \in Slots :
           m # n \/ t # s => (Holding(m, t)' <=> Holding(m, t))
  BY <1>1, Finished DEF Inv, Outcomes
<1>3. Sent("failed", n, s, 0) \subseteq Messages
  BY SentTyped, ElectionAssumption DEF Inv
<1>4. TypeOK'
  BY <1>2, <1>3 DEF Inv, TypeOK, ReportFailed
<1>5. Core'
  BY <1>2, CoreSpoiled DEF Inv, ReportFailed
<1> QED
  BY <1>4, <1>5 DEF Inv

(* report(Lost) of a round that holds nothing, and of one in the tiebreak
   window, which also releases the claim. *)
LEMMA LostInv ==
  ASSUME Inv, NEW n \in Nodes, NEW s \in Slots, NEW winner \in Nodes,
         ReportLost(n, s, winner),
         \/ ~Holding(n, s) /\ claimed' = claimed
         \/ Holding(n, s) /\ claimed' = claimed \ {n}
  PROVE  Inv'
<1>1. Finish(n, s, "lost", winner)
  BY DEF ReportLost
<1>2. /\ round' \in [Nodes -> [Slots -> Rounds]]
      /\ inbox' \subseteq Messages
      /\ ~Holding(n, s)'
      /\ \A m \in Nodes, t \in Slots :
           m # n \/ t # s => (Holding(m, t)' <=> Holding(m, t))
  BY <1>1, Finished DEF Inv, Outcomes
<1>3. lostCh' \in [Nodes -> Seq(Slots \X Nodes)]
  BY DEF Inv, TypeOK, ReportLost
<1>4. TypeOK'
  BY <1>2, <1>3 DEF Inv, TypeOK, ReportLost
<1>5. CASE ~Holding(n, s) /\ claimed' = claimed
  <2>1. \A m \in Nodes, t \in Slots : Holding(m, t)' <=> Holding(m, t)
    BY <1>2, <1>5
  <2> QED
    BY <1>4, <1>5, <2>1, CoreKept DEF Inv, ReportLost
<1>6. CASE Holding(n, s) /\ claimed' = claimed \ {n}
  BY <1>2, <1>4, <1>6, CoreLost DEF Inv, ReportLost
<1> QED
  BY <1>5, <1>6

(* report(Won). *)
LEMMA WonInv ==
  ASSUME Inv, NEW n \in Nodes, NEW s \in Slots, Holding(n, s), ReportWon(n, s)
  PROVE  Inv'
<1>1. Finish(n, s, "won", n)
  BY DEF ReportWon
<1>2. /\ round' \in [Nodes -> [Slots -> Rounds]]
      /\ inbox' \subseteq Messages
      /\ ~Holding(n, s)'
      /\ \A m \in Nodes, t \in Slots :
           m # n \/ t # s => (Holding(m, t)' <=> Holding(m, t))
  BY <1>1, Finished DEF Inv, Outcomes
<1>3. wonCh' \in [Nodes -> Seq(Slots \X Nodes)]
  BY DEF Inv, TypeOK, ReportWon
<1>4. TypeOK'
  <2>1. wins' \subseteq Nodes \X Slots
    BY DEF Inv, TypeOK, ReportWon
  <2> QED
    BY <1>2, <1>3, <2>1 DEF Inv, TypeOK, ReportWon
<1>5. Core'
  BY <1>2, CoreWon DEF Inv, ReportWon
<1> QED
  BY <1>4, <1>5 DEF Inv

(* A round that holds nothing is replaced by one that holds nothing. *)
LEMMA OpenedInv ==
  ASSUME Inv, NEW n \in Nodes, NEW s \in Slots, NEW r \in Rounds,
         SetRound(n, s, r), ~Holding(n, s), r.phase \notin {"publish", "tiebreak"},
         asked' \in [Nodes -> [Slots -> Nat]], inbox' \subseteq inbox,
         UNCHANGED <<now, claimed, net, wonCh, lostCh, replicas, known, life, wins,
                     spoiled>>
  PROVE  Inv'
<1>1. /\ round' \in [Nodes -> [Slots -> Rounds]]
      /\ round'[n][s] = r
      /\ \A m \in Nodes, t \in Slots :
           m # n \/ t # s => round'[m][t] = round[m][t]
  BY Updated DEF Inv
<1>2. \A m \in Nodes, t \in Slots : Holding(m, t)' <=> Holding(m, t)
  BY <1>1 DEF Holding
<1>3. TypeOK'
  BY <1>1 DEF Inv, TypeOK
<1> QED
  BY <1>2, <1>3, CoreKept DEF Inv

(* tryClaimCapsule. *)
LEMMA TryClaimInv ==
  ASSUME Inv, NEW n \in Nodes, NEW s \in Slots, round[n][s].phase = "wait",
         TryClaim(n, s), inbox' \subseteq inbox, UNCHANGED Rest
  PROVE  Inv'
<1> DEFINE r == round[n][s]
           aside == Round("verdict", 0, 0, 0, r.end, Nil)
           taken == Round("publish", r.score, r.at, now, r.end, Nil)
<1>1. r \in Rounds /\ now \in Nat
  BY DEF Inv, TypeOK
<1>2. /\ aside \in Rounds /\ aside.phase = "verdict"
      /\ taken \in Rounds /\ taken.phase = "publish"
  BY <1>1, ElectionAssumption DEF Round, Rounds, Phases, OpenPhases
<1>3. ~Holding(n, s)
  BY DEF Holding
<1>4. CASE n \in claimed /\ SetRound(n, s, aside) /\ UNCHANGED claimed
  <2>1. asked' \in [Nodes -> [Slots -> Nat]]
    BY DEF Inv, TypeOK, Rest
  <2> HIDE DEF aside
  <2> QED
    BY <1>2, <1>3, <1>4, <2>1, OpenedInv DEF Rest
<1>5. CASE n \notin claimed /\ SetRound(n, s, taken) /\ claimed' = claimed \cup {n}
  <2> HIDE DEF taken
  <2>1. /\ round' \in [Nodes -> [Slots -> Rounds]]
        /\ round'[n][s] = taken
        /\ \A m \in Nodes, t \in Slots :
             m # n \/ t # s => round'[m][t] = round[m][t]
    BY <1>2, <1>5, Updated DEF Inv
  <2>2. TypeOK'
    BY <1>5, <2>1 DEF Inv, TypeOK, Rest
  <2>3. /\ Holding(n, s)'
        /\ \A m \in Nodes, t \in Slots :
             m # n \/ t # s => (Holding(m, t)' <=> Holding(m, t))
    BY <1>2, <2>1 DEF Holding
  <2> QED
    BY <1>5, <2>2, <2>3, CoreTaken DEF Inv, Rest
<1> QED
  BY <1>4, <1>5 DEF TryClaim

-----------------------------------------------------------------------------
(* HandleRequest. *)
LEMMA RequestInv ==
  ASSUME Inv, NEW n \in Nodes, NEW s \in Slots, Request(n, s)
  PROVE  Inv'
<1>1. now \in Nat /\ ~Holding(n, s)
  BY DEF Inv, TypeOK, Request, Open, OpenPhases, Holding
<1>2. asked' \in [Nodes -> [Slots -> Nat]]
  BY DEF Inv, TypeOK, Request
<1>3. PICK score \in Offers[n], jitter \in 0 .. Jitter :
        LET bids == score # NoBid /\ ~RunsReplica(n) /\ n \notin claimed IN
        SetRound(n, s,
          IF bids THEN Round("wait", score, PublishAt(score, s, jitter),
                             0, now + Timeout, Nil)
                  ELSE Round("verdict", 0, 0, 0, now + Timeout, Nil))
  BY DEF Request
<1> DEFINE bids == score # NoBid /\ ~RunsReplica(n) /\ n \notin claimed
           at == PublishAt(score, s, jitter)
           bidding == Round("wait", score, at, 0, now + Timeout, Nil)
           watching == Round("verdict", 0, 0, 0, now + Timeout, Nil)
<1>4. now + Timeout \in Nat
  BY <1>1, ElectionAssumption
<1>5. ASSUME bids
      PROVE  score \in 0 .. MaxScore /\ at \in Nat
  <2>1. score \in 0 .. MaxScore
    BY <1>5, ElectionAssumption DEF NoBid
  <2>2. BaseWait(score) \in Nat
    <3>1. MaxScore - score \in Nat
      BY <2>1, ElectionAssumption
    <3> QED
      BY <3>1, ElectionAssumption DEF BaseWait
  <2>3. SlotDelay(s) \in Nat
    BY ElectionAssumption DEF SlotDelay, Slots
  <2>4. jitter \in Nat
    BY ElectionAssumption
  <2> QED
    BY <1>1, <2>1, <2>2, <2>3, <2>4 DEF PublishAt
<1>6. watching \in Rounds /\ watching.phase = "verdict"
  BY <1>4, ElectionAssumption DEF Round, Rounds, Phases, OpenPhases
<1>7. bids => bidding \in Rounds /\ bidding.phase = "wait"
  <2> HIDE DEF at, bids
  <2> QED
    BY <1>4, <1>5, ElectionAssumption DEF Round, Rounds, Phases, OpenPhases
<1>8. /\ inbox' \subseteq inbox
      /\ UNCHANGED <<now, claimed, net, wonCh, lostCh, replicas, known, life, wins,
                     spoiled>>
  BY DEF Request
<1>9. \/ bids /\ SetRound(n, s, bidding)
      \/ SetRound(n, s, watching)
  BY <1>3
<1> HIDE DEF bids, bidding, watching
<1> QED
  BY <1>1, <1>2, <1>6, <1>7, <1>8, <1>9, OpenedInv

(* PublishClaim: the slot was and stays held. *)
LEMMA PublishInv ==
  ASSUME Inv, NEW n \in Nodes, NEW s \in Slots, Publish(n, s)
  PROVE  Inv'
<1> DEFINE r == round[n][s]
           q == Round("tiebreak", r.score, r.at, r.pub, r.end, Nil)
<1>1. r \in Rounds
  BY DEF Inv, TypeOK
<1>2. q \in Rounds /\ q.phase = "tiebreak"
  BY <1>1 DEF Round, Rounds, Phases, OpenPhases
<1>3. Sent("claim", n, s, r.score) \subseteq Messages
  BY <1>1, SentTyped DEF Inv, Rounds
<1>4. SetRound(n, s, q) /\ r.phase = "publish"
  BY DEF Publish
<1> HIDE DEF q
<1>5. /\ round' \in [Nodes -> [Slots -> Rounds]]
      /\ round'[n][s] = q
      /\ \A m \in Nodes, t \in Slots :
           m # n \/ t # s => round'[m][t] = round[m][t]
  BY <1>2, <1>4, Updated DEF Inv
<1>6. TypeOK'
  BY <1>3, <1>5 DEF Inv, TypeOK, Publish
<1>7. \A m \in Nodes, t \in Slots : Holding(m, t)' <=> Holding(m, t)
  BY <1>2, <1>4, <1>5 DEF Holding
<1> QED
  BY <1>6, <1>7, CoreKept DEF Inv, Publish

(* Every step of an open round but NilRival. *)
LEMMA RoundInv ==
  ASSUME Inv, NEW n \in Nodes, NEW s \in Slots, RoundStep(n, s), ~NilRival(n, s)
  PROVE  Inv'
<1>1. CASE WaitTimer(n, s)
  BY <1>1, TryClaimInv DEF WaitTimer
<1>2. CASE WaitRival(n, s)
  <2>1. PICK m \in Claims(n, s) :
          \/ ReportLost(n, s, m.from) /\ UNCHANGED claimed
          \/ TryClaim(n, s) /\ inbox' = inbox \ {m} /\ UNCHANGED Rest
    BY <1>2 DEF WaitRival
  <2>2. m.from \in Nodes /\ ~Holding(n, s) /\ round[n][s].phase = "wait"
    BY <1>2 DEF WaitRival, Claims, Inv, TypeOK, Messages, Holding
  <2> QED
    BY <2>1, <2>2, LostInv, TryClaimInv
<1>3. CASE TieBetter(n, s)
  <2>1. PICK m \in Claims(n, s) : ReportLost(n, s, m.from)
    BY <1>3 DEF TieBetter
  <2>2. m.from \in Nodes /\ Holding(n, s) /\ claimed' = claimed \ {n}
    BY <1>3 DEF TieBetter, Claims, Inv, TypeOK, Messages, Holding
  <2> QED
    BY <2>1, <2>2, LostInv
<1>4. CASE TieWorse(n, s)
  <2>1. TypeOK'
    BY <1>4 DEF TieWorse, Inv, TypeOK, Rest
  <2>2. \A m \in Nodes, t \in Slots : Holding(m, t)' <=> Holding(m, t)
    BY <1>4 DEF TieWorse, Holding
  <2> QED
    BY <1>4, <2>1, <2>2, CoreKept DEF Inv, TieWorse, Rest
<1>5. CASE TieWindowEnds(n, s)
  BY <1>5, WonInv DEF TieWindowEnds, Holding
<1>6. CASE VerdictClaim(n, s)
  <2>1. PICK m \in Claims(n, s) : ReportLost(n, s, m.from)
    BY <1>6 DEF VerdictClaim
  <2>2. m.from \in Nodes /\ ~Holding(n, s) /\ claimed' = claimed
    BY <1>6 DEF VerdictClaim, Claims, Inv, TypeOK, Messages, Holding
  <2> QED
    BY <2>1, <2>2, LostInv
<1>7. CASE Publish(n, s)
  BY <1>7, PublishInv
<1>8. CASE ReportFailed(n, s)
  BY <1>8, FailedInv
<1> QED
  BY <1>1, <1>2, <1>3, <1>4, <1>5, <1>6, <1>7, <1>8
     DEF RoundStep, WaitFailure, WaitDeadline, PublishError, VerdictFailure,
         VerdictDeadline, Cancelled, ChannelClosed

-----------------------------------------------------------------------------
(* The death of a process. *)
LEMMA DieInv ==
  ASSUME Inv, NEW n \in Nodes, Die(n)
  PROVE  Inv'
<1>1. Over("none", Nil) \in Rounds
  BY Shapes DEF Phases
<1>2. TypeOK'
  <2>1. round' \in [Nodes -> [Slots -> Rounds]]
    <3> HIDE DEF Over
    <3> QED
      BY <1>1 DEF Inv, TypeOK, Die
  <2>2. /\ wonCh' \in [Nodes -> Seq(Slots \X Nodes)]
        /\ lostCh' \in [Nodes -> Seq(Slots \X Nodes)]
    BY DEF Inv, TypeOK, Die
  <2>3. life' \in [Nodes -> {"up", "stopped", "left", "dead"}]
    BY DEF Inv, TypeOK, Die
  <2> QED
    BY <2>1, <2>2, <2>3 DEF Inv, TypeOK, Die
<1>3. \A m \in Nodes, t \in Slots : m # n => (Holding(m, t)' <=> Holding(m, t))
  BY DEF Inv, TypeOK, Die, Holding
<1>4. /\ claimed' = claimed \ {n} /\ n \in spoiled' /\ spoiled \subseteq spoiled'
      /\ UNCHANGED wins
  BY DEF Die
<1> QED
  BY <1>2, <1>3, <1>4, CoreSpoiled DEF Inv

(* A step that touches no round, no claim and no win. *)
LEMMA QuietInv ==
  ASSUME Inv, TypeOK', UNCHANGED <<round, claimed, wins, spoiled>>
  PROVE  Inv'
<1>1. \A m \in Nodes, t \in Slots : Holding(m, t)' <=> Holding(m, t)
  BY DEF Holding
<1> QED
  BY <1>1, CoreKept DEF Inv

(* AssignReplica keeps the type of the replica table. *)
LEMMA AssignTyped ==
  ASSUME TypeOK, NEW n \in Nodes, NEW e \in Slots \X Nodes, Assign(n, e[1], e[2])
  PROVE  replicas' \in [Nodes -> [Slots -> Nodes \cup {Nil}]]
  BY DEF TypeOK, Assign

(* What happens to a node as a whole. *)
LEMMA NodeInv ==
  ASSUME Inv, NEW n \in Nodes, NodeStep(n)
  PROVE  Inv'
<1>1. CASE Crash(n)
  BY <1>1, DieInv DEF Crash
<1>2. CASE Stop(n)
  <2>1. TypeOK'
    BY <1>2 DEF Stop, Inv, TypeOK
  <2> QED
    BY <1>2, <2>1, QuietInv DEF Stop
<1>3. CASE LeaveCluster(n)
  <2>1. TypeOK'
    BY <1>3 DEF LeaveCluster, Inv, TypeOK
  <2> QED
    BY <1>3, <2>1, QuietInv DEF LeaveCluster
<1>4. CASE Rejoin(n)
  <2>1. TypeOK'
    BY <1>4 DEF Rejoin, Inv, TypeOK
  <2>2. \A m \in Nodes, t \in Slots : Holding(m, t)' <=> Holding(m, t)
    BY <1>4 DEF Rejoin, Holding
  <2>3. CASE life[n] = "left"
    BY <1>4, <2>1, <2>2, <2>3, CoreKept DEF Inv, Rejoin
  <2>4. CASE life[n] # "left"
    BY <1>4, <2>1, <2>2, <2>4, CoreSpoiled DEF Inv, Rejoin
  <2> QED
    BY <2>3, <2>4
<1>5. CASE ForgetCapsule(n)
  <2>1. TypeOK'
    BY <1>5 DEF ForgetCapsule, Inv, TypeOK
  <2>2. \A m \in Nodes, t \in Slots : Holding(m, t)' <=> Holding(m, t)
    BY <1>5 DEF ForgetCapsule, Holding
  <2> QED
    BY <1>5, <2>1, <2>2, CoreSpoiled DEF Inv, ForgetCapsule
<1>6. CASE HandleElectionWon(n)
  <2>1. wonCh[n] \in Seq(Slots \X Nodes) /\ wonCh[n] # <<>>
    BY <1>6 DEF HandleElectionWon, Inv, TypeOK
  <2>2. /\ Head(wonCh[n]) \in Slots \X Nodes
        /\ Tail(wonCh[n]) \in Seq(Slots \X Nodes)
    BY <2>1
  <2>3. replicas' \in [Nodes -> [Slots -> Nodes \cup {Nil}]]
    BY <1>6, <2>2, AssignTyped DEF HandleElectionWon, Inv
  <2>4. TypeOK'
    BY <1>6, <2>2, <2>3 DEF HandleElectionWon, Inv, TypeOK
  <2> QED
    BY <1>6, <2>4, QuietInv DEF HandleElectionWon
<1>7. CASE HandleElectionLost(n)
  <2>1. lostCh[n] \in Seq(Slots \X Nodes) /\ lostCh[n] # <<>>
    BY <1>7 DEF HandleElectionLost, Inv, TypeOK
  <2>2. /\ Head(lostCh[n]) \in Slots \X Nodes
        /\ Tail(lostCh[n]) \in Seq(Slots \X Nodes)
    BY <2>1
  <2>3. replicas' \in [Nodes -> [Slots -> Nodes \cup {Nil}]]
    BY <1>7, <2>2, AssignTyped DEF HandleElectionLost, Inv
  <2>4. TypeOK'
    BY <1>7, <2>2, <2>3 DEF HandleElectionLost, Inv, TypeOK
  <2> QED
    BY <1>7, <2>4, QuietInv DEF HandleElectionLost
<1> QED
  BY <1>1, <1>2, <1>3, <1>4, <1>5, <1>6, <1>7 DEF NodeStep

(* The invariant is inductive. *)
LEMMA NextInv == Inv /\ [Next]_vars => Inv'
<1> SUFFICES ASSUME Inv, [Next]_vars PROVE Inv'
  OBVIOUS
<1>1. ASSUME NEW n \in Nodes, NEW s \in Slots, Request(n, s)
      PROVE  Inv'
  BY <1>1, RequestInv
<1>2. ASSUME NEW n \in Nodes, NEW s \in Slots, RoundStep(n, s)
      PROVE  Inv'
  BY <1>2, RoundInv, DieInv DEF NilRival
<1>3. ASSUME NEW n \in Nodes, NodeStep(n)
      PROVE  Inv'
  BY <1>3, NodeInv
<1>4. ASSUME NEW m \in net, Deliver(m)
      PROVE  Inv'
  <2>1. TypeOK'
    <3>1. m \in Messages /\ now \in Nat
      BY DEF Inv, TypeOK
    <3>2. inbox' \subseteq Messages
      BY <1>4, <3>1 DEF Deliver, Inv, TypeOK, Messages
    <3> QED
      BY <1>4, <3>2 DEF Deliver, Inv, TypeOK
  <2> QED
    BY <1>4, <2>1, QuietInv DEF Deliver
<1>5. ASSUME NEW m \in net, Lose(m)
      PROVE  Inv'
  <2>1. TypeOK'
    BY <1>5 DEF Lose, Inv, TypeOK
  <2> QED
    BY <1>5, <2>1, QuietInv DEF Lose
<1>6. ASSUME NEW m \in inbox, Sweep(m)
      PROVE  Inv'
  <2>1. TypeOK'
    BY <1>6 DEF Sweep, Inv, TypeOK
  <2> QED
    BY <1>6, <2>1, QuietInv DEF Sweep
<1>7. CASE Tick
  <2>1. TypeOK'
    BY <1>7 DEF Tick, Inv, TypeOK
  <2> QED
    BY <1>7, <2>1, QuietInv DEF Tick
<1>8. CASE UNCHANGED vars
  <2>1. TypeOK'
    BY <1>8 DEF vars, Inv, TypeOK
  <2> QED
    BY <1>8, <2>1, QuietInv DEF vars
<1> QED
  BY <1>1, <1>2, <1>3, <1>4, <1>5, <1>6, <1>7, <1>8 DEF Next

(* The inductive invariant holds in every reachable state of the election. *)
THEOREM ElectionInvariant == Spec => []Inv
  BY InitInv, NextInv, PTL DEF Spec

(* The type invariant of the election: PublishAt, publishedAt and the deadline
   of a round are times, and every message, event and replica entry names
   nodes and slots that exist. *)
THEOREM ElectionTypeCorrect == Spec => []TypeOK
  BY ElectionInvariant, PTL DEF Inv

(* localClaims does not leak (tryClaimCapsule and releaseCapsuleClaim,
   manager.go:767-788), whatever is lost, fails, stops or crashes. *)
THEOREM ClaimBackedAlways == Spec => []ClaimBacked
  BY ElectionInvariant, PTL DEF Inv, Core

(* The guard on localClaims (manager.go:491-503 and 529-538) keeps a node from
   winning two replicas of the capsule as long as none of its rounds fails and
   the capsule is not deleted, for every timing and every number of replicas. *)
THEOREM OneSlotAlways == Spec => []OneSlotUnlessFailed
  BY ElectionInvariant, PTL DEF Inv, Core
-----------------------------------------------------------------------------
(* One winner per slot.  The bounds under which the tiebreak decides: nodes
   stay up and no message is lost, a node asks for a slot once, and the claims
   that answer each other fit into the tiebreak window. *)
Timely ==
  /\ Faults \subseteq {"publish", "delete"} /\ MaxRounds = 1
  /\ 2 * Delta < Tiebreak /\ LastRequest + Delta < Tiebreak
  /\ LastRequest < BufferTTL
  /\ \/ Slack = 0
     \/ \A a, b \in Nodes : a # b => Offers[a] \cap Offers[b] \subseteq {NoBid}

(* The claim that a sent b for s has not been read. *)
Pending(a, b, s) ==
  \E m \in net \cup inbox :
    /\ m.kind = "claim" /\ m.from = a /\ m.to = b /\ m.slot = s
    /\ m.score = round[a][s].score /\ m.ts = round[a][s].pub

(* IsBetter on the claim of a and the round of b. *)
Beats(a, b, s) ==
  LET p == round[a][s]  q == round[b][s] IN
  \/ p.score > q.score
  \/ p.score = q.score /\ p.pub < q.at
  \/ p.score = q.score /\ p.pub = q.at /\ a < b

(* Messages and timers are never later than Delta and Slack allow. *)
NetOnTime == \A m \in net : m.at = m.ts /\ now <= m.ts + Delta

InboxOnTime ==
  \A m \in inbox : m.kind = "claim" /\ Open(m.to, m.slot) =>
    now <= m.ts + Delta \/ now <= LastRequest

RoundOnTime(n, s) ==
  LET r == round[n][s] IN
  /\ r.phase = "publish" => r.pub = now
  /\ r.phase = "tiebreak" => r.pub <= now
  /\ r.phase = "wait" => now <= r.at + Slack
  /\ Holding(n, s) => r.pub <= r.at + Slack
  /\ r.phase = "wait" \/ Holding(n, s) => r.score \in Offers[n]
  /\ r.phase # "none" => asked[n][s] # 0

(* What the claim of b does to the round of a: a has still to read it, or has
   read it and is not beaten; and a did not publish long after it. *)
Faces(b, a, s) ==
  /\ round[a][s].phase = "none" => Pending(b, a, s) \/ now > LastRequest
  /\ round[a][s].phase = "wait" => Pending(b, a, s)
  /\ Holding(a, s) =>
       /\ Pending(b, a, s) \/ ~Beats(b, a, s)
       /\ \/ round[a][s].pub <= round[b][s].pub + Delta
          \/ round[a][s].pub <= LastRequest

Facing == \A s \in Slots, a, b \in Nodes :
            a # b /\ round[b][s].phase = "tiebreak" => Faces(b, a, s)

(* Once a slot is won nobody competes for it any more. *)
Decided ==
  \A w \in wins :
    /\ now > LastRequest
    /\ \A a \in Nodes : round[a][w[2]].phase \notin {"wait", "publish", "tiebreak"}

Race ==
  /\ \A n \in Nodes : life[n] = "up"
  /\ NetOnTime /\ InboxOnTime
  /\ \A n \in Nodes, s \in Slots : RoundOnTime(n, s)
  /\ Facing /\ Decided /\ UniqueWinner

LEMMA InitRace == ASSUME Timely PROVE Init => Race
<1> SUFFICES ASSUME Init PROVE Race
  OBVIOUS
<1>1. \A n \in Nodes, s \in Slots : round[n][s].phase = "none"
  BY Shapes DEF Init, Phases
<1> QED
  BY <1>1 DEF Init, Race, NetOnTime, InboxOnTime, RoundOnTime, Facing, Decided, Holding,
              UniqueWinner

(* The numbers of a round and of a message. *)
LEMMA Numbers ==
  ASSUME TypeOK
  PROVE  /\ now \in Nat /\ wins \subseteq Nodes \X Slots
         /\ \A n \in Nodes, s \in Slots :
              /\ round[n][s] \in Rounds /\ round[n][s].phase \in Phases
              /\ round[n][s].at \in Nat /\ round[n][s].pub \in Nat
              /\ round[n][s].score \in 0 .. MaxScore /\ round[n][s].score \in Int
              /\ asked[n][s] \in Nat
         /\ \A m \in net \cup inbox :
              /\ m.from \in Nodes /\ m.to \in Nodes /\ m.slot \in Slots
              /\ m.ts \in Nat /\ m.at \in Nat /\ m.score \in Int
  BY ElectionAssumption DEF TypeOK, Rounds, Messages

(* A claim that is unread by a round that is open is not old. *)
LEMMA PendingIsRecent ==
  ASSUME TypeOK, Race, NEW a \in Nodes, NEW b \in Nodes, NEW s \in Slots,
         Pending(a, b, s), Open(b, s)
  PROVE  now <= round[a][s].pub + Delta \/ now <= LastRequest
<1>1. PICK m \in net \cup inbox :
        /\ m.kind = "claim" /\ m.to = b /\ m.slot = s /\ m.ts = round[a][s].pub
  BY DEF Pending
<1>2. CASE m \in net
  BY <1>1, <1>2 DEF Race, NetOnTime
<1>3. CASE m \in inbox
  BY <1>1, <1>3 DEF Race, InboxOnTime
<1> QED  BY <1>2, <1>3

(* Of two nodes that compete for a slot one beats the other: no two nodes have
   the same score, or nobody publishes after the time that was planned. *)
LEMMA OneBeats ==
  ASSUME Timely, TypeOK, Race, NEW a \in Nodes, NEW b \in Nodes, a # b, NEW s \in Slots,
         Holding(a, s), Holding(b, s)
  PROVE  Beats(a, b, s) \/ Beats(b, a, s)
<1> DEFINE p == round[a][s]
           q == round[b][s]
<1>1. /\ p.score \in Offers[a] /\ q.score \in Offers[b]
      /\ p.pub <= p.at + Slack /\ q.pub <= q.at + Slack
  BY DEF Race, RoundOnTime
<1>2. /\ p.at \in Nat /\ p.pub \in Nat /\ q.at \in Nat /\ q.pub \in Nat
      /\ p.score \in Nat /\ q.score \in Nat /\ a \in Nat /\ b \in Nat
  BY Numbers, ElectionAssumption
<1>3. CASE p.score # q.score
  BY <1>2, <1>3 DEF Beats
<1>4. CASE p.score = q.score
  <2>1. Slack = 0
    BY <1>1, <1>2, <1>4 DEF Timely, NoBid
  <2>2. p.pub <= p.at /\ q.pub <= q.at
    BY <1>1, <1>2, <2>1
  <2> HIDE DEF p, q
  <2>3. \/ p.pub < q.at
        \/ p.pub = q.at /\ a < b
        \/ q.pub < p.at
        \/ q.pub = p.at /\ b < a
    BY <1>2, <2>2
  <2> QED  BY <1>4, <2>3 DEF Beats, p, q
<1> QED  BY <1>3, <1>4

(* When a tiebreak window ends nobody else competes for the slot, and nobody
   will. *)
LEMMA NoRival ==
  ASSUME Timely, TypeOK, Race, NEW n \in Nodes, NEW s \in Slots,
         round[n][s].phase = "tiebreak", now >= round[n][s].pub + Tiebreak
  PROVE  /\ now > LastRequest
         /\ \A a \in Nodes : a # n => round[a][s].phase \notin {"wait", "publish", "tiebreak"}
<1> USE ElectionAssumption
<1>1. now \in Nat /\ round[n][s].pub \in Nat
  BY Numbers
<1>2. now > LastRequest /\ now > round[n][s].pub + Delta
  BY <1>1 DEF Timely
<1>3. ASSUME NEW a \in Nodes, a # n, round[a][s].phase \in {"wait", "publish", "tiebreak"}
      PROVE  FALSE
  <2>1. Faces(n, a, s) /\ Open(a, s)
    BY <1>3 DEF Race, Facing, Open, OpenPhases
  <2>2. ~Pending(n, a, s)
    BY <1>1, <1>2, <2>1, PendingIsRecent
  <2>3. Holding(a, s) /\ ~Beats(n, a, s) /\ round[a][s].pub \in Nat
    BY <1>3, <2>1, <2>2, Numbers DEF Faces, Holding
  <2>4. Beats(a, n, s)
    BY <1>3, <2>3, OneBeats DEF Holding
  <2>5. /\ now <= round[a][s].pub + Delta
    <3>1. CASE round[a][s].phase = "publish"
      BY <1>1, <3>1 DEF Race, RoundOnTime
    <3>2. CASE round[a][s].phase = "tiebreak"
      <4>1. Faces(a, n, s) /\ Open(n, s) /\ Holding(n, s)
        BY <1>3, <3>2 DEF Race, Facing, Open, OpenPhases, Holding
      <4>2. Pending(a, n, s)
        BY <2>4, <4>1 DEF Faces
      <4> QED  BY <1>1, <1>2, <4>1, <4>2, PendingIsRecent
    <3> QED  BY <2>3, <3>1, <3>2 DEF Holding
  <2>6. round[a][s].pub <= round[n][s].pub + Delta \/ round[a][s].pub <= LastRequest
    BY <2>1, <2>3 DEF Faces
  <2> QED  BY <1>1, <2>3, <2>5, <2>6 DEF Timely
<1> QED  BY <1>2, <1>3

-----------------------------------------------------------------------------
(* The steps.  What a pair of nodes knows of each other is kept when neither
   of their rounds changes and no claim between them is lost. *)
LEMMA FacesKept ==
  ASSUME NEW a \in Nodes, NEW b \in Nodes, NEW s \in Slots, Faces(b, a, s),
         round'[a][s] = round[a][s], round'[b][s] = round[b][s], now' = now,
         \A m \in net \cup inbox :
           m.kind = "claim" /\ m.to = a /\ m.slot = s => m \in net' \cup inbox'
  PROVE  Faces(b, a, s)'
<1>1. Pending(b, a, s) => Pending(b, a, s)'
  BY DEF Pending
<1>2. Beats(b, a, s)' <=> Beats(b, a, s)
  BY DEF Beats
<1>3. Holding(a, s)' <=> Holding(a, s)
  BY DEF Holding
<1> QED  BY <1>1, <1>2, <1>3 DEF Faces

(* A round ends, or waits for what the others say. *)
LEMMA RaceLeft ==
  ASSUME Timely, TypeOK, Race, NEW n \in Nodes, NEW s \in Slots, NEW r \in Rounds,
         SetRound(n, s, r), r.phase \in Outcomes \cup {"verdict"},
         r.phase = "verdict" => Open(n, s) \/ now <= LastRequest,
         asked'[n][s] # 0,
         \A m \in Nodes, t \in Slots : m # n \/ t # s => asked'[m][t] = asked[m][t],
         net \subseteq net', \A m \in net' \ net : m.kind = "failed" /\ m.at = m.ts /\ m.ts = now,
         inbox' \subseteq inbox, \A m \in inbox \ inbox' : m.to = n /\ m.slot = s,
         now' = now, life' = life,
         \/ wins' = wins
         \/ /\ wins' = wins \cup {<<n, s>>} /\ now > LastRequest
            /\ round[n][s].phase = "tiebreak"
            /\ \A a \in Nodes : a # n => round[a][s].phase \notin {"wait", "publish", "tiebreak"}
  PROVE  Race'
<1> USE ElectionAssumption
<1>1. /\ round'[n][s] = r
      /\ \A m \in Nodes, t \in Slots : m # n \/ t # s => round'[m][t] = round[m][t]
  BY Updated
<1>2. r.phase \notin {"none", "wait", "publish", "tiebreak"}
  BY DEF Outcomes
<1>3. NetOnTime'
  BY Numbers DEF Race, NetOnTime
<1>4. InboxOnTime'
  <2> SUFFICES ASSUME NEW m \in inbox', m.kind = "claim", Open(m.to, m.slot)'
               PROVE  now <= m.ts + Delta \/ now <= LastRequest
    BY DEF InboxOnTime
  <2>1. m \in inbox /\ m.to \in Nodes /\ m.slot \in Slots
    BY Numbers
  <2>2. Open(m.to, m.slot) \/ now <= LastRequest
    <3>1. CASE m.to = n /\ m.slot = s
      BY <1>1, <3>1 DEF Open, OpenPhases, Outcomes
    <3>2. CASE m.to # n \/ m.slot # s
      BY <1>1, <2>1, <3>2 DEF Open
    <3> QED  BY <3>1, <3>2
  <2> QED  BY <2>1, <2>2 DEF Race, InboxOnTime
<1>5. ASSUME NEW m \in Nodes, NEW t \in Slots PROVE RoundOnTime(m, t)'
  <2>1. CASE m = n /\ t = s
    BY <1>1, <1>2, <2>1 DEF RoundOnTime, Holding
  <2>2. CASE m # n \/ t # s
    <3>1. RoundOnTime(m, t) /\ round'[m][t] = round[m][t] /\ asked'[m][t] = asked[m][t]
      BY <1>1, <2>2 DEF Race
    <3> QED  BY <3>1 DEF RoundOnTime, Holding
  <2> QED  BY <2>1, <2>2
<1>6. Facing'
  <2> SUFFICES ASSUME NEW t \in Slots, NEW a \in Nodes, NEW b \in Nodes, a # b,
                      round'[b][t].phase = "tiebreak"
               PROVE  Faces(b, a, t)'
    BY DEF Facing
  <2>1. (b # n \/ t # s) /\ round'[b][t] = round[b][t]
    BY <1>1, <1>2
  <2>2. Faces(b, a, t)
    BY <2>1 DEF Race, Facing
  <2>3. CASE a = n /\ t = s
    BY <1>1, <1>2, <2>3 DEF Faces, Holding
  <2>4. CASE a # n \/ t # s
    BY <1>1, <2>1, <2>2, <2>4, FacesKept
  <2> QED  BY <2>3, <2>4
<1>7. Decided'
  <2> SUFFICES ASSUME NEW w \in wins', NEW a \in Nodes
               PROVE  now > LastRequest /\ round'[a][w[2]].phase \notin {"wait", "publish", "tiebreak"}
    BY DEF Decided
  <2>1. w[2] \in Slots /\ w \in (Nodes \X Slots)
    BY Numbers
  <2>2. CASE w \in wins
    BY <1>1, <1>2, <2>1, <2>2 DEF Race, Decided
  <2>3. CASE w \notin wins
    BY <1>1, <1>2, <2>1, <2>3
  <2> QED  BY <2>2, <2>3
<1>8. UniqueWinner'
  <2>1. ASSUME wins' = wins \cup {<<n, s>>}, round[n][s].phase = "tiebreak"
        PROVE  \A w \in wins : w[2] # s
    BY <2>1 DEF Race, Decided
  <2> QED  BY <2>1 DEF Race, UniqueWinner
<1> QED  BY <1>3, <1>4, <1>5, <1>6, <1>7, <1>8 DEF Race

(* A step that leaves the rounds alone: a claim that is read or swept is of no
   use to the node that loses it. *)
LEMMA RaceKept ==
  ASSUME Race, UNCHANGED <<now, round, asked, life, wins>>, NetOnTime', InboxOnTime',
         \A s \in Slots, a, b \in Nodes :
           a # b /\ round[b][s].phase = "tiebreak" /\ Pending(b, a, s) =>
             \/ Pending(b, a, s)'
             \/ round[a][s].phase = "none" /\ now > LastRequest
             \/ Holding(a, s) /\ ~Beats(b, a, s)
             \/ round[a][s].phase \notin {"none", "wait"} /\ ~Holding(a, s)
  PROVE  Race'
<1>1. now' = now /\ round' = round /\ asked' = asked /\ life' = life /\ wins' = wins
  OBVIOUS
<1>2. ASSUME NEW n \in Nodes, NEW s \in Slots PROVE RoundOnTime(n, s)'
  BY <1>1 DEF Race, RoundOnTime, Holding
<1>3. Facing'
  <2> SUFFICES ASSUME NEW s \in Slots, NEW a \in Nodes, NEW b \in Nodes, a # b,
                      round[b][s].phase = "tiebreak"
               PROVE  Faces(b, a, s)'
    BY <1>1 DEF Facing
  <2>1. Faces(b, a, s)
    BY DEF Race, Facing
  <2>2. Beats(b, a, s)' <=> Beats(b, a, s)
    BY <1>1 DEF Beats
  <2>3. Holding(a, s)' <=> Holding(a, s)
    BY <1>1 DEF Holding
  <2>4. Holding(a, s) => round[a][s].phase \notin {"none", "wait"}
    BY DEF Holding
  <2> QED  BY <1>1, <2>1, <2>2, <2>3, <2>4 DEF Faces
<1>4. Decided' /\ UniqueWinner'
  BY <1>1 DEF Race, Decided, UniqueWinner
<1> QED  BY <1>1, <1>2, <1>3, <1>4 DEF Race

(* topic.loop hands a message over. *)
LEMMA DeliverRace ==
  ASSUME Timely, TypeOK, Race, NEW m \in net, Deliver(m)
  PROVE  Race'
<1> USE ElectionAssumption
<1> DEFINE d == [kind |-> m.kind, from |-> m.from, to |-> m.to, slot |-> m.slot,
                 score |-> m.score, ts |-> m.ts, at |-> now]
<1>1. /\ d.kind = m.kind /\ d.from = m.from /\ d.to = m.to /\ d.slot = m.slot
      /\ d.score = m.score /\ d.ts = m.ts
  OBVIOUS
<1>2. net' = net \ {m} /\ inbox' = inbox \cup {d}
      /\ UNCHANGED <<now, round, asked, life, wins>>
  BY Numbers DEF Deliver, Race
<1> HIDE DEF d
<1>3. NetOnTime'
  BY <1>2 DEF Race, NetOnTime
<1>4. InboxOnTime'
  <2> SUFFICES ASSUME NEW x \in inbox', x.kind = "claim", Open(x.to, x.slot)
               PROVE  now <= x.ts + Delta \/ now <= LastRequest
    BY <1>2 DEF InboxOnTime, Open
  <2>1. CASE x \in inbox
    BY <2>1 DEF Race, InboxOnTime
  <2>2. CASE x = d
    BY <1>1, <2>2 DEF Race, NetOnTime
  <2> QED  BY <1>2, <2>1, <2>2
<1>5. \A s \in Slots, a, b \in Nodes : Pending(b, a, s) => Pending(b, a, s)'
  BY <1>1, <1>2 DEF Pending
<1> QED  BY <1>2, <1>3, <1>4, <1>5, RaceKept

(* sweepBuffer: what nobody listens for is old only when no round will open. *)
LEMMA SweepRace ==
  ASSUME Timely, TypeOK, Race, NEW m \in inbox, Sweep(m)
  PROVE  Race'
<1> USE ElectionAssumption
<1>1. /\ net' = net /\ inbox' = inbox \ {m}
      /\ UNCHANGED <<now, round, asked, life, wins>>
      /\ ~Open(m.to, m.slot) /\ now >= m.at + BufferTTL
  BY DEF Sweep
<1>2. now > LastRequest
  BY <1>1, Numbers DEF Timely
<1>3. NetOnTime' /\ InboxOnTime'
  BY <1>1 DEF Race, NetOnTime, InboxOnTime, Open
<1>4. ASSUME NEW s \in Slots, NEW a \in Nodes, NEW b \in Nodes, Pending(b, a, s),
             ~Pending(b, a, s)'
      PROVE  ~Open(a, s)
  BY <1>1, <1>4 DEF Pending
<1>5. \A a \in Nodes, s \in Slots : ~Open(a, s) =>
        round[a][s].phase # "wait" /\ ~Holding(a, s)
  BY DEF Open, OpenPhases, Holding
<1> QED  BY <1>1, <1>2, <1>3, <1>4, <1>5, RaceKept

(* The tiebreak window drops a claim that does not beat its own. *)
LEMMA TieWorseRace ==
  ASSUME Timely, TypeOK, Race, NEW n \in Nodes, NEW s \in Slots, TieWorse(n, s)
  PROVE  Race'
<1>1. PICK m \in Claims(n, s) : ~IsBetter(m, round[n][s], n) /\ inbox' = inbox \ {m}
  BY DEF TieWorse
<1>2. /\ net' = net /\ UNCHANGED <<now, round, asked, life, wins>>
      /\ round[n][s].phase = "tiebreak"
  BY DEF TieWorse, Rest
<1>3. NetOnTime' /\ InboxOnTime'
  BY <1>1, <1>2 DEF Race, NetOnTime, InboxOnTime, Open
<1>4. ASSUME NEW t \in Slots, NEW a \in Nodes, NEW b \in Nodes, Pending(b, a, t),
             ~Pending(b, a, t)'
      PROVE  Holding(a, t) /\ ~Beats(b, a, t)
  <2>1. /\ m.from = b /\ m.to = a /\ m.slot = t
        /\ m.score = round[b][t].score /\ m.ts = round[b][t].pub
    BY <1>1, <1>2, <1>4 DEF Pending
  <2>2. a = n /\ t = s
    BY <1>1, <2>1 DEF Claims
  <2> QED  BY <1>1, <1>2, <2>1, <2>2 DEF Holding, Beats, IsBetter
<1> QED  BY <1>2, <1>3, <1>4, RaceKept

(* A round opens and waits for its time.  What was sent to it before is in
   the buffer. *)
LEMMA WaitRace ==
  ASSUME Timely, TypeOK, Race, NEW n \in Nodes, NEW s \in Slots, NEW r \in Rounds,
         SetRound(n, s, r), r.phase = "wait", round[n][s].phase = "none",
         r.score \in Offers[n], now <= r.at, now <= LastRequest, asked'[n][s] # 0,
         \A m \in Nodes, t \in Slots : m # n \/ t # s => asked'[m][t] = asked[m][t],
         UNCHANGED <<now, net, inbox, life, wins>>
  PROVE  Race'
<1> USE ElectionAssumption
<1>1. /\ round'[n][s] = r
      /\ \A m \in Nodes, t \in Slots : m # n \/ t # s => round'[m][t] = round[m][t]
      /\ now' = now /\ net' = net /\ inbox' = inbox /\ life' = life /\ wins' = wins
  BY Updated
<1>2. wins = {}
  BY Numbers DEF Race, Decided
<1>3. NetOnTime' /\ InboxOnTime'
  BY <1>1, Numbers DEF Race, NetOnTime, InboxOnTime
<1>4. ASSUME NEW m \in Nodes, NEW t \in Slots PROVE RoundOnTime(m, t)'
  <2>1. CASE m = n /\ t = s
    <3>1. now <= r.at + Slack
      BY Numbers DEF Rounds
    <3> QED  BY <1>1, <2>1, <3>1 DEF RoundOnTime, Holding
  <2>2. CASE m # n \/ t # s
    <3>1. RoundOnTime(m, t) /\ round'[m][t] = round[m][t] /\ asked'[m][t] = asked[m][t]
      BY <1>1, <2>2 DEF Race
    <3> QED  BY <1>1, <3>1 DEF RoundOnTime, Holding
  <2> QED  BY <2>1, <2>2
<1>5. Facing'
  <2> SUFFICES ASSUME NEW t \in Slots, NEW a \in Nodes, NEW b \in Nodes, a # b,
                      round'[b][t].phase = "tiebreak"
               PROVE  Faces(b, a, t)'
    BY DEF Facing
  <2>1. (b # n \/ t # s) /\ round'[b][t] = round[b][t]
    BY <1>1
  <2>2. Faces(b, a, t)
    BY <2>1 DEF Race, Facing
  <2>3. CASE a = n /\ t = s
    <3>1. Pending(b, a, t)
      BY <2>2, <2>3, Numbers DEF Faces
    <3>2. Pending(b, a, t)'
      BY <1>1, <2>1, <3>1 DEF Pending
    <3> QED  BY <1>1, <2>3, <3>2 DEF Faces, Holding
  <2>4. CASE a # n \/ t # s
    BY <1>1, <2>1, <2>2, <2>4, FacesKept
  <2> QED  BY <2>3, <2>4
<1>6. Decided' /\ UniqueWinner'
  BY <1>1, <1>2 DEF Decided, UniqueWinner
<1> QED  BY <1>1, <1>3, <1>4, <1>5, <1>6 DEF Race

(* tryClaimCapsule succeeds: a node that waited goes on to publish, at the end
   of its wait or on reading a claim that does not beat it. *)
LEMMA ClaimRace ==
  ASSUME Timely, TypeOK, Race, NEW n \in Nodes, NEW s \in Slots, NEW r \in Rounds,
         SetRound(n, s, r), round[n][s].phase = "wait", r.phase = "publish",
         r.score = round[n][s].score, r.at = round[n][s].at, r.pub = now,
         inbox' \subseteq inbox,
         \A m \in inbox \ inbox' : m \in Claims(n, s) /\ ~IsBetter(m, round[n][s], n),
         UNCHANGED <<now, asked, net, life, wins>>
  PROVE  Race'
<1> USE ElectionAssumption
<1>1. /\ round'[n][s] = r
      /\ \A m \in Nodes, t \in Slots : m # n \/ t # s => round'[m][t] = round[m][t]
      /\ now' = now /\ asked' = asked /\ net' = net /\ life' = life /\ wins' = wins
  BY Updated
<1>2. NetOnTime'
  BY <1>1 DEF Race, NetOnTime
<1>3. InboxOnTime'
  <2>1. \A m \in Nodes, t \in Slots : Open(m, t)' => Open(m, t)
    BY <1>1 DEF Open, OpenPhases
  <2> QED  BY <1>1, <2>1, Numbers DEF Race, InboxOnTime
<1>4. ASSUME NEW m \in Nodes, NEW t \in Slots PROVE RoundOnTime(m, t)'
  <2>1. CASE m = n /\ t = s
    BY <1>1, <2>1, Numbers DEF Race, RoundOnTime, Holding
  <2>2. CASE m # n \/ t # s
    BY <1>1, <2>2 DEF Race, RoundOnTime, Holding
  <2> QED  BY <2>1, <2>2
<1>5. Facing'
  <2> SUFFICES ASSUME NEW t \in Slots, NEW a \in Nodes, NEW b \in Nodes, a # b,
                      round'[b][t].phase = "tiebreak"
               PROVE  Faces(b, a, t)'
    BY DEF Facing
  <2>1. (b # n \/ t # s) /\ round'[b][t] = round[b][t]
    BY <1>1
  <2>2. Faces(b, a, t)
    BY <2>1 DEF Race, Facing
  <2>3. CASE a = n /\ t = s
    <3>1. Pending(b, a, t) /\ Open(a, t)
      BY <2>2, <2>3 DEF Faces, Open, OpenPhases
    <3>2. now <= round[b][t].pub + Delta \/ now <= LastRequest
      BY <3>1, PendingIsRecent
    <3>3. Pending(b, a, t)' \/ ~Beats(b, a, t)'
      <4>1. PICK m \in net \cup inbox :
              /\ m.kind = "claim" /\ m.from = b /\ m.to = a /\ m.slot = t
              /\ m.score = round[b][t].score /\ m.ts = round[b][t].pub
        BY <3>1 DEF Pending
      <4>2. CASE m \in net' \cup inbox'
        BY <2>1, <4>1, <4>2 DEF Pending
      <4>3. CASE m \notin net' \cup inbox'
        <5>1. ~IsBetter(m, round[n][s], n)
          BY <1>1, <4>3
        <5> QED  BY <1>1, <2>1, <2>3, <4>1, <5>1 DEF IsBetter, Beats
      <4> QED  BY <4>2, <4>3
    <3> QED  BY <1>1, <2>1, <2>3, <3>2, <3>3 DEF Faces
  <2>4. CASE a # n \/ t # s
    <3>1. \A m \in net \cup inbox :
            m.kind = "claim" /\ m.to = a /\ m.slot = t => m \in net' \cup inbox'
      BY <1>1, <2>4 DEF Claims
    <3> QED  BY <1>1, <2>1, <2>2, <2>4, <3>1, FacesKept
  <2> QED  BY <2>3, <2>4
<1>6. Decided' /\ UniqueWinner'
  <2>1. ASSUME NEW w \in wins PROVE w[2] # s /\ w[2] \in Slots
    BY <2>1, Numbers DEF Race, Decided
  <2> QED  BY <1>1, <2>1 DEF Race, Decided, UniqueWinner
<1> QED  BY <1>1, <1>2, <1>3, <1>4, <1>5, <1>6 DEF Race

(* A message carries the time at which it is sent. *)
LEMMA SentNow ==
  ASSUME NEW kind, NEW n, NEW s, NEW score
  PROVE  \A m \in Sent(kind, n, s, score) : m.kind = kind /\ m.at = now /\ m.ts = now
<1> SUFFICES ASSUME NEW m \in Sent(kind, n, s, score)
             PROVE  m.kind = kind /\ m.at = now /\ m.ts = now
  OBVIOUS
<1>1. PICK x \in Nodes \ {n} :
        m = [kind |-> kind, from |-> n, to |-> x, slot |-> s, score |-> score,
             ts |-> now, at |-> now]
  BY DEF Sent
<1> QED  BY <1>1

(* PublishClaim: the claim is on its way to everybody else. *)
LEMMA PublishRace ==
  ASSUME Timely, TypeOK, Race, NEW n \in Nodes, NEW s \in Slots, Publish(n, s)
  PROVE  Race'
<1> USE ElectionAssumption
<1> DEFINE q == round[n][s]
           r == Round("tiebreak", q.score, q.at, q.pub, q.end, Nil)
<1>1. /\ r \in Rounds /\ r.phase = "tiebreak" /\ r.score = q.score /\ r.at = q.at
      /\ r.pub = q.pub
  BY DEF Round, Rounds, Phases, OpenPhases, TypeOK
<1>2. /\ q.phase = "publish" /\ SetRound(n, s, r)
      /\ net' = net \cup Sent("claim", n, s, q.score)
      /\ UNCHANGED <<now, asked, inbox, life, wins>>
  BY DEF Publish
<1> HIDE DEF r
<1>3. /\ round'[n][s] = r
      /\ \A m \in Nodes, t \in Slots : m # n \/ t # s => round'[m][t] = round[m][t]
      /\ now' = now /\ asked' = asked /\ inbox' = inbox /\ life' = life /\ wins' = wins
  BY <1>1, <1>2, Updated
<1>4. q.pub = now
  BY <1>2 DEF Race, RoundOnTime
<1>5. \A m \in Sent("claim", n, s, q.score) : m.at = now /\ m.ts = now
  BY SentNow
<1>6. NetOnTime'
  <2> SUFFICES ASSUME NEW m \in net' PROVE m.at = m.ts /\ now <= m.ts + Delta
    BY <1>3 DEF NetOnTime
  <2>1. CASE m \in net
    BY <2>1 DEF Race, NetOnTime
  <2>2. CASE m \in Sent("claim", n, s, q.score)
    BY <1>5, <2>2, Numbers
  <2> QED  BY <1>2, <2>1, <2>2
<1>7. InboxOnTime'
  <2>1. \A m \in Nodes, t \in Slots : Open(m, t)' => Open(m, t)
    BY <1>1, <1>2, <1>3 DEF Open, OpenPhases
  <2> QED  BY <1>3, <2>1, Numbers DEF Race, InboxOnTime
<1>8. ASSUME NEW m \in Nodes, NEW t \in Slots PROVE RoundOnTime(m, t)'
  <2>1. CASE m = n /\ t = s
    BY <1>1, <1>2, <1>3, <1>4, <2>1, Numbers DEF Race, RoundOnTime, Holding
  <2>2. CASE m # n \/ t # s
    BY <1>3, <2>2 DEF Race, RoundOnTime, Holding
  <2> QED  BY <2>1, <2>2
<1>9. Facing'
  <2> SUFFICES ASSUME NEW t \in Slots, NEW a \in Nodes, NEW b \in Nodes, a # b,
                      round'[b][t].phase = "tiebreak"
               PROVE  Faces(b, a, t)'
    BY DEF Facing
  <2>1. CASE b = n /\ t = s
    <3>1. Pending(b, a, t)'
      <4> DEFINE m == [kind |-> "claim", from |-> n, to |-> a, slot |-> s,
                       score |-> q.score, ts |-> now, at |-> now]
      <4>1. m \in net'
        BY <1>2, <2>1 DEF Sent
      <4>2. /\ m.kind = "claim" /\ m.from = n /\ m.to = a /\ m.slot = s
            /\ m.score = q.score /\ m.ts = now
        OBVIOUS
      <4> HIDE DEF m
      <4> QED  BY <1>1, <1>3, <1>4, <2>1, <4>1, <4>2 DEF Pending
    <3>2. Holding(a, t)' => round'[a][t].pub <= now
      <4>1. round'[a][t] = round[a][t]
        BY <1>3, <2>1
      <4>2. Holding(a, t) => round[a][t].pub <= now
        <5>1. RoundOnTime(a, t) /\ now \in Nat /\ round[a][t].pub \in Nat
          BY Numbers DEF Race
        <5> QED  BY <5>1 DEF RoundOnTime, Holding
      <4> QED  BY <4>1, <4>2 DEF Holding
    <3>3. round'[b][t].pub = now /\ round'[a][t].pub \in Nat /\ now \in Nat
      BY <1>1, <1>3, <1>4, <2>1, Numbers
    <3>4. Holding(a, t)' => round'[a][t].pub <= round'[b][t].pub + Delta
      BY <3>2, <3>3
    <3> QED  BY <3>1, <3>4 DEF Faces
  <2>2. CASE (b # n \/ t # s) /\ a = n /\ t = s
    <3>1. round'[b][t] = round[b][t] /\ Faces(b, a, t) /\ Holding(a, t)
      BY <1>2, <1>3, <2>2 DEF Race, Facing, Holding
    <3>2. Pending(b, a, t) => Pending(b, a, t)'
      BY <1>2, <1>3, <3>1 DEF Pending
    <3>3. Beats(b, a, t)' <=> Beats(b, a, t)
      BY <1>1, <1>3, <2>2, <3>1 DEF Beats
    <3> QED  BY <1>1, <1>3, <2>2, <3>1, <3>2, <3>3 DEF Faces
  <2>3. CASE (b # n \/ t # s) /\ (a # n \/ t # s)
    <3>1. round'[b][t] = round[b][t] /\ round'[a][t] = round[a][t] /\ Faces(b, a, t)
      BY <1>3, <2>3 DEF Race, Facing
    <3> QED  BY <1>2, <1>3, <3>1, FacesKept
  <2> QED  BY <2>1, <2>2, <2>3
<1>10. Decided' /\ UniqueWinner'
  <2>1. ASSUME NEW w \in wins PROVE w[2] # s /\ w[2] \in Slots
    BY <1>2, <2>1, Numbers DEF Race, Decided
  <2> QED  BY <1>3, <2>1 DEF Race, Decided, UniqueWinner
<1> QED  BY <1>3, <1>6, <1>7, <1>8, <1>9, <1>10 DEF Race

(* Time passes when nothing is due: no claim is left unread by an open round. *)
LEMMA TickRace ==
  ASSUME Timely, TypeOK, Race, Tick
  PROVE  Race'
<1> USE ElectionAssumption
<1>1. /\ now' = now + 1 /\ now \in Nat
      /\ round' = round /\ asked' = asked /\ net' = net /\ inbox' = inbox
      /\ life' = life /\ wins' = wins
      /\ \A m \in net : now < m.at + Delta
      /\ \A n \in Nodes, s \in Slots : Waiting(n, s)
  BY Numbers DEF Tick
<1>2. NetOnTime'
  BY <1>1, Numbers DEF Race, NetOnTime
<1>3. InboxOnTime'
  <2> SUFFICES ASSUME NEW m \in inbox, m.kind = "claim", Open(m.to, m.slot) PROVE FALSE
    BY <1>1 DEF InboxOnTime, Open
  <2>1. m \in Claims(m.to, m.slot) /\ m.to \in Nodes /\ m.slot \in Slots
    BY Numbers DEF Claims
  <2> QED  BY <1>1, <2>1 DEF Waiting
<1>4. ASSUME NEW n \in Nodes, NEW s \in Slots PROVE RoundOnTime(n, s)'
  <2> DEFINE r == round[n][s]
  <2>1. /\ r.phase # "publish"
        /\ r.phase = "wait" => now < r.at + Slack
    BY <1>1 DEF Waiting, Open, OpenPhases
  <2>2. RoundOnTime(n, s) /\ r.at \in Nat /\ r.pub \in Nat
    BY Numbers DEF Race
  <2> QED  BY <1>1, <2>1, <2>2 DEF RoundOnTime, Holding
<1>5. Facing'
  <2> SUFFICES ASSUME NEW s \in Slots, NEW a \in Nodes, NEW b \in Nodes, a # b,
                      round[b][s].phase = "tiebreak"
               PROVE  Faces(b, a, s)'
    BY <1>1 DEF Facing
  <2>1. Faces(b, a, s)
    BY DEF Race, Facing
  <2>2. /\ Beats(b, a, s)' <=> Beats(b, a, s)
        /\ Holding(a, s)' <=> Holding(a, s)
        /\ Pending(b, a, s)' <=> Pending(b, a, s)
    BY <1>1 DEF Beats, Holding, Pending
  <2> QED  BY <1>1, <2>1, <2>2 DEF Faces
<1>6. Decided' /\ UniqueWinner'
  BY <1>1 DEF Race, Decided, UniqueWinner
<1> QED  BY <1>1, <1>2, <1>3, <1>4, <1>5, <1>6 DEF Race

(* The end of a round, whatever it reports. *)
LEMMA FinishRace ==
  ASSUME Timely, TypeOK, Race, NEW n \in Nodes, NEW s \in Slots, Open(n, s),
         NEW outcome \in Outcomes, NEW who \in Nodes \cup {Nil}, Finish(n, s, outcome, who),
         net' = net \/ net' = net \cup Sent("failed", n, s, 0),
         UNCHANGED <<now, asked, life>>,
         \/ wins' = wins
         \/ /\ wins' = wins \cup {<<n, s>>} /\ round[n][s].phase = "tiebreak"
            /\ now >= round[n][s].pub + Tiebreak
  PROVE  Race'
<1>1. Over(outcome, who) \in Rounds /\ Over(outcome, who).phase = outcome
  BY Shapes DEF Phases
<1>2. /\ SetRound(n, s, Over(outcome, who))
      /\ inbox' \subseteq inbox /\ \A m \in inbox \ inbox' : m.to = n /\ m.slot = s
  BY DEF Finish
<1>3. \A m \in Sent("failed", n, s, 0) : m.kind = "failed" /\ m.at = m.ts /\ m.ts = now
  BY SentNow
<1>4. net \subseteq net' /\ \A m \in net' \ net : m.kind = "failed" /\ m.at = m.ts /\ m.ts = now
  BY <1>3
<1>5. asked'[n][s] # 0 /\ asked' = asked /\ now' = now /\ life' = life
  BY DEF Race, RoundOnTime, Open, OpenPhases
<1>6. \/ wins' = wins
      \/ /\ wins' = wins \cup {<<n, s>>} /\ now > LastRequest
         /\ round[n][s].phase = "tiebreak"
         /\ \A a \in Nodes : a # n => round[a][s].phase \notin {"wait", "publish", "tiebreak"}
  BY NoRival
<1>7. outcome # "verdict"
  BY DEF Outcomes
<1> HIDE DEF Over
<1> QED  BY <1>1, <1>2, <1>4, <1>5, <1>6, <1>7, RaceLeft

(* tryClaimCapsule, on the timer or on a claim that does not beat ours. *)
LEMMA TryClaimRace ==
  ASSUME Timely, TypeOK, Race, NEW n \in Nodes, NEW s \in Slots,
         round[n][s].phase = "wait", TryClaim(n, s), inbox' \subseteq inbox,
         \A m \in inbox \ inbox' : m \in Claims(n, s) /\ ~IsBetter(m, round[n][s], n),
         UNCHANGED <<now, asked, net, life, wins>>
  PROVE  Race'
<1> USE ElectionAssumption
<1> DEFINE q == round[n][s]
           v == Round("verdict", 0, 0, 0, q.end, Nil)
           p == Round("publish", q.score, q.at, now, q.end, Nil)
<1>1. /\ v \in Rounds /\ v.phase = "verdict"
      /\ p \in Rounds /\ p.phase = "publish" /\ p.score = q.score /\ p.at = q.at
      /\ p.pub = now
  BY DEF Round, Rounds, Phases, OpenPhases, TypeOK
<1>2. SetRound(n, s, v) \/ SetRound(n, s, p)
  BY DEF TryClaim
<1> HIDE DEF v, p
<1>3. CASE SetRound(n, s, v)
  <2>1. Open(n, s) /\ asked[n][s] # 0
    BY DEF Race, RoundOnTime, Open, OpenPhases
  <2>2. \A m \in inbox \ inbox' : m.to = n /\ m.slot = s
    BY DEF Claims
  <2> QED  BY <1>1, <1>3, <2>1, <2>2, RaceLeft
<1>4. CASE SetRound(n, s, p)
  BY <1>1, <1>4, ClaimRace
<1> QED  BY <1>2, <1>3, <1>4

(* HandleRequest.  A node asks once, so the round is its first. *)
LEMMA RequestRace ==
  ASSUME Timely, TypeOK, Race, NEW n \in Nodes, NEW s \in Slots, Request(n, s)
  PROVE  Race'
<1> USE ElectionAssumption
<1>1. PICK score \in Offers[n], jitter \in 0 .. Jitter :
        LET bids == score # NoBid /\ ~RunsReplica(n) /\ n \notin claimed IN
        SetRound(n, s,
          IF bids THEN Round("wait", score, PublishAt(score, s, jitter),
                             0, now + Timeout, Nil)
                  ELSE Round("verdict", 0, 0, 0, now + Timeout, Nil))
  BY DEF Request
<1>2. /\ asked[n][s] = 0 /\ now <= LastRequest
      /\ asked' = [asked EXCEPT ![n] = [asked[n] EXCEPT ![s] = @ + 1]]
      /\ UNCHANGED <<now, net, inbox, life, wins>>
  BY Numbers DEF Request, Timely
<1>3. /\ asked'[n][s] = 1
      /\ \A m \in Nodes, t \in Slots : m # n \/ t # s => asked'[m][t] = asked[m][t]
  BY <1>2 DEF TypeOK
<1>4. round[n][s].phase = "none"
  BY <1>2 DEF Race, RoundOnTime
<1> DEFINE v == Round("verdict", 0, 0, 0, now + Timeout, Nil)
           w == Round("wait", score, PublishAt(score, s, jitter), 0, now + Timeout, Nil)
<1>5. CASE SetRound(n, s, v)
  <2>1. v \in Rounds /\ v.phase = "verdict"
    BY Numbers DEF Round, Rounds, Phases, OpenPhases
  <2> HIDE DEF v
  <2> QED  BY <1>2, <1>3, <1>5, <2>1, RaceLeft
<1>6. CASE score # NoBid /\ SetRound(n, s, w)
  <2>1. score \in 0 .. MaxScore /\ s \in Nat /\ now \in Nat
    BY <1>6, Numbers DEF Slots
  <2>2. PublishAt(score, s, jitter) \in Nat /\ now <= PublishAt(score, s, jitter)
    <3>1. /\ MaxScore - score \in Nat
          /\ \A x, y \in Nat : x * y \in Nat
      BY <2>1
    <3>2. BaseWait(score) \in Nat /\ SlotDelay(s) \in Nat
      BY <2>1, <3>1 DEF BaseWait, SlotDelay
    <3> QED  BY <2>1, <3>2 DEF PublishAt
  <2>3. /\ w \in Rounds /\ w.phase = "wait" /\ w.score = score
        /\ w.at = PublishAt(score, s, jitter)
    BY <2>1, <2>2 DEF Round, Rounds, Phases, OpenPhases
  <2> HIDE DEF w
  <2> QED  BY <1>2, <1>3, <1>4, <1>6, <2>2, <2>3, WaitRace
<1> QED  BY <1>1, <1>5, <1>6

(* Each step of a round. *)
LEMMA RoundRace ==
  ASSUME Timely, TypeOK, Race, NEW n \in Nodes, NEW s \in Slots, RoundStep(n, s)
  PROVE  Race'
<1>0. life[n] = "up"
  BY DEF Race
<1>1. ASSUME Open(n, s), ReportFailed(n, s) PROVE Race'
  BY <1>1, FinishRace DEF ReportFailed, Outcomes
<1>2. ASSUME Open(n, s), NEW m \in Claims(n, s), ReportLost(n, s, m.from) PROVE Race'
  <2>1. m.from \in Nodes
    BY Numbers DEF Claims
  <2> QED  BY <1>2, <2>1, FinishRace DEF ReportLost, Outcomes
<1>3. CASE WaitTimer(n, s)
  BY <1>3, TryClaimRace DEF WaitTimer, Rest
<1>4. CASE WaitRival(n, s)
  <2>1. PICK m \in Claims(n, s) :
          \/ ReportLost(n, s, m.from)
          \/ /\ ~IsBetter(m, round[n][s], n) /\ TryClaim(n, s)
             /\ inbox' = inbox \ {m} /\ UNCHANGED Rest
    BY <1>4 DEF WaitRival
  <2>2. round[n][s].phase = "wait" /\ Open(n, s)
    BY <1>4 DEF WaitRival, Open, OpenPhases
  <2>3. CASE ReportLost(n, s, m.from)
    BY <1>2, <2>2, <2>3
  <2>4. CASE /\ ~IsBetter(m, round[n][s], n) /\ TryClaim(n, s)
             /\ inbox' = inbox \ {m} /\ UNCHANGED Rest
    <3>1. /\ inbox' \subseteq inbox
          /\ \A x \in inbox \ inbox' : x \in Claims(n, s) /\ ~IsBetter(x, round[n][s], n)
      BY <2>4
    <3> QED  BY <2>2, <2>4, <3>1, TryClaimRace DEF Rest
  <2> QED  BY <2>1, <2>3, <2>4
<1>5. CASE \/ WaitFailure(n, s) \/ WaitDeadline(n, s) \/ PublishError(n, s)
           \/ VerdictFailure(n, s) \/ VerdictDeadline(n, s)
  BY <1>1, <1>5 DEF WaitFailure, WaitDeadline, PublishError, VerdictFailure,
                    VerdictDeadline, Open, OpenPhases
<1>6. CASE Publish(n, s)
  BY <1>6, PublishRace
<1>7. CASE TieBetter(n, s) \/ VerdictClaim(n, s)
  BY <1>2, <1>7 DEF TieBetter, VerdictClaim, Open, OpenPhases
<1>8. CASE TieWorse(n, s)
  BY <1>8, TieWorseRace
<1>9. CASE TieWindowEnds(n, s)
  <2>1. /\ round[n][s].phase = "tiebreak" /\ now >= round[n][s].pub + Tiebreak
        /\ Open(n, s) /\ ReportWon(n, s)
    BY <1>9 DEF TieWindowEnds, Open, OpenPhases
  <2> QED  BY <2>1, FinishRace DEF ReportWon, Outcomes
<1>10. CASE Cancelled(n, s) \/ ChannelClosed(n, s) \/ NilRival(n, s)
  BY <1>0, <1>10 DEF Cancelled, ChannelClosed, NilRival
<1> QED  BY <1>3, <1>4, <1>5, <1>6, <1>7, <1>8, <1>9, <1>10 DEF RoundStep

(* Nodes stay up; the rest of what a node does leaves its rounds alone. *)
LEMMA NodeRace ==
  ASSUME Timely, TypeOK, Race, NEW n \in Nodes, NodeStep(n)
  PROVE  Race'
<1>1. life[n] = "up"
  BY DEF Race
<1>2. UNCHANGED <<now, round, asked, net, inbox, life, wins>>
  BY <1>1 DEF NodeStep, Crash, Stop, LeaveCluster, Rejoin, ForgetCapsule,
              HandleElectionWon, HandleElectionLost, Timely
<1>3. NetOnTime' /\ InboxOnTime'
  BY <1>2 DEF Race, NetOnTime, InboxOnTime, Open
<1>4. \A s \in Slots, a, b \in Nodes : Pending(b, a, s) => Pending(b, a, s)'
  BY <1>2 DEF Pending
<1> QED  BY <1>2, <1>3, <1>4, RaceKept

LEMMA NextRace == ASSUME Timely PROVE Inv /\ Race /\ [Next]_vars => Race'
<1> SUFFICES ASSUME TypeOK, Race, [Next]_vars PROVE Race'
  BY DEF Inv
<1>1. ASSUME NEW n \in Nodes, NEW s \in Slots, Request(n, s) PROVE Race'
  BY <1>1, RequestRace
<1>2. ASSUME NEW n \in Nodes, NEW s \in Slots, RoundStep(n, s) PROVE Race'
  BY <1>2, RoundRace
<1>3. ASSUME NEW n \in Nodes, NodeStep(n) PROVE Race'
  BY <1>3, NodeRace
<1>4. ASSUME NEW m \in net, Deliver(m) \/ Lose(m) PROVE Race'
  BY <1>4, DeliverRace DEF Lose, Timely
<1>5. ASSUME NEW m \in inbox, Sweep(m) PROVE Race'
  BY <1>5, SweepRace
<1>6. CASE Tick
  BY <1>6, TickRace
<1>7. CASE UNCHANGED vars
  <2>1. UNCHANGED <<now, round, asked, net, inbox, life, wins>>
    BY <1>7 DEF vars
  <2>2. NetOnTime' /\ InboxOnTime'
    BY <2>1 DEF Race, NetOnTime, InboxOnTime, Open
  <2>3. \A s \in Slots, a, b \in Nodes : Pending(b, a, s) => Pending(b, a, s)'
    BY <2>1 DEF Pending
  <2> QED  BY <2>1, <2>2, <2>3, RaceKept
<1> QED  BY <1>1, <1>2, <1>3, <1>4, <1>5, <1>6, <1>7 DEF Next

(* "exactly one node in the cluster wins the election"
   (election_integration_test.go:93): no slot has two winners, for any number
   of nodes and slots, when two message delays fit into the tiebreak window,
   every node asks before the window of the first claim is over, and scores
   differ or timers fire on time. *)
THEOREM UniqueWinnerAlways == ASSUME Timely PROVE Spec => []UniqueWinner
<1>1. Race => UniqueWinner
  BY DEF Race
<1> QED  BY <1>1, InitRace, NextRace, ElectionInvariant, PTL DEF Spec

-----------------------------------------------------------------------------
(* No node that holds a replica had a round fail or lost the capsule: such a
   node has released a claim that its replica still needs. *)
CleanWins == \A w \in wins : w[1] \notin spoiled

(* The host of a slot is the node that won it. *)
LEMMA OwnerIsWinner ==
  ASSUME TypeOK, UniqueWinner, NEW s \in Slots
  PROVE  /\ \A n \in Nodes : <<n, s>> \in wins => owner[s] = n
         /\ (\A n \in Nodes : <<n, s>> \notin wins) => owner[s] = Nil
         /\ owner[s] # Nil => <<owner[s], s>> \in wins
<1>1. CASE \A n \in Nodes : <<n, s>> \notin wins
  <2>1. owner[s] = Nil  BY <1>1 DEF owner
  <2> QED  BY <1>1, <2>1
<1>2. ASSUME NEW n \in Nodes, <<n, s>> \in wins PROVE owner[s] = n
  <2> DEFINE e == CHOOSE m \in Nodes : <<m, s>> \in wins
  <2>1. owner[s] = e  BY <1>2 DEF owner
  <2>2. e \in Nodes /\ <<e, s>> \in wins  BY <1>2
  <2> HIDE DEF e
  <2>3. <<e, s>>[1] = <<n, s>>[1]
    <3>1. \A a, b \in wins : a[2] = b[2] => a[1] = b[1]
      BY DEF UniqueWinner
    <3>2. <<e, s>>[2] = <<n, s>>[2]  OBVIOUS
    <3> QED  BY <1>2, <2>2, <3>1, <3>2
  <2> QED  BY <2>1, <2>3
<1> QED  BY <1>1, <1>2, ElectionAssumption

(* The same after a step. *)
LEMMA OwnerPrimed ==
  ASSUME UniqueWinner', NEW s \in Slots, NEW n \in Nodes, <<n, s>> \in wins'
  PROVE  owner'[s] = n
<1> DEFINE e == CHOOSE m \in Nodes : <<m, s>> \in wins'
<1>1. owner'[s] = e  BY DEF owner
<1>2. e \in Nodes /\ <<e, s>> \in wins'  OBVIOUS
<1> HIDE DEF e
<1>3. <<e, s>>[1] = <<n, s>>[1]
  <2>1. \A a, b \in wins' : a[2] = b[2] => a[1] = b[1]
    BY DEF UniqueWinner
  <2>2. <<e, s>>[2] = <<n, s>>[2]  OBVIOUS
  <2> QED  BY <1>2, <2>1, <2>2
<1> QED  BY <1>1, <1>3

(* A step reports a win of a round in its tiebreak window, or none. *)
LEMMA WinsGrow ==
  ASSUME [Next]_vars
  PROVE  \/ wins' = wins
         \/ \E n \in Nodes, s \in Slots :
              Holding(n, s) /\ wins' = wins \cup {<<n, s>>} /\ spoiled' = spoiled
<1>1. ASSUME NEW n \in Nodes, NEW s \in Slots, TieWindowEnds(n, s)
      PROVE  Holding(n, s) /\ wins' = wins \cup {<<n, s>>} /\ spoiled' = spoiled
  BY <1>1 DEF TieWindowEnds, ReportWon, Holding
<1>2. ASSUME NEW n \in Nodes, NEW s \in Slots, RoundStep(n, s), ~TieWindowEnds(n, s)
      PROVE  wins' = wins
  BY <1>2 DEF RoundStep, WaitTimer, WaitRival, WaitFailure, WaitDeadline, Publish,
              PublishError, TieBetter, TieWorse, VerdictClaim, VerdictFailure,
              VerdictDeadline, Cancelled, ChannelClosed, NilRival, Die, ReportFailed,
              ReportLost, Rest
<1>3. ASSUME NEW n \in Nodes, NEW s \in Slots, Request(n, s) PROVE wins' = wins
  BY <1>3 DEF Request
<1>4. ASSUME NEW n \in Nodes, NodeStep(n) PROVE wins' = wins
  BY <1>4 DEF NodeStep, Crash, Die, Stop, LeaveCluster, Rejoin, ForgetCapsule,
              HandleElectionWon, HandleElectionLost
<1>5. ASSUME NEW m, Deliver(m) \/ Lose(m) \/ Sweep(m) PROVE wins' = wins
  BY <1>5 DEF Deliver, Lose, Sweep
<1>6. CASE Tick \/ UNCHANGED vars
  BY <1>6 DEF Tick, vars
<1> QED  BY <1>1, <1>2, <1>3, <1>4, <1>5, <1>6 DEF Next

(* A win is a Win of SlotAssignment, and every other step a stutter. *)
LEMMA StepPlaces ==
  ASSUME Inv, Inv', UniqueWinner, UniqueWinner', CleanWins', [Next]_vars
  PROVE  [Placement!Next]_owner
<1>1. CASE wins' = wins
  BY <1>1 DEF owner
<1>2. ASSUME NEW n \in Nodes, NEW s \in Slots, Holding(n, s), <<n, s>> \notin wins,
             wins' = wins \cup {<<n, s>>}, spoiled' = spoiled
      PROVE  Placement!Win(s, n)
  <2>0. TypeOK /\ TypeOK'  BY DEF Inv
  <2>1. \A t \in Slots : <<n, t>> \notin wins
    <3>1. n \notin spoiled
      BY <1>2 DEF CleanWins
    <3> QED  BY <1>2, <3>1 DEF Inv, Core, Exclusive, ExclusiveAt
  <2>2. \A m \in Nodes : <<m, s>> \notin wins
    <3> SUFFICES ASSUME NEW m \in Nodes, <<m, s>> \in wins PROVE FALSE
      OBVIOUS
    <3>1. m = n
      BY <1>2 DEF UniqueWinner
    <3> QED  BY <1>2, <3>1
  <2>3. owner[s] = Nil
    BY <2>0, <2>2, OwnerIsWinner
  <2>4. \A t \in Slots : owner[t] # n
    <3> SUFFICES ASSUME NEW t \in Slots, owner[t] = n PROVE FALSE
      OBVIOUS
    <3>1. owner[t] # Nil
      BY ElectionAssumption
    <3> QED  BY <2>0, <2>1, <3>1, OwnerIsWinner
  <2>5. owner' = [owner EXCEPT ![s] = n]
    <3>0. \A t \in Slots, m \in Nodes : <<m, t>> \in wins' <=> <<m, t>> \in wins \/ (m = n /\ t = s)
      BY <1>2
    <3>1. DOMAIN owner' = Slots /\ DOMAIN owner = Slots
          /\ owner' = [t \in Slots |-> owner'[t]]
      BY DEF owner
    <3>2. ASSUME NEW t \in Slots, t # s PROVE owner'[t] = owner[t]
      <4>1. \A m \in Nodes : <<m, t>> \in wins' <=> <<m, t>> \in wins
        BY <3>0, <3>2
      <4>2. CASE \E m \in Nodes : <<m, t>> \in wins
        <5>1. PICK m \in Nodes : <<m, t>> \in wins  BY <4>2
        <5>2. owner[t] = m  BY <2>0, <5>1, OwnerIsWinner
        <5>3. owner'[t] = m
          <6>1. <<m, t>> \in wins'  BY <4>1, <5>1
          <6> QED  BY <2>0, <6>1, OwnerPrimed
        <5> QED  BY <5>2, <5>3
      <4>3. CASE \A m \in Nodes : <<m, t>> \notin wins
        <5>1. owner[t] = Nil  BY <4>3 DEF owner
        <5>2. owner'[t] = Nil  BY <4>1, <4>3 DEF owner
        <5> QED  BY <5>1, <5>2
      <4> QED  BY <4>2, <4>3
    <3>3. owner'[s] = n
      BY <1>2, <2>0, OwnerPrimed
    <3> QED  BY <3>1, <3>2, <3>3
  <2> QED  BY <2>3, <2>4, <2>5 DEF Placement!Win
<1>3. CASE \E n \in Nodes, s \in Slots :
             Holding(n, s) /\ wins' = wins \cup {<<n, s>>} /\ spoiled' = spoiled
  <2>1. PICK n \in Nodes, s \in Slots :
          Holding(n, s) /\ wins' = wins \cup {<<n, s>>} /\ spoiled' = spoiled
    BY <1>3
  <2>2. CASE <<n, s>> \in wins
    BY <1>1, <2>1, <2>2
  <2>3. CASE <<n, s>> \notin wins
    <3>1. Placement!Win(s, n)
      BY <1>2, <2>1, <2>3
    <3> QED  BY <3>1 DEF Placement!Next
  <2> QED  BY <2>2, <2>3
<1> QED  BY <1>1, <1>3, WinsGrow

(* The rounds of all nodes together implement SlotAssignment: as long as no
   host of a replica had a round fail, every replica is placed once, on a
   node that has no other, and stays there. *)
THEOREM PlacementRefined ==
  ASSUME Timely
  PROVE  Spec /\ []CleanWins => ImplementsPlacement
<1>1. Init => Placement!Init
  BY DEF Init, Placement!Init, owner
<1>2. Inv /\ Inv' /\ UniqueWinner /\ UniqueWinner' /\ CleanWins' /\ [Next]_vars =>
        [Placement!Next]_owner
  BY StepPlaces
<1> QED  BY <1>1, <1>2, ElectionInvariant, UniqueWinnerAlways, PTL
            DEF Spec, ImplementsPlacement, Placement!Spec
-----------------------------------------------------------------------------
(* A slot that nodes bid for is won.  On top of Timely: one replica, no two
   nodes with the same score, a node that is sure to bid, and a deadline that
   leaves every node the time to hear the first claim. *)
Keen == {x \in Nodes : NoBid \notin Offers[x]}

LastPublish == LastRequest + MaxScore * ScoreStep + Jitter + Slack

Contested ==
  /\ Timely /\ Faults = {} /\ NSlots = 1 /\ Keen # {}
  /\ \A a, b \in Nodes : a # b => Offers[a] \cap Offers[b] \subseteq {NoBid}
  /\ LastPublish + Delta < Timeout

Competing == {"wait", "publish", "tiebreak"}

(* Some node has won the slot, or bids at least z for it. *)
Upheld(s, z) ==
  \E d \in Nodes : \/ round[d][s].phase = "won"
                   \/ round[d][s].phase \in Competing /\ round[d][s].score >= z

(* The claims under way: what they say was bid in time, and the one who bid it
   or a better one is still there. *)
ClaimsUpheld ==
  \A m \in net \cup inbox :
    /\ m.kind = "claim" /\ m.from # m.to
    /\ m.score \in Offers[m.from] \ {NoBid} /\ m.ts <= LastPublish
    /\ Upheld(m.slot, m.score)

RoundInTime(n, s) ==
  LET r == round[n][s] IN
  /\ r.phase \in Competing => r.at + Slack <= LastPublish /\ r.at + Slack < r.end
  /\ r.phase = "verdict" => r.end >= Timeout
  /\ r.phase = "won" => <<n, s>> \in wins
  /\ n \in Keen /\ asked[n][s] # 0 => Upheld(s, 0)

(* A node that only listens has a claim to read once one is out. *)
Listens(v, s) ==
  \/ round[v][s].phase = "verdict"
  \/ round[v][s].phase = "none" /\ now <= LastRequest

ClaimOut(s) == \E c \in Nodes : round[c][s].phase \in {"tiebreak", "won"}

ToRead(v, s) ==
  \E m \in net \cup inbox : m.kind = "claim" /\ m.to = v /\ m.slot = s

Hears(v, s) == Listens(v, s) /\ ClaimOut(s) => ToRead(v, s)

(* A node sees a replica of its own only where it has won one. *)
HostsWon(n) ==
  /\ \A s \in Slots : replicas[n][s] = n => <<n, s>> \in wins
  /\ \A i \in 1 .. Len(wonCh[n]) : <<n, wonCh[n][i][1]>> \in wins
  /\ \A i \in 1 .. Len(lostCh[n]) : lostCh[n][i][2] # n

Good ==
  /\ ClaimsUpheld
  /\ \A n \in Nodes, s \in Slots : RoundInTime(n, s) /\ Hears(n, s)
  /\ \A n \in Nodes : HostsWon(n)

(* A node that never asked: the slot is never settled. *)
Absent == \A s \in Slots : \E x \in Keen : asked[x][s] = 0 /\ now > LastRequest

Decisive == Absent \/ Good

LEMMA InitGood == ASSUME Contested PROVE Init => Good
<1> SUFFICES ASSUME Init PROVE Good
  OBVIOUS
<1>1. \A n \in Nodes, s \in Slots : round[n][s].phase = "none" /\ asked[n][s] = 0
  BY Shapes DEF Init, Phases
<1>2. \A n \in Nodes : HostsWon(n)
  <2> SUFFICES ASSUME NEW n \in Nodes PROVE HostsWon(n)
    OBVIOUS
  <2>1. wonCh[n] = <<>> /\ lostCh[n] = <<>> /\ \A s \in Slots : replicas[n][s] = Nil
    BY DEF Init
  <2> QED  BY <2>1, ElectionAssumption DEF HostsWon
<1>3. \A n \in Nodes, s \in Slots : RoundInTime(n, s) /\ Hears(n, s)
  BY <1>1 DEF RoundInTime, Hears, ClaimOut, Competing
<1>4. ClaimsUpheld
  BY DEF Init, ClaimsUpheld
<1> QED  BY <1>2, <1>3, <1>4 DEF Good

(* There is one slot. *)
LEMMA OneSlot == ASSUME Contested, NEW s \in Slots, NEW t \in Slots PROVE s = t
  BY DEF Contested, Slots

(* A bid stays upheld when nobody who competes gives up. *)
LEMMA UpheldKept ==
  ASSUME NEW s \in Slots, NEW z \in Int, Upheld(s, z),
         \A d \in Nodes :
           /\ round[d][s].phase = "won" => round'[d][s].phase = "won"
           /\ round[d][s].phase \in Competing =>
                \/ round'[d][s].phase = "won"
                \/ round'[d][s].phase \in Competing /\ round'[d][s].score = round[d][s].score
  PROVE  Upheld(s, z)'
  BY DEF Upheld

(* A node that competes gives up only for a higher bid, which is upheld by
   somebody else. *)
LEMMA UpheldLost ==
  ASSUME TypeOK, NEW n \in Nodes, NEW s \in Slots, NEW z \in Int, NEW y \in Int,
         Upheld(s, z), Upheld(s, y), round[n][s].phase \in Competing, y > round[n][s].score,
         \A d \in Nodes : d # n => round'[d][s] = round[d][s]
  PROVE  Upheld(s, z)'
<1>1. PICK d \in Nodes : \/ round[d][s].phase = "won"
                         \/ round[d][s].phase \in Competing /\ round[d][s].score >= y
  BY DEF Upheld
<1>2. d # n
  BY <1>1, Numbers DEF Competing
<1>3. round'[d][s] = round[d][s]
  BY <1>2
<1>4. PICK e \in Nodes : \/ round[e][s].phase = "won"
                         \/ round[e][s].phase \in Competing /\ round[e][s].score >= z
  BY DEF Upheld
<1>5. CASE e # n
  <2>1. round'[e][s] = round[e][s]  BY <1>5
  <2> QED  BY <1>4, <2>1 DEF Upheld
<1>6. CASE e = n
  <2>1. round[n][s].score >= z
    BY <1>4, <1>6 DEF Competing
  <2>2. \/ round[d][s].phase = "won"
        \/ round[d][s].phase \in Competing /\ round[d][s].score >= z
    BY <1>1, <2>1, Numbers
  <2> QED  BY <1>3, <2>2 DEF Upheld
<1> QED  BY <1>5, <1>6

-----------------------------------------------------------------------------
(* A step that leaves the rounds alone. *)
LEMMA GoodKept ==
  ASSUME Contested, TypeOK, Good, UNCHANGED <<round, asked, wins>>,
         now' \in Nat, now <= now',
         \A m \in net' \cup inbox' : \E k \in net \cup inbox :
           /\ m.kind = k.kind /\ m.from = k.from /\ m.to = k.to /\ m.slot = k.slot
           /\ m.score = k.score /\ m.ts = k.ts,
         \A v \in Nodes, s \in Slots : Listens(v, s)' /\ ToRead(v, s) => ToRead(v, s)',
         \A n \in Nodes : HostsWon(n)'
  PROVE  Good'
<1> USE ElectionAssumption
<1>1. round' = round /\ asked' = asked /\ wins' = wins
  OBVIOUS
<1>2. \A s \in Slots, z \in Int : Upheld(s, z)' <=> Upheld(s, z)
  BY <1>1 DEF Upheld
<1>3. ClaimsUpheld'
  <2> SUFFICES ASSUME NEW m \in net' \cup inbox'
               PROVE  /\ m.kind = "claim" /\ m.from # m.to
                      /\ m.score \in Offers[m.from] \ {NoBid} /\ m.ts <= LastPublish
                      /\ Upheld(m.slot, m.score)'
    BY DEF ClaimsUpheld
  <2>1. PICK k \in net \cup inbox :
           /\ m.kind = k.kind /\ m.from = k.from /\ m.to = k.to /\ m.slot = k.slot
           /\ m.score = k.score /\ m.ts = k.ts
    OBVIOUS
  <2>2. /\ k.kind = "claim" /\ k.from # k.to
        /\ k.score \in Offers[k.from] \ {NoBid} /\ k.ts <= LastPublish
        /\ Upheld(k.slot, k.score)
    BY DEF Good, ClaimsUpheld
  <2>3. k.slot \in Slots /\ k.score \in Int
    BY Numbers
  <2>4. Upheld(m.slot, m.score)'
    BY <1>2, <2>1, <2>2, <2>3
  <2> QED  BY <2>1, <2>2, <2>4
<1>4. ASSUME NEW n \in Nodes, NEW s \in Slots PROVE RoundInTime(n, s)'
  BY <1>1, <1>2 DEF Good, RoundInTime
<1>5. ASSUME NEW v \in Nodes, NEW s \in Slots PROVE Hears(v, s)'
  <2>1. Listens(v, s)' => Listens(v, s)
    BY <1>1, Numbers DEF Listens
  <2>2. ClaimOut(s)' <=> ClaimOut(s)
    BY <1>1 DEF ClaimOut
  <2>3. Hears(v, s)
    BY DEF Good
  <2> QED  BY <2>1, <2>2, <2>3 DEF Hears
<1> QED  BY <1>3, <1>4, <1>5 DEF Good

(* A round changes.  What becomes of the others follows from the bids that
   stay upheld and the claims that stay to be read. *)
LEMMA GoodMoves ==
  ASSUME Contested, TypeOK, Good, NEW n \in Nodes, NEW s \in Slots, NEW r \in Rounds,
         SetRound(n, s, r), now' = now,
         \A t \in Slots, z \in Int : Upheld(t, z) => Upheld(t, z)',
         \A m \in net' \cup inbox' :
           \/ m \in net \cup inbox
           \/ /\ m.kind = "claim" /\ m.from # m.to /\ m.slot \in Slots
              /\ m.score \in Offers[m.from] \ {NoBid} /\ m.ts <= LastPublish
              /\ Upheld(m.slot, m.score)',
         RoundInTime(n, s)', Hears(n, s)',
         ClaimOut(s)' => ClaimOut(s) \/ \A v \in Nodes : v # n => ToRead(v, s)',
         \A m \in net \cup inbox : m.to # n => m \in net' \cup inbox',
         \A m \in Nodes : m # n => asked'[m] = asked[m],
         wins \subseteq wins',
         \A m \in Nodes : HostsWon(m)'
  PROVE  Good'
<1>1. /\ round'[n][s] = r
      /\ \A m \in Nodes, t \in Slots : m # n \/ t # s => round'[m][t] = round[m][t]
  BY Updated
<1>2. ClaimsUpheld'
  <2> SUFFICES ASSUME NEW m \in net \cup inbox
               PROVE  /\ m.kind = "claim" /\ m.from # m.to
                      /\ m.score \in Offers[m.from] \ {NoBid} /\ m.ts <= LastPublish
                      /\ Upheld(m.slot, m.score)'
    BY DEF ClaimsUpheld
  <2>1. m.slot \in Slots /\ m.score \in Int
    BY Numbers
  <2> QED  BY <2>1 DEF Good, ClaimsUpheld
<1>3. ASSUME NEW m \in Nodes, NEW t \in Slots PROVE RoundInTime(m, t)'
  <2>1. t = s
    BY OneSlot
  <2>2. CASE m # n
    <3>1. round'[m][t] = round[m][t] /\ asked'[m][t] = asked[m][t] /\ RoundInTime(m, t)
      BY <1>1, <2>2 DEF Good
    <3> QED  BY <3>1 DEF RoundInTime
  <2> QED  BY <2>1, <2>2
<1>4. ASSUME NEW v \in Nodes, NEW t \in Slots PROVE Hears(v, t)'
  <2>1. t = s
    BY OneSlot
  <2>2. CASE v # n
    <3>1. Listens(v, s)' <=> Listens(v, s)
      BY <1>1, <2>2 DEF Listens
    <3>2. ToRead(v, s) => ToRead(v, s)'
      BY <2>2 DEF ToRead
    <3>3. Hears(v, s)
      BY DEF Good
    <3> QED  BY <2>1, <2>2, <3>1, <3>2, <3>3 DEF Hears
  <2> QED  BY <2>1, <2>2
<1> QED  BY <1>2, <1>3, <1>4 DEF Good

(* What an event channel holds after an event is queued. *)
LEMMA Appended ==
  ASSUME NEW S, NEW c \in Seq(S), NEW e \in S, NEW d, d = Append(c, e)
  PROVE  \A i \in 1 .. Len(d) : d[i] = e \/ (i \in 1 .. Len(c) /\ d[i] = c[i])
  OBVIOUS

LEMMA HostsKept ==
  ASSUME NEW n \in Nodes, HostsWon(n), UNCHANGED <<replicas, wonCh, lostCh>>,
         wins \subseteq wins'
  PROVE  HostsWon(n)'
  BY DEF HostsWon

(* The longest wait of Decide. *)
LEMMA WaitBound ==
  ASSUME NEW score \in 0 .. MaxScore
  PROVE  /\ BaseWait(score) \in Nat /\ MaxScore * ScoreStep \in Nat
         /\ BaseWait(score) <= MaxScore * ScoreStep
<1> USE ElectionAssumption
<1>1. MaxScore - score \in Nat /\ MaxScore - score <= MaxScore
  OBVIOUS
<1>2. \A x, y, z \in Nat : x <= y => x * z \in Nat /\ y * z \in Nat /\ x * z <= y * z
  OBVIOUS
<1> QED  BY <1>1, <1>2 DEF BaseWait

LEMMA LastPublishTyped == LastPublish \in Nat /\ LastRequest <= LastPublish
<1>1. \A x, y \in Nat : x * y \in Nat
  OBVIOUS
<1>2. MaxScore * ScoreStep \in Nat
  BY <1>1, ElectionAssumption
<1> QED  BY <1>2, ElectionAssumption DEF LastPublish

(* report(Lost): the claim that was read bids more, or the node did not bid. *)
LEMMA LostGood ==
  ASSUME Contested, TypeOK, Race, Good, NEW n \in Nodes, NEW s \in Slots,
         NEW m \in Claims(n, s), ReportLost(n, s, m.from),
         \/ round[n][s].phase \in {"wait", "tiebreak"} /\ IsBetter(m, round[n][s], n)
         \/ round[n][s].phase = "verdict"
  PROVE  Good'
<1> USE ElectionAssumption
<1> DEFINE r == Over("lost", m.from)
<1>1. /\ m \in net \cup inbox /\ m.kind = "claim" /\ m.slot = s /\ m.to = n
      /\ m.from \in Nodes /\ m.from # n /\ m.score \in Int
      /\ m.score \in Offers[m.from] \ {NoBid} /\ Upheld(s, m.score)
  BY Numbers DEF Claims, Good, ClaimsUpheld
<1>2. r \in Rounds /\ r.phase = "lost"
  BY <1>1, Shapes DEF Phases, Outcomes
<1> HIDE DEF r
<1>3. /\ SetRound(n, s, r) /\ inbox' = {k \in inbox : k.to # n \/ k.slot # s}
      /\ net' = net /\ now' = now /\ asked' = asked /\ wins' = wins
      /\ replicas' = replicas /\ wonCh' = wonCh
      /\ lostCh' = [lostCh EXCEPT ![n] = Append(@, <<s, m.from>>)]
  BY DEF ReportLost, Finish, r
<1>4. /\ round'[n][s] = r
      /\ \A k \in Nodes, t \in Slots : k # n \/ t # s => round'[k][t] = round[k][t]
  BY <1>2, <1>3, Updated
<1>5. ASSUME NEW t \in Slots, NEW z \in Int, Upheld(t, z) PROVE Upheld(t, z)'
  <2>1. t = s
    BY OneSlot
  <2>2. CASE round[n][s].phase = "verdict"
    BY <1>4, <1>5, <2>1, <2>2, UpheldKept DEF Competing
  <2>3. CASE round[n][s].phase \in {"wait", "tiebreak"} /\ IsBetter(m, round[n][s], n)
    <3>1. round[n][s].score \in Offers[n] /\ round[n][s].score \in Int
      BY <2>3, Numbers DEF Race, RoundOnTime, Holding
    <3>2. m.score # round[n][s].score
      BY <1>1, <3>1 DEF Contested
    <3>3. m.score > round[n][s].score
      BY <2>3, <3>2 DEF IsBetter
    <3>4. round[n][s].phase \in Competing
      BY <2>3 DEF Competing
    <3> QED  BY <1>1, <1>4, <1>5, <2>1, <3>3, <3>4, UpheldLost
  <2> QED  BY <2>2, <2>3
<1>6. RoundInTime(n, s)'
  <2>1. RoundInTime(n, s)
    BY DEF Good
  <2> QED  BY <1>2, <1>3, <1>4, <1>5, <2>1 DEF RoundInTime, Competing
<1>7. Hears(n, s)'
  BY <1>2, <1>4 DEF Hears, Listens
<1>8. ClaimOut(s)' => ClaimOut(s)
  BY <1>2, <1>4 DEF ClaimOut
<1>9. ASSUME NEW k \in Nodes PROVE HostsWon(k)'
  <2>1. HostsWon(k)
    BY DEF Good
  <2>2. CASE k # n
    <3>1. lostCh'[k] = lostCh[k]
      BY <1>3, <2>2 DEF TypeOK
    <3> QED  BY <1>3, <2>1, <3>1 DEF HostsWon
  <2>3. CASE k = n
    <3> DEFINE c == lostCh[n]
               e == <<s, m.from>>
               d == lostCh'[n]
    <3>1. c \in Seq(Slots \X Nodes) /\ d = Append(c, e)
      BY <1>3 DEF TypeOK
    <3>2. e \in Slots \X Nodes /\ e[2] # n
      BY <1>1
    <3>3. \A i \in 1 .. Len(c) : c[i][2] # n
      BY <2>1, <2>3 DEF HostsWon
    <3> HIDE DEF c, d, e
    <3>4. \A i \in 1 .. Len(d) : d[i] = e \/ (i \in 1 .. Len(c) /\ d[i] = c[i])
      BY <3>1, <3>2, Appended
    <3>5. \A i \in 1 .. Len(d) : d[i][2] # n
      BY <3>2, <3>3, <3>4
    <3> USE DEF d
    <3> QED  BY <1>3, <2>1, <2>3, <3>5 DEF HostsWon
  <2> QED  BY <2>2, <2>3
<1>10. /\ \A k \in net' \cup inbox' : k \in net \cup inbox
       /\ \A k \in net \cup inbox : k.to # n => k \in net' \cup inbox'
  BY <1>3
<1> QED  BY <1>2, <1>3, <1>5, <1>6, <1>7, <1>8, <1>9, <1>10, GoodMoves

(* report(Won). *)
LEMMA WonGood ==
  ASSUME Contested, TypeOK, Good, NEW n \in Nodes, NEW s \in Slots,
         round[n][s].phase = "tiebreak", ReportWon(n, s)
  PROVE  Good'
<1> DEFINE r == Over("won", n)
<1>1. r \in Rounds /\ r.phase = "won"
  BY Shapes DEF Phases, Outcomes
<1> HIDE DEF r
<1>2. /\ SetRound(n, s, r) /\ inbox' = {k \in inbox : k.to # n \/ k.slot # s}
      /\ net' = net /\ now' = now /\ asked' = asked /\ wins' = wins \cup {<<n, s>>}
      /\ replicas' = replicas /\ lostCh' = lostCh
      /\ wonCh' = [wonCh EXCEPT ![n] = Append(@, <<s, n>>)]
  BY DEF ReportWon, Finish, r
<1>3. /\ round'[n][s] = r
      /\ \A k \in Nodes, t \in Slots : k # n \/ t # s => round'[k][t] = round[k][t]
  BY <1>1, <1>2, Updated
<1>4. ASSUME NEW t \in Slots, NEW z \in Int, Upheld(t, z) PROVE Upheld(t, z)'
  <2>1. t = s
    BY OneSlot
  <2> QED  BY <1>1, <1>3, <1>4, <2>1, UpheldKept DEF Competing
<1>5. RoundInTime(n, s)'
  <2>1. RoundInTime(n, s)
    BY DEF Good
  <2> QED  BY <1>1, <1>2, <1>3, <1>4, <2>1 DEF RoundInTime, Competing
<1>6. Hears(n, s)'
  BY <1>1, <1>3 DEF Hears, Listens
<1>7. ClaimOut(s)
  BY DEF ClaimOut
<1>8. ASSUME NEW k \in Nodes PROVE HostsWon(k)'
  <2>1. HostsWon(k)
    BY DEF Good
  <2>2. CASE k # n
    <3>1. wonCh'[k] = wonCh[k]
      BY <1>2, <2>2 DEF TypeOK
    <3> QED  BY <1>2, <2>1, <3>1 DEF HostsWon
  <2>3. CASE k = n
    <3> DEFINE c == wonCh[n]
    <3>1. c \in Seq(Slots \X Nodes) /\ wonCh'[n] = Append(c, <<s, n>>)
      BY <1>2 DEF TypeOK
    <3> HIDE DEF c
    <3>2. \A i \in 1 .. Len(wonCh'[n]) : wonCh'[n][i] \in {<<s, n>>}
                                          \/ (i \in 1 .. Len(c) /\ wonCh'[n][i] = c[i])
      BY <3>1
    <3>3. \A i \in 1 .. Len(c) : <<n, c[i][1]>> \in wins
      BY <2>1, <2>3 DEF HostsWon, c
    <3>4. \A i \in 1 .. Len(wonCh'[n]) : <<n, wonCh'[n][i][1]>> \in wins'
      BY <1>2, <3>2, <3>3
    <3> QED  BY <1>2, <2>1, <2>3, <3>4 DEF HostsWon
  <2> QED  BY <2>2, <2>3
<1>9. /\ \A k \in net' \cup inbox' : k \in net \cup inbox
      /\ \A k \in net \cup inbox : k.to # n => k \in net' \cup inbox'
  BY <1>2
<1> QED  BY <1>1, <1>2, <1>4, <1>5, <1>6, <1>7, <1>8, <1>9, GoodMoves

(* tryClaimCapsule of the one slot finds the claim free. *)
LEMMA ClaimGood ==
  ASSUME Contested, TypeOK, ClaimBacked, Race, Good, NEW n \in Nodes, NEW s \in Slots,
         round[n][s].phase = "wait", TryClaim(n, s), inbox' \subseteq inbox,
         \A m \in inbox \ inbox' : m \in Claims(n, s),
         UNCHANGED Rest
  PROVE  Good'
<1> USE ElectionAssumption
<1> DEFINE q == round[n][s]
           p == Round("publish", q.score, q.at, now, q.end, Nil)
<1>1. /\ p \in Rounds /\ p.phase = "publish" /\ p.score = q.score /\ p.at = q.at
      /\ p.end = q.end
  BY DEF Round, Rounds, Phases, OpenPhases, TypeOK
<1>2. n \notin claimed
  <2> SUFFICES ASSUME n \in claimed PROVE FALSE
    OBVIOUS
  <2>1. PICK t \in Slots : Holding(n, t) \/ <<n, t>> \in wins
    BY DEF ClaimBacked
  <2>2. t = s
    BY OneSlot
  <2>3. <<n, s>> \in wins
    BY <2>1, <2>2 DEF Holding
  <2> QED  BY <2>3 DEF Race, Decided
<1>3. /\ SetRound(n, s, p) /\ net' = net /\ now' = now /\ asked' = asked /\ wins' = wins
      /\ UNCHANGED <<replicas, wonCh, lostCh>>
  BY <1>2 DEF TryClaim, Rest
<1> HIDE DEF p
<1>4. /\ round'[n][s] = p
      /\ \A k \in Nodes, t \in Slots : k # n \/ t # s => round'[k][t] = round[k][t]
  BY <1>1, <1>3, Updated
<1>5. ASSUME NEW t \in Slots, NEW z \in Int, Upheld(t, z) PROVE Upheld(t, z)'
  <2>1. t = s
    BY OneSlot
  <2> QED  BY <1>1, <1>4, <1>5, <2>1, UpheldKept DEF Competing
<1>6. RoundInTime(n, s)'
  <2>1. RoundInTime(n, s)
    BY DEF Good
  <2> QED  BY <1>1, <1>3, <1>4, <1>5, <2>1 DEF RoundInTime, Competing
<1>7. Hears(n, s)'
  BY <1>1, <1>4 DEF Hears, Listens
<1>8. ClaimOut(s)' => ClaimOut(s)
  BY <1>1, <1>4 DEF ClaimOut
<1>9. \A k \in Nodes : HostsWon(k)'
  BY <1>3, HostsKept DEF Good
<1>10. /\ \A k \in net' \cup inbox' : k \in net \cup inbox
       /\ \A k \in net \cup inbox : k.to # n => k \in net' \cup inbox'
  BY <1>3 DEF Claims
<1> QED  BY <1>1, <1>3, <1>5, <1>6, <1>7, <1>8, <1>9, <1>10, GoodMoves

(* PublishClaim: everybody who listens has it to read. *)
LEMMA PublishGood ==
  ASSUME Contested, TypeOK, Race, Good, NEW n \in Nodes, NEW s \in Slots, Publish(n, s)
  PROVE  Good'
<1> USE ElectionAssumption
<1> DEFINE q == round[n][s]
           r == Round("tiebreak", q.score, q.at, q.pub, q.end, Nil)
           new == Sent("claim", n, s, q.score)
<1>1. /\ r \in Rounds /\ r.phase = "tiebreak" /\ r.score = q.score /\ r.at = q.at
      /\ r.end = q.end
  BY DEF Round, Rounds, Phases, OpenPhases, TypeOK
<1>2. /\ q.phase = "publish" /\ SetRound(n, s, r) /\ net' = net \cup new
      /\ now' = now /\ asked' = asked /\ inbox' = inbox /\ wins' = wins
      /\ UNCHANGED <<replicas, wonCh, lostCh>>
  BY DEF Publish
<1> HIDE DEF r
<1>3. /\ round'[n][s] = r
      /\ \A k \in Nodes, t \in Slots : k # n \/ t # s => round'[k][t] = round[k][t]
  BY <1>1, <1>2, Updated
<1>4. /\ q.score \in Offers[n] \ {NoBid} /\ now <= LastPublish /\ q.score \in Int
  <2>1. RoundOnTime(n, s) /\ RoundInTime(n, s)
    BY DEF Race, Good
  <2>2. q.pub = now /\ q.pub <= q.at + Slack /\ q.score \in Offers[n]
    BY <1>2, <2>1 DEF RoundOnTime, Holding
  <2>3. q.at + Slack <= LastPublish
    BY <1>2, <2>1 DEF RoundInTime, Competing
  <2>4. now \in Nat /\ q.at \in Nat /\ q.score \in 0 .. MaxScore
    BY Numbers
  <2> QED  BY <2>2, <2>3, <2>4, LastPublishTyped DEF NoBid
<1>5. ASSUME NEW t \in Slots, NEW z \in Int, Upheld(t, z) PROVE Upheld(t, z)'
  <2>1. t = s
    BY OneSlot
  <2> QED  BY <1>1, <1>2, <1>3, <1>5, <2>1, UpheldKept DEF Competing
<1>6. ASSUME NEW z \in Int, z = q.score PROVE Upheld(s, z)'
  <2>1. round'[n][s].phase \in Competing /\ round'[n][s].score >= z
    BY <1>1, <1>3, <1>4, <1>6 DEF Competing
  <2> QED  BY <2>1 DEF Upheld
<1>7. ASSUME NEW m \in new
      PROVE  /\ m.kind = "claim" /\ m.from = n /\ m.to # n /\ m.slot = s
             /\ m.score = q.score /\ m.ts = now
  <2>1. PICK x \in Nodes \ {n} :
          m = [kind |-> "claim", from |-> n, to |-> x, slot |-> s, score |-> q.score,
               ts |-> now, at |-> now]
    BY <1>7 DEF Sent
  <2> HIDE DEF q
  <2> QED  BY <2>1
<1>8. ASSUME NEW v \in Nodes, v # n PROVE ToRead(v, s)'
  <2> DEFINE m == [kind |-> "claim", from |-> n, to |-> v, slot |-> s,
                   score |-> q.score, ts |-> now, at |-> now]
  <2>1. m \in net'
    BY <1>2, <1>8 DEF Sent
  <2>2. m.kind = "claim" /\ m.to = v /\ m.slot = s
    OBVIOUS
  <2> HIDE DEF m
  <2> QED  BY <2>1, <2>2 DEF ToRead
<1> HIDE DEF new
<1>9. RoundInTime(n, s)'
  <2>1. RoundInTime(n, s)
    BY DEF Good
  <2> QED  BY <1>1, <1>2, <1>3, <1>5, <2>1 DEF RoundInTime, Competing
<1>10. Hears(n, s)'
  BY <1>1, <1>3 DEF Hears, Listens
<1>11. \A k \in Nodes : HostsWon(k)'
  BY <1>2, HostsKept DEF Good
<1>12. \A m \in net' \cup inbox' :
         \/ m \in net \cup inbox
         \/ /\ m.kind = "claim" /\ m.from # m.to /\ m.slot \in Slots
            /\ m.score \in Offers[m.from] \ {NoBid} /\ m.ts <= LastPublish
            /\ Upheld(m.slot, m.score)'
  <2> SUFFICES ASSUME NEW m \in net' \cup inbox', m \notin net \cup inbox
               PROVE  /\ m.kind = "claim" /\ m.from # m.to /\ m.slot \in Slots
                      /\ m.score \in Offers[m.from] \ {NoBid} /\ m.ts <= LastPublish
                      /\ Upheld(m.slot, m.score)'
    OBVIOUS
  <2>1. m \in new
    BY <1>2
  <2>2. /\ m.kind = "claim" /\ m.from = n /\ m.to # n /\ m.slot = s
        /\ m.score = q.score /\ m.ts = now
    BY <1>7, <2>1
  <2>3. Offers[m.from] = Offers[n] /\ m.score \in Int
    BY <1>4, <2>2
  <2>4. Upheld(s, m.score)'
    BY <1>6, <2>2, <2>3
  <2>5. Upheld(m.slot, m.score)'
    BY <2>2, <2>4
  <2> HIDE DEF q
  <2> QED  BY <1>4, <2>2, <2>3, <2>5
<1>13. \A m \in net \cup inbox : m.to # n => m \in net' \cup inbox'
  BY <1>2
<1> HIDE DEF q
<1> QED  BY <1>1, <1>2, <1>5, <1>8, <1>9, <1>10, <1>11, <1>12, <1>13, GoodMoves
(* HandleRequest: a node that waits for its time bids in time for the
   deadline, and one that is sure to bid does so in its only round. *)
LEMMA RequestGood ==
  ASSUME Contested, TypeOK, ClaimBacked, Race, Good, NEW n \in Nodes, NEW s \in Slots,
         Request(n, s)
  PROVE  Good'
<1> USE ElectionAssumption
<1> DEFINE Bids(score) == score # NoBid /\ ~RunsReplica(n) /\ n \notin claimed
           W(score, jitter) == Round("wait", score, PublishAt(score, s, jitter), 0,
                                     now + Timeout, Nil)
           V == Round("verdict", 0, 0, 0, now + Timeout, Nil)
<1>1. PICK score \in Offers[n], jitter \in 0 .. Jitter :
        \/ Bids(score) /\ SetRound(n, s, W(score, jitter))
        \/ ~Bids(score) /\ SetRound(n, s, V)
  BY DEF Request
<1>2. /\ asked[n][s] = 0 /\ now <= LastRequest
      /\ asked' = [asked EXCEPT ![n] = [asked[n] EXCEPT ![s] = @ + 1]]
      /\ now' = now /\ net' = net /\ inbox' = inbox /\ wins' = wins
      /\ UNCHANGED <<replicas, wonCh, lostCh>>
  BY Numbers DEF Request, Contested, Timely
<1>3. \A m \in Nodes : m # n => asked'[m] = asked[m]
  BY <1>2 DEF TypeOK
<1>4. round[n][s].phase = "none"
  BY <1>2 DEF Race, RoundOnTime
<1>5. \A w \in wins : FALSE
  BY <1>2, Numbers DEF Race, Decided
<1>6. ~RunsReplica(n) /\ n \notin claimed
  <2>1. ~RunsReplica(n)
    BY <1>5 DEF RunsReplica, Good, HostsWon
  <2>2. ASSUME n \in claimed PROVE FALSE
    <3>1. PICK t \in Slots : Holding(n, t)
      BY <1>5, <2>2 DEF ClaimBacked
    <3>2. t = s
      BY OneSlot
    <3> QED  BY <1>4, <3>1, <3>2 DEF Holding
  <2> QED  BY <2>1, <2>2
<1>7. \A k \in Nodes : HostsWon(k)'
  BY <1>2, HostsKept DEF Good
<1>8. ASSUME NEW r \in Rounds, SetRound(n, s, r), r.phase \in {"wait", "verdict"},
             RoundInTime(n, s)', Hears(n, s)'
      PROVE  Good'
  <2>1. /\ round'[n][s] = r
        /\ \A k \in Nodes, t \in Slots : k # n \/ t # s => round'[k][t] = round[k][t]
    BY <1>8, Updated
  <2>2. ASSUME NEW t \in Slots, NEW z \in Int, Upheld(t, z) PROVE Upheld(t, z)'
    <3>1. t = s
      BY OneSlot
    <3> QED  BY <1>4, <2>1, <2>2, <3>1, UpheldKept DEF Competing
  <2>3. ClaimOut(s)' => ClaimOut(s)
    BY <1>8, <2>1 DEF ClaimOut
  <2> QED  BY <1>2, <1>3, <1>7, <1>8, <2>2, <2>3, GoodMoves
<1>9. CASE Bids(score) /\ SetRound(n, s, W(score, jitter))
  <2> DEFINE b == BaseWait(score)
             r == W(score, jitter)
             g == MaxScore * ScoreStep
             p == PublishAt(score, s, jitter)
  <2>1. score \in 0 .. MaxScore /\ now \in Nat /\ s = 0
    BY <1>9, Numbers DEF Slots, Contested
  <2>2. b \in Nat /\ g \in Nat /\ b <= g
    BY <2>1, WaitBound
  <2>3. SlotDelay(s) = 0
    BY <2>1 DEF SlotDelay
  <2>4. p = now + b + 0 + jitter /\ LastPublish = LastRequest + g + Jitter + Slack
    BY <2>3 DEF PublishAt, LastPublish
  <2>5. LastPublish + Delta < Timeout
    BY DEF Contested
  <2> HIDE DEF b, g, p
  <2>6. p \in Nat /\ p + Slack <= LastPublish /\ p + Slack < now + Timeout
    BY <1>2, <2>1, <2>2, <2>4, <2>5, LastPublishTyped
  <2>7. /\ r \in Rounds /\ r.phase = "wait" /\ r.score = score /\ r.at = p
        /\ r.end = now + Timeout
    BY <2>1, <2>6 DEF Round, Rounds, Phases, OpenPhases, p
  <2>8. SetRound(n, s, r)
    BY <1>9
  <2> HIDE DEF r
  <2>9. round'[n][s] = r
    BY <2>7, <2>8, Updated
  <2>10. Upheld(s, 0)'
    <3>1. round'[n][s].phase \in Competing /\ round'[n][s].score >= 0
      BY <2>1, <2>7, <2>9 DEF Competing
    <3> QED  BY <3>1 DEF Upheld
  <2>11. RoundInTime(n, s)'
    BY <2>6, <2>7, <2>9, <2>10 DEF RoundInTime, Competing
  <2>12. Hears(n, s)'
    BY <2>7, <2>9 DEF Hears, Listens
  <2> QED  BY <1>8, <2>7, <2>8, <2>11, <2>12
<1>10. CASE ~Bids(score) /\ SetRound(n, s, V)
  <2>1. V \in Rounds /\ V.phase = "verdict" /\ V.end = now + Timeout
    BY Numbers DEF Round, Rounds, Phases, OpenPhases
  <2>2. n \notin Keen
    BY <1>6, <1>10 DEF Keen
  <2> DEFINE r == V
  <2>3. SetRound(n, s, r) /\ r \in Rounds /\ r.phase = "verdict" /\ r.end >= Timeout
    BY <1>10, <2>1, Numbers
  <2> HIDE DEF r
  <2>4. /\ round'[n][s] = r
        /\ \A k \in Nodes, t \in Slots : k # n \/ t # s => round'[k][t] = round[k][t]
    BY <2>3, Updated
  <2>5. RoundInTime(n, s)'
    BY <2>2, <2>3, <2>4 DEF RoundInTime, Competing
  <2>6. Hears(n, s)'
    <3>1. Hears(n, s) /\ Listens(n, s)
      BY <1>2, <1>4 DEF Good, Listens
    <3>2. ClaimOut(s)' => ClaimOut(s)
      BY <2>3, <2>4 DEF ClaimOut
    <3>3. ToRead(n, s) => ToRead(n, s)'
      BY <1>2 DEF ToRead
    <3> QED  BY <3>1, <3>2, <3>3 DEF Hears
  <2> QED  BY <1>8, <2>3, <2>5, <2>6
<1> QED  BY <1>1, <1>9, <1>10

(* What moves a message, and the clock. *)
LEMMA DeliverGood ==
  ASSUME Contested, TypeOK, Race, Good, NEW m \in net, Deliver(m)
  PROVE  Good'
<1> DEFINE d == [kind |-> m.kind, from |-> m.from, to |-> m.to, slot |-> m.slot,
                 score |-> m.score, ts |-> m.ts, at |-> now]
<1>1. /\ d.kind = m.kind /\ d.from = m.from /\ d.to = m.to /\ d.slot = m.slot
      /\ d.score = m.score /\ d.ts = m.ts
  OBVIOUS
<1>2. /\ net' = net \ {m} /\ inbox' = inbox \cup {d}
      /\ UNCHANGED <<now, round, asked, wins, replicas, wonCh, lostCh>>
  BY Numbers DEF Deliver, Race
<1> HIDE DEF d
<1>3. \A x \in net' \cup inbox' : \E k \in net \cup inbox :
        /\ x.kind = k.kind /\ x.from = k.from /\ x.to = k.to /\ x.slot = k.slot
        /\ x.score = k.score /\ x.ts = k.ts
  BY <1>1, <1>2
<1>4. \A v \in Nodes, s \in Slots : ToRead(v, s) => ToRead(v, s)'
  BY <1>1, <1>2 DEF ToRead
<1>5. \A k \in Nodes : HostsWon(k)'
  BY <1>2, HostsKept DEF Good
<1>6. now' \in Nat /\ now <= now'
  BY <1>2, Numbers
<1> QED  BY <1>2, <1>3, <1>4, <1>5, <1>6, GoodKept

LEMMA DroppedGood ==
  ASSUME Contested, TypeOK, Race, Good, NEW m \in inbox, inbox' = inbox \ {m},
         \A s \in Slots : ~Listens(m.to, s),
         UNCHANGED <<now, round, asked, net, wins, replicas, wonCh, lostCh>>
  PROVE  Good'
<1>1. \A x \in net' \cup inbox' : x \in net \cup inbox
  OBVIOUS
<1>2. ASSUME NEW v \in Nodes, NEW s \in Slots, Listens(v, s)', ToRead(v, s)
      PROVE  ToRead(v, s)'
  <2>1. Listens(v, s)
    BY <1>2 DEF Listens
  <2>2. v # m.to
    BY <2>1
  <2> QED  BY <1>2, <2>2 DEF ToRead
<1>3. \A k \in Nodes : HostsWon(k)'
  BY HostsKept DEF Good
<1>4. now' \in Nat /\ now <= now'
  BY Numbers
<1> QED  BY <1>1, <1>2, <1>3, <1>4, GoodKept

LEMMA SweepGood ==
  ASSUME Contested, TypeOK, Race, Good, NEW m \in inbox, Sweep(m)
  PROVE  Good'
<1> USE ElectionAssumption
<1>1. ~Open(m.to, m.slot) /\ now >= m.at + BufferTTL
  BY DEF Sweep
<1>2. now > LastRequest
  BY <1>1, Numbers DEF Contested, Timely
<1>3. ASSUME NEW s \in Slots PROVE ~Listens(m.to, s)
  <2>1. m.slot = s
    BY OneSlot, Numbers
  <2> QED  BY <1>1, <1>2, <2>1, Numbers DEF Listens, Open, OpenPhases
<1> QED  BY <1>3, DroppedGood DEF Sweep

LEMMA TieWorseGood ==
  ASSUME Contested, TypeOK, Race, Good, NEW n \in Nodes, NEW s \in Slots, TieWorse(n, s)
  PROVE  Good'
<1>1. PICK m \in Claims(n, s) : inbox' = inbox \ {m}
  BY DEF TieWorse
<1>2. m \in inbox /\ m.to = n
  BY DEF Claims
<1>3. ASSUME NEW t \in Slots PROVE ~Listens(n, t)
  <2>1. t = s
    BY OneSlot
  <2> QED  BY <2>1 DEF Listens, TieWorse
<1> QED  BY <1>1, <1>2, <1>3, DroppedGood DEF TieWorse, Rest

LEMMA QuietGood ==
  ASSUME Contested, TypeOK, Good, UNCHANGED <<round, asked, wins, net, inbox>>,
         now' \in Nat, now <= now', \A n \in Nodes : HostsWon(n)'
  PROVE  Good'
<1>1. \A m \in net' \cup inbox' : m \in net \cup inbox
  OBVIOUS
<1>2. \A v \in Nodes, s \in Slots : ToRead(v, s) => ToRead(v, s)'
  BY DEF ToRead
<1> QED  BY <1>1, <1>2, GoodKept
(* handleElectionWon and handleElectionLost: the store learns of a replica on
   the node itself only from a win. *)
LEMMA VerdictsGood ==
  ASSUME Contested, TypeOK, Good, NEW n \in Nodes,
         HandleElectionWon(n) \/ HandleElectionLost(n)
  PROVE  Good'
<1> USE ElectionAssumption
<1>1. /\ UNCHANGED <<round, asked, wins, net, inbox, now>> /\ now \in Nat
      /\ wins' = wins
  BY Numbers DEF HandleElectionWon, HandleElectionLost
<1>2. ASSUME NEW t \in Slots, NEW host \in Nodes, Assign(n, t, host),
             host = n => <<n, t>> \in wins
      PROVE  \A k \in Nodes, s \in Slots : replicas'[k][s] = k => <<k, s>> \in wins
  <2> SUFFICES ASSUME NEW k \in Nodes, NEW s \in Slots, replicas'[k][s] = k
               PROVE  <<k, s>> \in wins
    OBVIOUS
  <2>1. replicas[k][s] = k => <<k, s>> \in wins
    BY DEF Good, HostsWon
  <2>2. CASE k = n /\ s = t
    <3>1. replicas'[n][t] = host \/ replicas' = replicas
      BY <1>2 DEF Assign, TypeOK
    <3> QED  BY <1>2, <2>1, <2>2, <3>1
  <2>3. CASE k # n \/ s # t
    <3>1. replicas'[k][s] = replicas[k][s]
      BY <1>2, <2>3 DEF Assign, TypeOK
    <3> QED  BY <2>1, <3>1
  <2> QED  BY <2>2, <2>3
<1>3. CASE HandleElectionWon(n)
  <2> DEFINE c == wonCh[n]
  <2>1. /\ c \in Seq(Slots \X Nodes) /\ c # <<>> /\ lostCh' = lostCh
        /\ Assign(n, Head(c)[1], Head(c)[2]) /\ wonCh'[n] = Tail(c)
        /\ \A k \in Nodes : k # n => wonCh'[k] = wonCh[k]
        /\ \A i \in 1 .. Len(c) : <<n, c[i][1]>> \in wins
    BY <1>3 DEF HandleElectionWon, TypeOK, Good, HostsWon
  <2> HIDE DEF c
  <2>2. Head(c) = c[1] /\ 1 \in 1 .. Len(c) /\ c[1] \in Slots \X Nodes
    BY <2>1
  <2>3. \A k \in Nodes, s \in Slots : replicas'[k][s] = k => <<k, s>> \in wins
    BY <1>2, <2>1, <2>2
  <2>4. \A i \in 1 .. Len(Tail(c)) : Tail(c)[i] = c[i + 1] /\ i + 1 \in 1 .. Len(c)
    BY <2>1
  <2>5. \A i \in 1 .. Len(wonCh'[n]) : <<n, wonCh'[n][i][1]>> \in wins
    BY <2>1, <2>4
  <2>6. ASSUME NEW k \in Nodes PROVE HostsWon(k)'
    <3>1. HostsWon(k)
      BY DEF Good
    <3>2. \A i \in 1 .. Len(wonCh'[k]) : <<k, wonCh'[k][i][1]>> \in wins
      BY <2>1, <2>5, <3>1 DEF HostsWon
    <3> QED  BY <1>1, <2>1, <2>3, <3>1, <3>2 DEF HostsWon
  <2> QED  BY <1>1, <2>6, QuietGood
<1>4. CASE HandleElectionLost(n)
  <2> DEFINE c == lostCh[n]
  <2>1. /\ c \in Seq(Slots \X Nodes) /\ c # <<>> /\ wonCh' = wonCh
        /\ Assign(n, Head(c)[1], Head(c)[2]) /\ lostCh'[n] = Tail(c)
        /\ \A k \in Nodes : k # n => lostCh'[k] = lostCh[k]
        /\ \A i \in 1 .. Len(c) : c[i][2] # n
    BY <1>4 DEF HandleElectionLost, TypeOK, Good, HostsWon
  <2> HIDE DEF c
  <2>2. Head(c) = c[1] /\ 1 \in 1 .. Len(c) /\ c[1] \in Slots \X Nodes
    BY <2>1
  <2>3. \A k \in Nodes, s \in Slots : replicas'[k][s] = k => <<k, s>> \in wins
    BY <1>2, <2>1, <2>2
  <2>4. \A i \in 1 .. Len(Tail(c)) : Tail(c)[i] = c[i + 1] /\ i + 1 \in 1 .. Len(c)
    BY <2>1
  <2>5. \A i \in 1 .. Len(lostCh'[n]) : lostCh'[n][i][2] # n
    BY <2>1, <2>4
  <2>6. ASSUME NEW k \in Nodes PROVE HostsWon(k)'
    <3>1. HostsWon(k)
      BY DEF Good
    <3>2. \A i \in 1 .. Len(lostCh'[k]) : lostCh'[k][i][2] # k
      BY <2>1, <2>5, <3>1 DEF HostsWon
    <3> QED  BY <1>1, <2>1, <2>3, <3>1, <3>2 DEF HostsWon
  <2> QED  BY <1>1, <2>6, QuietGood
<1> QED  BY <1>3, <1>4

(* waitForRemoteVerdict times out only when a node that was sure to bid never
   asked: any bid would have led to a claim, heard long before. *)
LEMMA DeadlineAbsent ==
  ASSUME Contested, TypeOK, Race, Good, NEW n \in Nodes, NEW s \in Slots,
         VerdictDeadline(n, s)
  PROVE  Absent
<1> USE ElectionAssumption
<1>1. round[n][s].phase = "verdict" /\ now >= round[n][s].end /\ now \in Nat
  BY Numbers DEF VerdictDeadline
<1>2. round[n][s].end >= Timeout /\ round[n][s].end \in Nat
  <2>1. round[n][s] \in Rounds
    BY Numbers
  <2>2. RoundInTime(n, s)
    BY DEF Good
  <2> QED  BY <1>1, <2>1, <2>2 DEF RoundInTime, Rounds
<1>3. now > LastPublish + Delta /\ now > LastPublish /\ now > LastRequest
  BY <1>1, <1>2, LastPublishTyped DEF Contested
<1>4. PICK x \in Keen : TRUE
  BY DEF Contested
<1>5. x \in Nodes
  BY DEF Keen
<1>6. asked[x][s] = 0
  <2> SUFFICES ASSUME asked[x][s] # 0 PROVE FALSE
    OBVIOUS
  <2>1. PICK d \in Nodes : round[d][s].phase = "won" \/ round[d][s].phase \in Competing
    BY <1>4, <1>5 DEF Good, RoundInTime, Upheld
  <2>2. round[d][s].phase \notin {"wait", "publish"}
    <3>1. RoundOnTime(d, s) /\ RoundInTime(d, s)
      BY DEF Race, Good
    <3>2. round[d][s].at \in Nat
      BY Numbers
    <3>3. round[d][s].phase # "wait"
      BY <1>1, <1>3, <3>1, <3>2, LastPublishTyped DEF RoundOnTime, RoundInTime, Competing
    <3>4. round[d][s].phase # "publish"
      BY <1>1, <1>3, <3>1, <3>2, LastPublishTyped
         DEF RoundOnTime, RoundInTime, Competing, Holding
    <3> QED  BY <3>3, <3>4
  <2>3. ClaimOut(s)
    BY <2>1, <2>2 DEF ClaimOut, Competing
  <2>4. ToRead(n, s)
    BY <1>1, <2>3 DEF Good, Hears, Listens
  <2>5. PICK m \in net \cup inbox : m.kind = "claim" /\ m.to = n /\ m.slot = s
    BY <2>4 DEF ToRead
  <2>6. m.ts <= LastPublish /\ m.ts \in Nat
    BY Numbers DEF Good, ClaimsUpheld
  <2>7. Open(n, s)
    BY <1>1 DEF Open, OpenPhases
  <2>8. now <= m.ts + Delta \/ now <= LastRequest
    <3>1. CASE m \in net
      BY <3>1 DEF Race, NetOnTime
    <3>2. CASE m \in inbox
      BY <2>5, <2>7, <3>2 DEF Race, InboxOnTime
    <3> QED  BY <3>1, <3>2
  <2> QED  BY <1>1, <1>3, <2>6, <2>8, LastPublishTyped
<1>7. \A t \in Slots : t = s
  BY OneSlot
<1> QED  BY <1>3, <1>6, <1>7 DEF Absent

(* A node that missed the time to ask never asks. *)
LEMMA AbsentKept ==
  ASSUME TypeOK, Absent, [Next]_vars
  PROVE  Absent'
<1> USE ElectionAssumption
<1> SUFFICES ASSUME NEW t \in Slots
             PROVE  \E x \in Keen : asked'[x][t] = 0 /\ now' > LastRequest
  BY DEF Absent
<1>1. PICK x \in Keen : asked[x][t] = 0 /\ now > LastRequest
  BY DEF Absent
<1>2. x \in Nodes /\ now \in Nat
  BY Numbers DEF Keen
<1>3. ASSUME NEW n \in Nodes, NEW s \in Slots, Request(n, s) PROVE FALSE
  BY <1>1, <1>2, <1>3 DEF Request
<1>4. ASSUME NEW n \in Nodes, NEW s \in Slots, RoundStep(n, s)
      PROVE  asked' = asked /\ now' = now
  BY <1>4 DEF RoundStep, WaitTimer, WaitRival, WaitFailure, WaitDeadline, Publish,
              PublishError, TieBetter, TieWorse, TieWindowEnds, VerdictClaim,
              VerdictFailure, VerdictDeadline, Cancelled, ChannelClosed, NilRival, Die,
              ReportFailed, ReportLost, ReportWon, Rest
<1>5. ASSUME NEW n \in Nodes, NodeStep(n) PROVE asked' = asked /\ now' = now
  BY <1>5 DEF NodeStep, Crash, Die, Stop, LeaveCluster, Rejoin, ForgetCapsule,
              HandleElectionWon, HandleElectionLost
<1>6. ASSUME NEW m, Deliver(m) \/ Lose(m) \/ Sweep(m) PROVE asked' = asked /\ now' = now
  BY <1>6 DEF Deliver, Lose, Sweep
<1>7. CASE Tick
  BY <1>1, <1>2, <1>7 DEF Tick
<1>8. CASE UNCHANGED vars
  BY <1>1, <1>8 DEF vars
<1> QED  BY <1>1, <1>3, <1>4, <1>5, <1>6, <1>7, <1>8 DEF Next
(* Each step of a round: nothing fails before a node is absent. *)
LEMMA RoundGood ==
  ASSUME Contested, TypeOK, ClaimBacked, Race, Good, NEW n \in Nodes, NEW s \in Slots,
         RoundStep(n, s)
  PROVE  Good' \/ Absent
<1> USE ElectionAssumption
<1>0. life[n] = "up" /\ Failures(n, s) = {} /\ Faults = {}
  BY DEF Race, Good, ClaimsUpheld, Failures, Contested
<1>1. ASSUME NEW m \in Claims(n, s), ReportLost(n, s, m.from),
             \/ round[n][s].phase \in {"wait", "tiebreak"} /\ IsBetter(m, round[n][s], n)
             \/ round[n][s].phase = "verdict"
      PROVE  Good'
  BY <1>1, LostGood
<1>2. CASE WaitTimer(n, s)
  <2>1. /\ round[n][s].phase = "wait" /\ TryClaim(n, s) /\ inbox' = inbox
        /\ UNCHANGED Rest
    BY <1>2 DEF WaitTimer
  <2>2. inbox' \subseteq inbox /\ \A m \in inbox \ inbox' : m \in Claims(n, s)
    BY <2>1
  <2> QED  BY <2>1, <2>2, ClaimGood
<1>3. CASE WaitRival(n, s)
  <2>1. PICK m \in Claims(n, s) :
          \/ IsBetter(m, round[n][s], n) /\ ReportLost(n, s, m.from)
          \/ TryClaim(n, s) /\ inbox' = inbox \ {m} /\ UNCHANGED Rest
    BY <1>3 DEF WaitRival
  <2>2. round[n][s].phase = "wait"
    BY <1>3 DEF WaitRival
  <2>3. CASE IsBetter(m, round[n][s], n) /\ ReportLost(n, s, m.from)
    BY <1>1, <2>2, <2>3
  <2>4. CASE TryClaim(n, s) /\ inbox' = inbox \ {m} /\ UNCHANGED Rest
    <3>1. inbox' \subseteq inbox /\ \A k \in inbox \ inbox' : k \in Claims(n, s)
      BY <2>4
    <3> QED  BY <2>2, <2>4, <3>1, ClaimGood
  <2> QED  BY <2>1, <2>3, <2>4
<1>4. ~WaitFailure(n, s) /\ ~PublishError(n, s) /\ ~VerdictFailure(n, s)
  BY <1>0 DEF WaitFailure, PublishError, VerdictFailure
<1>5. ~WaitDeadline(n, s)
  <2>1. RoundOnTime(n, s) /\ RoundInTime(n, s)
    BY DEF Race, Good
  <2>2. now \in Nat /\ round[n][s].at \in Nat /\ round[n][s] \in Rounds
    BY Numbers
  <2>3. round[n][s].end \in Nat
    BY <2>2 DEF Rounds
  <2>4. round[n][s].phase = "wait" => now < round[n][s].end
    BY <2>1, <2>2, <2>3 DEF RoundOnTime, RoundInTime, Competing
  <2> QED  BY <2>2, <2>3, <2>4 DEF WaitDeadline
<1>6. CASE Publish(n, s)
  BY <1>6, PublishGood
<1>7. CASE TieBetter(n, s) \/ VerdictClaim(n, s)
  BY <1>1, <1>7 DEF TieBetter, VerdictClaim
<1>8. CASE TieWorse(n, s)
  BY <1>8, TieWorseGood
<1>9. CASE TieWindowEnds(n, s)
  BY <1>9, WonGood DEF TieWindowEnds
<1>10. CASE VerdictDeadline(n, s)
  BY <1>10, DeadlineAbsent
<1>11. ~Cancelled(n, s) /\ ~ChannelClosed(n, s) /\ ~NilRival(n, s)
  BY <1>0 DEF Cancelled, ChannelClosed, NilRival
<1> QED  BY <1>2, <1>3, <1>4, <1>5, <1>6, <1>7, <1>8, <1>9, <1>10, <1>11 DEF RoundStep

LEMMA NextDecisive ==
  ASSUME Contested
  PROVE  Inv /\ Race /\ Decisive /\ [Next]_vars => Decisive'
<1> SUFFICES ASSUME TypeOK, ClaimBacked, Race, Decisive, [Next]_vars PROVE Decisive'
  BY DEF Inv, Core
<1>1. CASE Absent
  BY <1>1, AbsentKept DEF Decisive
<1>2. ASSUME Good PROVE Good' \/ Absent
  <2>1. ASSUME NEW n \in Nodes, NEW s \in Slots, Request(n, s) PROVE Good'
    BY <1>2, <2>1, RequestGood
  <2>2. ASSUME NEW n \in Nodes, NEW s \in Slots, RoundStep(n, s) PROVE Good' \/ Absent
    BY <1>2, <2>2, RoundGood
  <2>3. ASSUME NEW n \in Nodes, NodeStep(n) PROVE Good'
    <3>1. life[n] = "up" /\ Faults = {}
      BY DEF Race, Contested
    <3>2. HandleElectionWon(n) \/ HandleElectionLost(n)
      BY <2>3, <3>1 DEF NodeStep, Crash, Stop, LeaveCluster, Rejoin, ForgetCapsule
    <3> QED  BY <1>2, <3>2, VerdictsGood
  <2>4. ASSUME NEW m \in net, Deliver(m) \/ Lose(m) PROVE Good'
    BY <1>2, <2>4, DeliverGood DEF Lose, Contested
  <2>5. ASSUME NEW m \in inbox, Sweep(m) PROVE Good'
    BY <1>2, <2>5, SweepGood
  <2>6. CASE Tick
    <3>1. /\ UNCHANGED <<round, asked, wins, net, inbox, replicas, wonCh, lostCh>>
          /\ now' \in Nat /\ now <= now' /\ wins' = wins
      BY <2>6, Numbers DEF Tick
    <3>2. \A n \in Nodes : HostsWon(n)'
      BY <1>2, <3>1, HostsKept DEF Good
    <3> QED  BY <1>2, <3>1, <3>2, QuietGood
  <2>7. CASE UNCHANGED vars
    <3>1. /\ UNCHANGED <<round, asked, wins, net, inbox, replicas, wonCh, lostCh>>
          /\ now' \in Nat /\ now <= now' /\ wins' = wins
      BY <2>7, Numbers DEF vars
    <3>2. \A n \in Nodes : HostsWon(n)'
      BY <1>2, <3>1, HostsKept DEF Good
    <3> QED  BY <1>2, <3>1, <3>2, QuietGood
  <2> QED  BY <2>1, <2>2, <2>3, <2>4, <2>5, <2>6, <2>7 DEF Next
<1> QED  BY <1>1, <1>2, AbsentKept DEF Decisive

(* Once every node has asked and no round is open, whoever bid has made a
   winner. *)
LEMMA DecisiveWins ==
  ASSUME Contested, TypeOK, Decisive
  PROVE  SomeWinner
<1> SUFFICES ASSUME NEW s \in Slots, Settled(s)
             PROVE  \E n \in Nodes : <<n, s>> \in wins
  BY DEF SomeWinner
<1>1. \A n \in Nodes : asked[n][s] = 1 /\ ~Open(n, s)
  BY DEF Settled, Contested, Timely
<1>2. ~Absent
  BY <1>1 DEF Absent, Keen
<1>3. Good
  BY <1>2 DEF Decisive
<1>4. PICK x \in Keen : TRUE
  BY DEF Contested
<1>5. PICK d \in Nodes : round[d][s].phase = "won" \/ round[d][s].phase \in Competing
  <2>1. x \in Nodes /\ asked[x][s] # 0
    BY <1>1 DEF Keen
  <2>2. RoundInTime(x, s)
    BY <1>3, <2>1 DEF Good
  <2> QED  BY <2>1, <2>2 DEF RoundInTime, Upheld
<1>6. round[d][s].phase = "won"
  BY <1>1, <1>5 DEF Open, OpenPhases, Competing
<1> QED  BY <1>3, <1>6 DEF Good, RoundInTime

(* The other half of "exactly one node in the cluster wins the election"
   (election_integration_test.go:93): a replica slot that some node is sure to
   bid for does not end without a host.  No node steps aside for a claim whose
   owner then loses to nobody, and no node gives up at the deadline while a
   claim is on its way.  The number of nodes, the scores and the length of every
   timer are arbitrary, as long as the deadline leaves time for the slowest claim. *)
THEOREM SomeWinnerAlways == ASSUME Contested PROVE Spec => []SomeWinner
<1>1. Contested => Timely
  BY DEF Contested
<1>2. Init => Race /\ Decisive
  BY <1>1, InitRace, InitGood DEF Decisive
<1>3. Inv /\ Race /\ [Next]_vars => Race'
  BY <1>1, NextRace
<1>4. Inv /\ Decisive => SomeWinner
  BY DecisiveWins DEF Inv
<1> QED  BY <1>2, <1>3, <1>4, NextDecisive, ElectionInvariant, PTL DEF Spec
=============================================================================
