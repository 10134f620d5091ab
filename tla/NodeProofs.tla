----------------------------- MODULE NodeProofs -----------------------------
(***************************************************************************)
(* Proofs about three parts of one node that share no state, for every     *)
(* value of their constants.                                               *)
(*                                                                         *)
(*   Scaling         its types, and that no rule of a capsule fires again  *)
(*                   within its cooldown;                                  *)
(*   RuntimeHandler  its types, that a container that dies is restarted or *)
(*                   reported, and that a rolling update that nothing      *)
(*                   disturbs always has a running container;              *)
(*   Metrics         its types, and that a bidder that is no worse than    *)
(*                   another does not score less.                          *)
(***************************************************************************)
EXTENDS RuntimeHandler, Metrics, Scaling, WellFoundedInduction, FiniteSetTheorems, TLAPS

-----------------------------------------------------------------------------
(* The scaling monitor. *)

(* A capsule being deleted can still be unregistered within the bound. *)
Deleting == \A c \in deleting : life[c] < MaxDeletes

(* The map of cooldowns is the memory of the log: what fired in this life of
   the capsule is in the map, with a time no earlier, and nothing that fired
   belongs to the future or to a life to come.  CooldownRespected compares two
   events of the log; isInCooldown compares one with the map, which Unregister
   empties and an update of the rules leaves alone. *)
Kept(e) ==
  /\ e.at <= now /\ e.life <= life[e.capsule]
  /\ e.life = life[e.capsule] =>
       /\ e.rule.name \in DOMAIN cooldowns[e.capsule]
       /\ e.at <= cooldowns[e.capsule][e.rule.name]

Memory == \A i \in DOMAIN log : Kept(log[i])

SInv == STypeOK /\ Deleting /\ Memory /\ CooldownRespected

-----------------------------------------------------------------------------
(* A set of natural numbers that is not empty has its minimum in it. *)
LEMMA MinIn ==
  ASSUME NEW S \in SUBSET Nat, S # {}
  PROVE  Min(S) \in S /\ \A y \in S : Min(S) <= y
<1> DEFINE R == OpToRel(<, Nat)
<1>1. IsWellFoundedOn(R, Nat)
  BY NatLessThanWellFounded
<1>0. R = {ss \in Nat \X Nat : ss[1] < ss[2]}
  BY Zenon DEF OpToRel
<1> HIDE DEF R
<1>2. PICK x \in S : \A y \in S : ~(<<y, x>> \in R)
  BY <1>1, WFMin
<1>3. \A y \in S : x <= y
  <2> TAKE y \in S
  <2>1. x \in Nat /\ y \in Nat
    OBVIOUS
  <2>2. <<y, x>> \in Nat \X Nat
    BY <2>1
  <2>3. ~(<<y, x>>[1] < <<y, x>>[2])
    BY <1>0, <1>2, <2>2, Zenon
  <2>4. ~(y < x)
    BY <2>3
  <2> QED
    BY <2>1, <2>4
<1> QED
  BY <1>3 DEF Min

(* The slot after the largest known one is a slot. *)
LEMMA NextSlot ==
  ASSUME NEW S \in SlotSets \cup {{}}
  PROVE  nextReplicaSlot(S) \in Nat
<1>1. CASE S = {}
  BY <1>1 DEF nextReplicaSlot
<1>2. CASE S # {}
  <2>1. S \subseteq Nat /\ \E m \in S : \A x \in S : x <= m
    BY <1>2, ScalingAssumption
  <2>2. Max(S) \in S
    BY <2>1 DEF Max
  <2>3. Max(S) \in Nat
    BY <2>1, <2>2
  <2> HIDE DEF Max
  <2> QED
    BY <1>2, <2>3 DEF nextReplicaSlot
<1> QED
  BY <1>1, <1>2

(* The cooldowns of one capsule: names of rules to times that have been. *)
LEMMA CooldownsOf ==
  ASSUME STypeOK, NEW c \in Capsules
  PROVE  /\ DOMAIN cooldowns[c] \subseteq RuleNames
         /\ cooldowns[c] \in [DOMAIN cooldowns[c] -> 0..now]
<1>1. cooldowns[c] \in UNION {[D -> 0..now] : D \in SUBSET RuleNames}
  BY DEF STypeOK
<1> QED
  BY <1>1

(* A step that touches neither the log nor what its entries are compared with
   keeps what is said of them. *)
LEMMA LogKept ==
  ASSUME Memory, CooldownRespected, UNCHANGED <<now, log, cooldowns, life>>
  PROVE  Memory' /\ CooldownRespected'
  BY DEF Memory, Kept, CooldownRespected

-----------------------------------------------------------------------------
LEMMA SInitInv == SInit => SInv
<1> SUFFICES ASSUME SInit PROVE SInv
  OBVIOUS
<1>1. NoCooldowns \in [{} -> 0..0]
  BY DEF NoCooldowns
<1>2. STypeOK
  <2>1. cooldowns \in [Capsules -> UNION {[D -> 0..now] : D \in SUBSET RuleNames}]
    <3>1. NoCooldowns \in UNION {[D -> 0..now] : D \in SUBSET RuleNames}
      BY <1>1 DEF SInit
    <3> QED
      BY <3>1 DEF SInit
  <2> QED
    BY <2>1, ScalingAssumption DEF SInit, STypeOK
<1>3. Deleting /\ Memory /\ CooldownRespected
  BY DEF SInit, Deleting, Memory, CooldownRespected
<1> QED
  BY <1>2, <1>3 DEF SInv

(* Capsules received, created and deleted, and the containers' statistics. *)
LEMMA CapsuleInv ==
  ASSUME SInv, NEW c \in Capsules,
         \/ ReceiveCapsule(c) \/ CreateCapsule(c) \/ DeleteCapsule(c)
         \/ RegisterStats(c) \/ ReadStats(c) \/ UnregisterStats(c)
  PROVE  SInv'
<1> USE DEF SInv
<1>1. Memory' /\ CooldownRespected'
  BY LogKept DEF ReceiveCapsule, CreateCapsule, DeleteCapsule, RegisterStats, ReadStats,
                 UnregisterStats
<1>2. CASE ReceiveCapsule(c)
  <2>1. rules' \in [Capsules -> RuleLists \cup {Unset}]
    BY <1>2 DEF ReceiveCapsule, registerScaling, STypeOK
  <2>2. slots' \in [Capsules -> SlotSets \cup {{}, Unset}]
    BY <1>2 DEF ReceiveCapsule, STypeOK
  <2>3. UNCHANGED <<now, usage, cooldowns, batch, pending, asked, log, deleting, life>>
    BY <1>2 DEF ReceiveCapsule
  <2> QED
    BY <1>1, <2>1, <2>2, <2>3 DEF STypeOK, Deleting
<1>3. CASE CreateCapsule(c)
  BY <1>1, <1>3 DEF CreateCapsule, STypeOK, Deleting
<1>4. CASE DeleteCapsule(c)
  BY <1>1, <1>4 DEF DeleteCapsule, STypeOK, Deleting
<1>5. CASE RegisterStats(c)
  BY <1>1, <1>5 DEF RegisterStats, STypeOK, Deleting
<1>6. CASE ReadStats(c)
  BY <1>1, <1>6 DEF ReadStats, STypeOK, Deleting
<1>7. CASE UnregisterStats(c)
  BY <1>1, <1>7 DEF UnregisterStats, STypeOK, Deleting
<1> QED
  BY <1>2, <1>3, <1>4, <1>5, <1>6, <1>7

(* Monitor.Unregister: the cooldowns are forgotten with the life they are
   about. *)
LEMMA UnregisterInv ==
  ASSUME SInv, NEW c \in Capsules, Unregister(c)
  PROVE  SInv'
<1> USE DEF SInv
<1>1. NoCooldowns \in UNION {[D -> 0..now] : D \in SUBSET RuleNames}
  <2>1. NoCooldowns \in [{} -> 0..now]
    BY DEF NoCooldowns
  <2> QED
    BY <2>1
<1>2. life[c] < MaxDeletes /\ life[c] \in 0..MaxDeletes
  BY DEF Unregister, Deleting, STypeOK
<1>3. life' \in [Capsules -> 0..MaxDeletes]
  BY <1>2, ScalingAssumption DEF Unregister, STypeOK
<1>4. STypeOK'
  BY <1>1, <1>3 DEF Unregister, STypeOK
<1>5. Deleting'
  BY DEF Unregister, Deleting, STypeOK
<1>6. Memory'
  <2> SUFFICES ASSUME NEW i \in DOMAIN log PROVE Kept(log[i])'
    BY DEF Memory, Unregister
  <2>1. Kept(log[i]) /\ log[i] \in Event
    BY DEF Memory, STypeOK
  <2>2. CASE log[i].capsule = c
    BY <2>1, <2>2, <1>2 DEF Kept, Event, Unregister, STypeOK
  <2>3. CASE log[i].capsule # c
    BY <2>1, <2>3 DEF Kept, Event, Unregister, STypeOK
  <2> QED
    BY <2>2, <2>3
<1>7. CooldownRespected'
  BY DEF CooldownRespected, Unregister
<1> QED
  BY <1>4, <1>5, <1>6, <1>7

LEMMA TickInv ==
  ASSUME SInv, Tick
  PROVE  SInv'
<1> USE DEF SInv
<1>1. now \in Nat /\ now' = now + 1 /\ now' \in 0..MaxTime
  BY ScalingAssumption DEF Tick, STypeOK
<1>2. cooldowns' \in [Capsules -> UNION {[D -> 0..now'] : D \in SUBSET RuleNames}]
  <2>1. ASSUME NEW c \in Capsules
        PROVE  cooldowns[c] \in UNION {[D -> 0..now'] : D \in SUBSET RuleNames}
    <3>1. 0..now \subseteq 0..now'
      BY <1>1
    <3>2. cooldowns[c] \in [DOMAIN cooldowns[c] -> 0..now']
      BY <3>1, CooldownsOf
    <3> QED
      BY <3>2, CooldownsOf
  <2> QED
    BY <2>1 DEF STypeOK, Tick
<1>3. STypeOK'
  BY <1>1, <1>2 DEF Tick, STypeOK
<1>4. Deleting' /\ CooldownRespected'
  BY DEF Tick, Deleting, CooldownRespected
<1>5. Memory'
  <2> SUFFICES ASSUME NEW i \in DOMAIN log PROVE Kept(log[i])'
    BY DEF Memory, Tick
  <2>1. Kept(log[i]) /\ log[i] \in Event
    BY DEF Memory, STypeOK
  <2>2. log[i].at <= now'
    BY <1>1, <2>1 DEF Kept, Event
  <2> QED
    BY <2>1, <2>2 DEF Kept, Tick
<1> QED
  BY <1>3, <1>4, <1>5

LEMMA SnapshotInv ==
  ASSUME SInv, Snapshot
  PROVE  SInv'
<1> USE DEF SInv
<1>1. Memory' /\ CooldownRespected'
  BY LogKept DEF Snapshot
<1>2. batch' \subseteq [capsule : Capsules, rules : RuleLists]
  BY DEF Snapshot, STypeOK
<1> QED
  BY <1>1, <1>2 DEF Snapshot, STypeOK, Deleting

LEMMA HandlerInv ==
  ASSUME SInv, onScaleEvent
  PROVE  SInv'
<1> USE DEF SInv
<1>1. Memory' /\ CooldownRespected'
  BY LogKept DEF onScaleEvent
<1>2. asked' = Unset \/ asked' \in [capsule : Capsules, slot : Nat]
  <2>1. CASE pending.rule.action = "scale_up" /\ slots[pending.capsule] # Unset
    <3>1. pending.capsule \in Capsules
      BY DEF onScaleEvent, STypeOK
    <3>2. slots[pending.capsule] \in SlotSets \cup {{}}
      BY <2>1, <3>1 DEF STypeOK
    <3> QED
      BY <2>1, <3>1, <3>2, NextSlot DEF onScaleEvent
  <2>2. CASE ~(pending.rule.action = "scale_up" /\ slots[pending.capsule] # Unset)
    BY <2>2 DEF onScaleEvent, STypeOK
  <2> QED
    BY <2>1, <2>2
<1> QED
  BY <1>1, <1>2 DEF onScaleEvent, STypeOK, Deleting

(* recordCooldown: the rule's name is in the map with the time of now, every
   other name keeps its time. *)
LEMMA Recorded ==
  ASSUME SInv, NEW c \in Capsules, NEW r \in AllRules, recordCooldown(c, r)
  PROVE  /\ cooldowns' \in [Capsules -> UNION {[D -> 0..now] : D \in SUBSET RuleNames}]
         /\ DOMAIN cooldowns'[c] = DOMAIN cooldowns[c] \cup {r.name}
         /\ cooldowns'[c][r.name] = now
         /\ \A x \in DOMAIN cooldowns[c] : x # r.name => cooldowns'[c][x] = cooldowns[c][x]
         /\ \A k \in Capsules : k # c => cooldowns'[k] = cooldowns[k]
<1> USE DEF SInv
<1> DEFINE new == [x \in DOMAIN cooldowns[c] \cup {r.name} |->
                     IF x = r.name THEN now ELSE cooldowns[c][x]]
<1>1. cooldowns' = [cooldowns EXCEPT ![c] = new]
  BY DEF recordCooldown
<1>2. r.name \in RuleNames
  BY DEF RuleNames
<1>3. now \in 0..now
  BY DEF STypeOK
<1>4. new \in [DOMAIN cooldowns[c] \cup {r.name} -> 0..now]
  BY <1>3, CooldownsOf
<1>5. DOMAIN cooldowns[c] \cup {r.name} \in SUBSET RuleNames
  BY <1>2, CooldownsOf
<1>6. new \in UNION {[D -> 0..now] : D \in SUBSET RuleNames}
  BY <1>4, <1>5
<1>7. DOMAIN cooldowns = Capsules
  BY DEF STypeOK
<1>8. cooldowns'[c] = new /\ \A k \in Capsules : k # c => cooldowns'[k] = cooldowns[k]
  BY <1>1, <1>7
<1>9. cooldowns' \in [Capsules -> UNION {[D -> 0..now] : D \in SUBSET RuleNames}]
  <2> HIDE DEF new
  <2> QED
    BY <1>1, <1>6 DEF STypeOK
<1> QED
  BY <1>8, <1>9

(* A rule that fires is not in cooldown: what the log has of it in this life
   of the capsule is at least its cooldown old. *)
LEMMA FiresLate ==
  ASSUME SInv, NEW c \in Capsules, NEW r \in AllRules, ~isInCooldown(c, r),
         NEW i \in DOMAIN log, log[i].capsule = c, log[i].life = life[c],
         log[i].rule.name = r.name
  PROVE  now >= log[i].at + r.cooldown
<1>1. log[i] \in Event /\ Kept(log[i])
  BY DEF SInv, STypeOK, Memory
<1>2. log[i].at <= now /\ log[i].at \in Nat /\ now \in Nat /\ r.cooldown \in Int
  BY <1>1, RulesAssumption, ScalingAssumption DEF Kept, Event, SInv, STypeOK
<1>3. r.name \in DOMAIN cooldowns[c] /\ log[i].at <= cooldowns[c][r.name]
  BY <1>1 DEF Kept
<1>4. cooldowns[c][r.name] \in 0..now
  BY <1>3, CooldownsOf DEF SInv
<1>5. CASE r.cooldown = 0
  BY <1>2, <1>5
<1>6. CASE r.cooldown # 0
  <2>1. ~(now < cooldowns[c][r.name] + r.cooldown)
    BY <1>3, <1>6 DEF isInCooldown
  <2> QED
    BY <1>2, <1>3, <1>4, <2>1
<1> QED
  BY <1>5, <1>6

(* One more event at the end of the log. *)
LEMMA Fired ==
  ASSUME SInv, NEW c \in Capsules, NEW r \in AllRules,
         ~isInCooldown(c, r), recordCooldown(c, r), Len(log) < MaxFires,
         log' = Append(log, [capsule |-> c, rule |-> r, at |-> now, life |-> life[c]]),
         UNCHANGED <<now, life>>
  PROVE  /\ log' \in Seq(Event) /\ Len(log') <= MaxFires
         /\ Memory' /\ CooldownRespected'
<1> DEFINE e == [capsule |-> c, rule |-> r, at |-> now, life |-> life[c]]
<1>1. e \in Event /\ log \in Seq(Event) /\ now \in 0..now /\ Len(log) \in Nat
  BY DEF SInv, STypeOK, Event
<1>2. log' = Append(log, e)
  OBVIOUS
<1>e. e.capsule = c /\ e.rule = r /\ e.at = now /\ e.life = life[c]
  OBVIOUS
<1> HIDE DEF e
<1>3. /\ log' \in Seq(Event) /\ Len(log') = Len(log) + 1
      /\ DOMAIN log' = 1..(Len(log) + 1) /\ DOMAIN log = 1..Len(log)
      /\ log'[Len(log) + 1] = e
      /\ \A i \in DOMAIN log : log'[i] = log[i]
  BY <1>1, <1>2
<1>4. Len(log') <= MaxFires
  BY <1>1, <1>3, ScalingAssumption
<1>5. ASSUME NEW i \in DOMAIN log' PROVE i \in DOMAIN log \/ i = Len(log) + 1
  BY <1>1, <1>3
<1>6. Memory'
  <2> SUFFICES ASSUME NEW i \in DOMAIN log' PROVE Kept(log[i])'
    BY DEF Memory
  <2>1. CASE i = Len(log) + 1
    <3>1. log'[i] = e
      BY <1>3, <2>1
    <3>2. now <= now /\ life[c] <= life[c]
      BY <1>1 DEF SInv, STypeOK
    <3> QED
      BY <1>e, <3>1, <3>2, Recorded DEF Kept
  <2>2. CASE i \in DOMAIN log
    <3>1. log'[i] = log[i] /\ log[i] \in Event /\ Kept(log[i])
      BY <1>1, <1>3, <2>2 DEF SInv, Memory
    <3>2. CASE log[i].capsule # c
      BY <3>1, <3>2, Recorded DEF Kept, Event
    <3>3. CASE log[i].capsule = c /\ log[i].rule.name = r.name
      BY <3>1, <3>3, Recorded DEF Kept
    <3>4. CASE log[i].capsule = c /\ log[i].rule.name # r.name
      BY <3>1, <3>4, Recorded DEF Kept
    <3> QED
      BY <3>2, <3>3, <3>4
  <2> QED
    BY <1>5, <2>1, <2>2
<1>7. CooldownRespected'
  <2> SUFFICES ASSUME NEW i \in DOMAIN log', NEW j \in DOMAIN log', i < j,
                      log'[i].capsule = log'[j].capsule, log'[i].life = log'[j].life,
                      log'[i].rule.name = log'[j].rule.name
               PROVE  log'[j].at >= log'[i].at + log'[j].rule.cooldown
    BY DEF CooldownRespected
  <2>1. i \in DOMAIN log
    BY <1>1, <1>3
  <2>2. CASE j \in DOMAIN log
    BY <1>3, <2>1, <2>2 DEF SInv, CooldownRespected
  <2>3. CASE j = Len(log) + 1
    <3>1. log'[j] = e /\ log'[i] = log[i]
      BY <1>3, <2>1, <2>3
    <3> QED
      BY <1>e, <2>1, <3>1, FiresLate
  <2> QED
    BY <1>5, <2>2, <2>3
<1> QED
  BY <1>3, <1>4, <1>6, <1>7

(* One capsule of a snapshot. *)
LEMMA EvaluateInv ==
  ASSUME SInv, Evaluate
  PROVE  SInv'
<1>u. UNCHANGED <<now, slots, rules, usage, asked, deleting, life>>
  BY DEF Evaluate
<1> DEFINE c(b) == b.capsule
           f(b) == IF usage[c(b)] = Unset THEN {} ELSE Fires(c(b), b.rules)
           r(b) == b.rules[Min(f(b))]
<1> HIDE DEF f
<1>1. PICK b \in batch :
        /\ batch' = batch \ {b}
        /\ IF f(b) = {}
           THEN UNCHANGED <<cooldowns, pending, log>>
           ELSE /\ recordCooldown(c(b), r(b))
                /\ pending' = [capsule |-> c(b), rule |-> r(b)]
                /\ log' = Append(log, [capsule |-> c(b), rule |-> r(b), at |-> now,
                                       life |-> life[c(b)]])
  BY Zenon DEF Evaluate, f
<1>2. b.capsule \in Capsules /\ b.rules \in RuleLists
  BY <1>1 DEF SInv, STypeOK
<1>3. Deleting'
  BY <1>u DEF Deleting, SInv
<1>4. CASE f(b) = {}
  <2>1. UNCHANGED <<cooldowns, pending, log>> /\ batch' \subseteq batch
    BY <1>1, <1>4
  <2>2. Memory' /\ CooldownRespected'
    BY <1>u, <2>1, LogKept DEF SInv
  <2>3. STypeOK'
    BY <1>u, <2>1 DEF SInv, STypeOK
  <2> QED
    BY <1>3, <2>2, <2>3 DEF SInv
<1>5. CASE f(b) # {}
  <2>1. b.rules \in Seq(AllRules)
    BY <1>2, RulesAssumption
  <2>2. f(b) \subseteq DOMAIN b.rules
    BY DEF f, Fires
  <2>3. f(b) \in SUBSET Nat
    BY <2>1, <2>2
  <2>4. Min(f(b)) \in f(b)
    BY <1>5, <2>3, MinIn
  <2>5. r(b) \in AllRules
    BY <2>1, <2>2, <2>4
  <2>6. ~isInCooldown(c(b), r(b))
    BY <2>4 DEF f, Fires
  <2>7. /\ recordCooldown(c(b), r(b))
        /\ pending' = [capsule |-> c(b), rule |-> r(b)]
        /\ log' = Append(log, [capsule |-> c(b), rule |-> r(b), at |-> now,
                               life |-> life[c(b)]])
    BY <1>1, <1>5
  <2>c. c(b) \in Capsules /\ Len(log) < MaxFires
    BY <1>2 DEF Evaluate
  <2> HIDE DEF r, c
  <2>8. /\ log' \in Seq(Event) /\ Len(log') <= MaxFires
        /\ Memory' /\ CooldownRespected'
    BY <1>u, <2>5, <2>6, <2>7, <2>c, Fired
  <2>9. cooldowns' \in [Capsules -> UNION {[D -> 0..now] : D \in SUBSET RuleNames}]
    BY <2>5, <2>7, <2>c, Recorded
  <2>10. pending' \in [capsule : Capsules, rule : AllRules]
    BY <2>5, <2>7, <2>c
  <2>11. STypeOK'
    BY <1>1, <1>u, <2>8, <2>9, <2>10 DEF SInv, STypeOK
  <2> QED
    BY <1>3, <2>8, <2>11 DEF SInv
<1> QED
  BY <1>4, <1>5

LEMMA SStepInv == SInv /\ [SNext]_svars => SInv'
<1> SUFFICES ASSUME SInv, [SNext]_svars PROVE SInv'
  OBVIOUS
<1>1. ASSUME NEW c \in Capsules,
             \/ ReceiveCapsule(c) \/ CreateCapsule(c) \/ DeleteCapsule(c)
             \/ RegisterStats(c) \/ ReadStats(c) \/ UnregisterStats(c)
      PROVE  SInv'
  BY <1>1, CapsuleInv
<1>2. ASSUME NEW c \in Capsules, Unregister(c) PROVE SInv'
  BY <1>2, UnregisterInv
<1>3. CASE Tick
  BY <1>3, TickInv
<1>4. CASE Snapshot
  BY <1>4, SnapshotInv
<1>5. CASE Evaluate
  BY <1>5, EvaluateInv
<1>6. CASE onScaleEvent
  BY <1>6, HandlerInv
<1>7. CASE UNCHANGED svars
  BY <1>7 DEF svars, SInv, STypeOK, Deleting, Memory, Kept, CooldownRespected
<1> QED
  BY <1>1, <1>2, <1>3, <1>4, <1>5, <1>6, <1>7 DEF SNext

-----------------------------------------------------------------------------
(* The scaling monitor and the handler of its events keep their variables in
   their types, whatever capsules, rules and statistics come. *)
THEOREM ScalingTypeCorrect == SSpec => []STypeOK
<1>1. SInv => STypeOK
  BY DEF SInv
<1> QED
  BY <1>1, SInitInv, SStepInv, PTL DEF SSpec

(* No rule of a capsule fires again within its cooldown until the capsule is
   unregistered (isInCooldown, recordCooldown, Unregister and evaluate of the
   monitor), for any lists of rules, two rules of one name included. *)
THEOREM CooldownKept == SSpec => []CooldownRespected
<1>1. SInv => CooldownRespected
  BY DEF SInv
<1> QED
  BY <1>1, SInitInv, SStepInv, PTL DEF SSpec

-----------------------------------------------------------------------------
(* The runtime handler. *)

(* A watcher on its way to a local restart has one left. *)
Restarting == \A w \in DOMAIN watch : watch[w].pc = "restart" => watch[w].left > 0

(* With a health check, a watcher that is not cancelled has probes left: the
   last of them cancels it. *)
Probing == \A w \in DOMAIN watch :
             Retries > 0 /\ watch[w].live => watch[w].probes < Retries

(* Someone answers for the replica: a thread that has not reported yet, a
   rolling update between the cancel of the old watcher and the new one, or a
   watcher that has something to do or polls on. *)
Starting == \E i \in DOMAIN job :
              job[i].pc \notin {"checkpoint", "record", "restart", "done"}
Replacing == roll \in {"cancel", "stopOld", "removeOld", "mark", "watch"}
Watched == \E w \in DOMAIN watch :
             \/ watch[w].pc \in {"restart", "report"}
             \/ watch[w].pc = "poll" /\ watch[w].live
Attended ==
  up /\ stop = "idle" /\ job # <<>>
  => report = "failed" \/ Starting \/ Replacing \/ Watched

(* Nothing has failed, nothing was stopped, there is at most one win. *)
Calm == up /\ faults = 0 /\ stop = "idle" /\ Len(job) <= 1

(* The new container of a calm rolling update never goes back. *)
NewContainer ==
  /\ roll \notin {"remove", "undoStop", "undoRemove"}
  /\ cont["new"] \in {"none", "created", "running"}
  /\ cont["new"] = "created" => roll = "start"
  /\ roll = "start" => cont["new"] # "none"
  /\ roll \in {"wait", "cancel", "stopOld", "removeOld", "mark", "watch"}
     => cont["new"] = "running"

(* Before the first win there is nothing. *)
Before == Len(job) = 0 => cont["cur"] = "none" /\ snap = <<>> /\ \A t \in Tags : file[t] = "none"

(* What the only win j has made of the replica's own container, and of its
   snapshot, at each of its steps, until the update's container runs. *)
CurContainer(j) ==
  /\ j.pc \in {"spec", "find", "query", "fetch", "fetchAny", "restore", "image", "create"}
     => cont["cur"] = "none"
  /\ j.pc \in {"start", "record", "restart"} => cont["cur"] # "none"
  /\ j.pc # "remove"
  /\ j.pc \in {"use", "mark", "watch", "checkpoint"} => cont["cur"] = "running"
  /\ j.pc = "done" /\ j.out = "running" => cont["cur"] = "running"

SnapshotOf(j) ==
  /\ j.pc = "spec" => snap = <<>>
  /\ j.pc \in {"spec", "find", "query", "image", "create", "start", "checkpoint"}
     => file[j.tag] = "none"
  /\ j.pc \in {"fetch", "fetchAny"} => file[j.tag] = "part"
  /\ j.pc = "restore" => file[j.tag] = "dir"
  /\ j.pc \in {"mark", "watch"} /\ j.cold => file[j.tag] = "none"
  /\ j.pc \in {"spec", "find", "query", "fetch", "fetchAny", "restore", "use", "image",
               "create", "start"} => ~j.cold

OnlyWin == cont["new"] # "running" /\ Len(job) = 1 => CurContainer(job[1]) /\ SnapshotOf(job[1])

Undisturbed == Calm => NewContainer /\ Before /\ OnlyWin

RInv == TypeOK /\ Restarting /\ Probing /\ Attended /\ Undisturbed

-----------------------------------------------------------------------------
(* One element of a sequence is replaced. *)
LEMMA Replaced ==
  ASSUME NEW S, NEW s \in Seq(S), NEW i \in DOMAIN s, NEW e \in S,
         NEW d, d = [s EXCEPT ![i] = e]
  PROVE  /\ d \in Seq(S) /\ Len(d) = Len(s) /\ DOMAIN d = DOMAIN s
         /\ d[i] = e /\ \A k \in DOMAIN s : k # i => d[k] = s[k]
<1>1. DOMAIN d = DOMAIN s /\ d[i] = e /\ \A k \in DOMAIN s : k # i => d[k] = s[k]
  OBVIOUS
<1>2. d \in Seq(S) /\ Len(d) = Len(s)
  OBVIOUS
<1> QED
  BY <1>1, <1>2

(* One element is added at the end. *)
LEMMA Extended ==
  ASSUME NEW S, NEW s \in Seq(S), NEW e \in S, NEW d, d = Append(s, e)
  PROVE  /\ d \in Seq(S) /\ Len(d) = Len(s) + 1 /\ Len(s) \in Nat
         /\ DOMAIN s = 1 .. Len(s) /\ DOMAIN d = 1 .. Len(s) + 1
         /\ d[Len(s) + 1] = e /\ \A k \in DOMAIN s : d[k] = s[k]
  OBVIOUS

LEMMA OnlyOne ==
  ASSUME NEW n \in Nat, n <= 1, NEW i \in 1 .. n
  PROVE  i = 1 /\ n = 1
  OBVIOUS

(* The record of a thread with another step. *)
LEMMA Stepped ==
  ASSUME NEW j \in Job, NEW p \in JobSteps, NEW r, r = [j EXCEPT !.pc = p]
  PROVE  /\ r \in Job /\ r.pc = p /\ r.tag = j.tag /\ r.cold = j.cold
         /\ r.from = j.from /\ r.tried = j.tried /\ r.out = j.out
  BY DEF Job

LEMMA JobTypes ==
  ASSUME TypeOK, NEW i \in DOMAIN job
  PROVE  /\ job[i] \in Job /\ job[i].pc \in JobSteps /\ job[i].tag \in Tags
         /\ job[i].cold \in BOOLEAN
<1>1. job[i] \in Job
  BY DEF TypeOK
<1> QED
  BY <1>1 DEF Job

LEMMA WatchTypes ==
  ASSUME TypeOK, NEW w \in DOMAIN watch
  PROVE  /\ watch[w] \in Watcher /\ watch[w].c \in Names /\ watch[w].live \in BOOLEAN
         /\ watch[w].left \in 0 .. RestartLimit /\ watch[w].probes \in 0 .. Retries
         /\ watch[w].pc \in {"poll", "restart", "report", "done"}
<1>1. watch[w] \in Watcher
  BY DEF TypeOK
<1> QED
  BY <1>1 DEF Watcher

(* What the type invariant says of the snapshot store. *)
StoreOK == /\ snap \in Seq(Row)
           /\ \A i, j \in DOMAIN snap : snap[i].tag = snap[j].tag => i = j

-----------------------------------------------------------------------------
(* A step of thread i that leaves the watchers alone. *)
LEMMA JobFrame ==
  ASSUME RInv, NEW i \in DOMAIN job, NEW r \in Job, job' = [job EXCEPT ![i] = r],
         UNCHANGED <<Watchers, roll, stop, up, remote, index, ops>>,
         cont' \in [Names -> ContainerStates], StoreOK',
         file' \in [Tags -> {"none", "file", "part", "dir"}],
         faults' \in 0 .. MaxFaults, report' \in {Nil, "running", "failed", "stopped"}
  PROVE  TypeOK' /\ Restarting' /\ Probing'
<1>1. job \in Seq(Job)
  BY DEF RInv, TypeOK
<1>2. job' \in Seq(Job)
  BY <1>1, Replaced
<1>3. UNCHANGED <<watch, running, stats>>
  BY DEF Watchers
<1>4. TypeOK'
  BY <1>2, <1>3 DEF RInv, TypeOK, StoreOK
<1>5. Restarting' /\ Probing'
  BY <1>3 DEF RInv, Restarting, Probing
<1> QED
  BY <1>4, <1>5

Late == {"checkpoint", "record", "restart", "done"}

(* A thread goes on, reports a failure, or was past its report already. *)
LEMMA JobAttended ==
  ASSUME RInv, NEW i \in DOMAIN job, NEW r \in Job, job' = [job EXCEPT ![i] = r],
         UNCHANGED <<watch, roll, stop, up>>,
         \/ report' = "failed"
         \/ r.pc \notin Late
         \/ job[i].pc \in Late /\ UNCHANGED report
  PROVE  Attended'
<1>1. job \in Seq(Job)
  BY DEF RInv, TypeOK
<1>2. /\ DOMAIN job' = DOMAIN job /\ job'[i] = r
      /\ \A k \in DOMAIN job : k # i => job'[k] = job[k]
  BY <1>1, Replaced
<1>3. CASE report' = "failed"
  BY <1>3 DEF Attended
<1>4. CASE r.pc \notin Late
  BY <1>2, <1>4 DEF Attended, Starting, Late
<1>5. CASE job[i].pc \in Late /\ UNCHANGED report
  <2> SUFFICES ASSUME up', stop' = "idle" PROVE report' = "failed" \/ Starting' \/ Replacing' \/ Watched'
    BY DEF Attended
  <2>1. job # <<>>
    OBVIOUS
  <2>2. report = "failed" \/ Starting \/ Replacing \/ Watched
    BY <2>1 DEF RInv, Attended
  <2>3. CASE Starting
    BY <1>2, <1>5, <2>3 DEF Starting, Late
  <2>4. CASE report = "failed" \/ Replacing \/ Watched
    BY <1>5, <2>4 DEF Replacing, Watched
  <2> QED
    BY <2>2, <2>3, <2>4
<1> QED
  BY <1>3, <1>4, <1>5

(* A calm step of the only thread. *)
LEMMA JobUndisturbed ==
  ASSUME RInv, NEW i \in DOMAIN job, NEW r \in Job, job' = [job EXCEPT ![i] = r],
         UNCHANGED <<roll, stop, up>>,
         faults' = 0 => faults = 0,
         cont'["new"] = cont["new"],
         Calm /\ faults' = 0 /\ CurContainer(job[i]) /\ SnapshotOf(job[i])
         => CurContainer(r)' /\ SnapshotOf(r)'
  PROVE  Undisturbed'
<1>1. job \in Seq(Job)
  BY DEF RInv, TypeOK
<1>2. Len(job') = Len(job) /\ job'[i] = r
  BY <1>1, Replaced
<1> SUFFICES ASSUME Calm' PROVE NewContainer' /\ Before' /\ OnlyWin'
  BY DEF Undisturbed
<1>3. Calm /\ faults' = 0
  BY <1>2 DEF Calm
<1>4. i = 1 /\ Len(job) = 1
  <2>1. Len(job) <= 1
    BY <1>3 DEF Calm
  <2>2. i \in 1 .. Len(job) /\ Len(job) \in Nat
    BY <1>1
  <2> QED
    BY <2>1, <2>2, OnlyOne
<1>5. NewContainer /\ OnlyWin
  BY <1>3 DEF RInv, Undisturbed
<1>6. NewContainer'
  BY <1>5 DEF NewContainer
<1>7. Before'
  BY <1>2, <1>4 DEF Before
<1>8. OnlyWin'
  <2> SUFFICES ASSUME cont["new"] # "running" PROVE CurContainer(r)' /\ SnapshotOf(r)'
    BY <1>2, <1>4 DEF OnlyWin
  <2> QED
    BY <1>3, <1>4, <1>5 DEF OnlyWin
<1> QED
  BY <1>6, <1>7, <1>8

(* The three together. *)
LEMMA JobStep ==
  ASSUME RInv, NEW i \in DOMAIN job, NEW r \in Job, job' = [job EXCEPT ![i] = r],
         UNCHANGED <<Watchers, roll, stop, up, remote, index, ops>>,
         cont' \in [Names -> ContainerStates], cont'["new"] = cont["new"],
         StoreOK', file' \in [Tags -> {"none", "file", "part", "dir"}],
         faults' \in 0 .. MaxFaults, faults' = 0 => faults = 0,
         report' \in {Nil, "running", "failed", "stopped"},
         \/ report' = "failed"
         \/ r.pc \notin Late
         \/ job[i].pc \in Late /\ UNCHANGED report,
         Calm /\ faults' = 0 /\ CurContainer(job[i]) /\ SnapshotOf(job[i])
         => CurContainer(r)' /\ SnapshotOf(r)'
  PROVE  RInv'
<1>1. TypeOK' /\ Restarting' /\ Probing'
  BY JobFrame
<1>2. UNCHANGED <<watch, roll, stop, up>>
  BY DEF Watchers
<1>3. Attended'
  BY <1>2, JobAttended
<1>4. Undisturbed'
  BY <1>2, JobUndisturbed
<1> QED
  BY <1>1, <1>3, <1>4 DEF RInv

(* The faults that calls count; a calm call does not fail. *)
LEMMA Counted ==
  ASSUME TypeOK, Works \/ Fails \/ Fault
  PROVE  faults' \in 0 .. MaxFaults /\ (faults' = 0 => faults = 0)
<1>1. faults \in 0 .. MaxFaults /\ MaxFaults \in Nat
  BY RuntimeAssumption DEF TypeOK
<1>2. UNCHANGED faults \/ (faults < MaxFaults /\ faults' = faults + 1)
  BY Zenon DEF Works, Fails, Fault
<1> QED
  BY <1>1, <1>2

LEMMA CalmWorks ==
  ASSUME TypeOK, Calm, Fails \/ Fault
  PROVE  faults' # 0
<1>1. faults \in Nat /\ up
  BY DEF TypeOK, Calm
<1>2. faults' = faults + 1
  BY <1>1, Zenon DEF Fails, Fault
<1> QED
  BY <1>1, <1>2

LEMMA StoreKept ==
  ASSUME TypeOK
  PROVE  UNCHANGED snap => StoreOK'
  BY DEF TypeOK, StoreOK

LEMMA SetTypes ==
  ASSUME TypeOK, NEW c \in Names, NEW s \in ContainerStates, Set(c, s)
  PROVE  /\ cont' \in [Names -> ContainerStates] /\ cont'[c] = s
         /\ \A d \in Names : d # c => cont'[d] = cont[d]
  BY DEF TypeOK, Set

(* MarkFailed ends a thread. *)
LEMMA GaveUp ==
  ASSUME RInv, NEW i \in DOMAIN job, GiveUp(i),
         UNCHANGED <<Watchers, roll, stop, up, Snapshots, ops>>,
         cont' \in [Names -> ContainerStates], cont'["new"] = cont["new"],
         faults' \in 0 .. MaxFaults, faults' = 0 => faults = 0
  PROVE  RInv'
<1>1. TypeOK /\ job[i] \in Job
  BY JobTypes DEF RInv
<1>2. PICK r : r = [job[i] EXCEPT !.pc = "done", !.out = "failed"]
  OBVIOUS
<1>3. r \in Job /\ r.pc = "done" /\ r.out = "failed"
  BY <1>1, <1>2 DEF Job, JobSteps
<1>4. job' = [job EXCEPT ![i] = r] /\ report' = "failed"
  BY <1>2 DEF GiveUp, Outcome, Notify
<1>5. UNCHANGED <<snap, file, remote, index>>
  BY DEF Snapshots
<1>6. StoreOK' /\ file' \in [Tags -> {"none", "file", "part", "dir"}]
  BY <1>1, <1>5, StoreKept DEF TypeOK
<1>7. CurContainer(r)' /\ SnapshotOf(r)'
  BY <1>3 DEF CurContainer, SnapshotOf
<1>8. UNCHANGED <<Watchers, roll, stop, up, remote, index, ops>>
  BY <1>5
<1> QED
  BY <1>3, <1>4, <1>6, <1>7, <1>8, JobStep

(* A thread goes to another step and leaves the store, and the outcome. *)
LEMMA Moved ==
  ASSUME RInv, NEW i \in DOMAIN job, NEW p \in JobSteps, Step(i, p),
         p \notin Late \/ job[i].pc \in Late,
         UNCHANGED <<Watchers, roll, stop, up, Snapshots, ops, report>>,
         cont' \in [Names -> ContainerStates], cont'["new"] = cont["new"],
         faults' \in 0 .. MaxFaults, faults' = 0 => faults = 0,
         \A r : /\ r.pc = p /\ r.tag = job[i].tag /\ r.cold = job[i].cold
                /\ r.out = job[i].out
                /\ Calm /\ faults' = 0 /\ CurContainer(job[i]) /\ SnapshotOf(job[i])
                => CurContainer(r)' /\ SnapshotOf(r)'
  PROVE  RInv'
<1>1. TypeOK /\ job[i] \in Job
  BY JobTypes DEF RInv
<1>2. PICK r : r = [job[i] EXCEPT !.pc = p]
  OBVIOUS
<1>3. /\ r \in Job /\ r.pc = p /\ r.tag = job[i].tag /\ r.cold = job[i].cold
      /\ r.out = job[i].out
  BY <1>1, <1>2, Stepped
<1>4. job' = [job EXCEPT ![i] = r]
  BY <1>2 DEF Step
<1>5. UNCHANGED <<snap, file, remote, index>>
  BY DEF Snapshots
<1>6. StoreOK' /\ file' \in [Tags -> {"none", "file", "part", "dir"}]
  BY <1>1, <1>5, StoreKept DEF TypeOK
<1>7. Calm /\ faults' = 0 /\ CurContainer(job[i]) /\ SnapshotOf(job[i])
      => CurContainer(r)' /\ SnapshotOf(r)'
  BY <1>3
<1>8. UNCHANGED <<Watchers, roll, stop, up, remote, index, ops, report>>
  BY <1>5
<1>9. report' \in {Nil, "running", "failed", "stopped"}
  BY <1>1, <1>8 DEF TypeOK
<1> QED
  BY <1>3, <1>4, <1>6, <1>7, <1>8, <1>9, JobStep

-----------------------------------------------------------------------------
LEMMA StartContainerInv ==
  ASSUME RInv, NEW i \in DOMAIN job, StartContainer(i)
  PROVE  RInv'
<1>1. TypeOK /\ job[i] \in Job /\ job[i].pc = "spec"
  BY JobTypes DEF RInv, StartContainer, At
<1>2. UNCHANGED <<cont, Watchers, roll, stop, up, Snapshots, ops>>
  BY DEF StartContainer
<1>3. cont' \in [Names -> ContainerStates] /\ cont'["new"] = cont["new"]
  BY <1>1, <1>2 DEF TypeOK
<1>4. CASE Fault /\ GiveUp(i)
  BY <1>1, <1>2, <1>3, <1>4, Counted, GaveUp
<1>5. CASE UNCHANGED <<faults, report>>
           /\ Step(i, IF HasLocal(job[i].tag) THEN "restore" ELSE "find")
  <2>1. PICK p : p = IF HasLocal(job[i].tag) THEN "restore" ELSE "find"
    OBVIOUS
  <2>2. p \in JobSteps /\ p \notin Late /\ Step(i, p)
    BY <1>5, <2>1 DEF JobSteps, Late
  <2>3. faults' \in 0 .. MaxFaults /\ (faults' = 0 => faults = 0)
    BY <1>1, <1>5 DEF TypeOK
  <2>4. ASSUME NEW r, r.pc = p, r.tag = job[i].tag, r.cold = job[i].cold,
               CurContainer(job[i]), SnapshotOf(job[i])
        PROVE  CurContainer(r)' /\ SnapshotOf(r)'
    <3>1. snap = <<>> /\ file[job[i].tag] = "none" /\ cont["cur"] = "none" /\ ~job[i].cold
      BY <1>1, <2>4 DEF CurContainer, SnapshotOf
    <3>2. ~HasLocal(job[i].tag)
      BY <3>1 DEF HasLocal, Rows
    <3>3. p = "find"
      BY <2>1, <3>2
    <3>4. UNCHANGED <<cont, snap, file>>
      BY <1>2 DEF Snapshots
    <3> QED
      BY <2>4, <3>1, <3>3, <3>4 DEF CurContainer, SnapshotOf
  <2> QED
    BY <1>2, <1>3, <1>5, <2>2, <2>3, <2>4, Moved
<1> QED
  BY <1>4, <1>5 DEF StartContainer

-----------------------------------------------------------------------------
(* A DELETE leaves rows of different tags. *)
LEMMA LeftRows ==
  ASSUME TypeOK, NEW K \in SUBSET (DOMAIN snap), NEW f \in InOrder(K)
  PROVE  /\ Left(f) \in Seq(Row) /\ DOMAIN Left(f) = DOMAIN f
         /\ \A j \in DOMAIN f : f[j] \in K /\ Left(f)[j] = snap[f[j]]
         /\ \A i, j \in DOMAIN f : snap[f[i]].tag = snap[f[j]].tag => i = j
<1>1. snap \in Seq(Row) /\ Len(snap) \in Nat /\ DOMAIN snap = 1 .. Len(snap)
  BY DEF TypeOK
<1>2. IsFiniteSet(K)
  <2>1. IsFiniteSet(1 .. Len(snap))
    BY <1>1, FS_Interval
  <2> QED
    BY <1>1, <2>1, FS_Subset
<1>3. Cardinality(K) \in Nat
  BY <1>2, FS_CardinalityType
<1>4. PICK n \in Nat : n = Cardinality(K)
  BY <1>3
<1>5. f \in [1 .. n -> K] /\ \A i, j \in 1 .. n : i < j => f[i] < f[j]
  BY <1>4 DEF InOrder
<1>6. DOMAIN f = 1 .. n /\ \A j \in DOMAIN f : f[j] \in K /\ f[j] \in Nat /\ snap[f[j]] \in Row
  BY <1>1, <1>5
<1>7. Left(f) \in [1 .. n -> Row]
  BY <1>6 DEF Left
<1>8. Left(f) \in Seq(Row)
  BY <1>4, <1>7
<1>9. DOMAIN Left(f) = DOMAIN f /\ \A j \in DOMAIN f : Left(f)[j] = snap[f[j]]
  BY DEF Left
<1>10. ASSUME NEW i \in DOMAIN f, NEW j \in DOMAIN f, snap[f[i]].tag = snap[f[j]].tag
       PROVE  i = j
  <2>1. f[i] = f[j]
    BY <1>6, <1>10 DEF TypeOK
  <2>2. i \in Nat /\ j \in Nat /\ f[i] \in Nat /\ f[j] \in Nat
    BY <1>6
  <2>3. ~(i < j) /\ ~(j < i)
    BY <1>5, <1>6, <2>1, <2>2
  <2> QED
    BY <2>2, <2>3
<1> QED
  BY <1>6, <1>8, <1>9, <1>10

(* Put keeps one row for each tag. *)
LEMMA PutRows ==
  ASSUME TypeOK, NEW t \in Tags, Put(t)
  PROVE  StoreOK'
<1> DEFINE K == DOMAIN snap \ Rows(t)
<1>1. PICK f \in InOrder(K) : snap' = Append(Left(f), Fresh(t))
  BY DEF Put
<1>2. /\ Left(f) \in Seq(Row) /\ DOMAIN Left(f) = DOMAIN f
      /\ \A j \in DOMAIN f : f[j] \in K /\ Left(f)[j] = snap[f[j]]
      /\ \A i, j \in DOMAIN f : snap[f[i]].tag = snap[f[j]].tag => i = j
  BY LeftRows
<1>3. Fresh(t) \in Row /\ Fresh(t).tag = t
  BY DEF Fresh, Row
<1>4. PICK s : s = Left(f)
  OBVIOUS
<1>5. PICK e : e = Fresh(t)
  OBVIOUS
<1>6. s \in Seq(Row) /\ e \in Row /\ snap' = Append(s, e)
  BY <1>1, <1>2, <1>3, <1>4, <1>5
<1>7. /\ snap' \in Seq(Row) /\ Len(s) \in Nat
      /\ DOMAIN s = 1 .. Len(s) /\ DOMAIN snap' = 1 .. Len(s) + 1
      /\ snap'[Len(s) + 1] = e /\ \A k \in DOMAIN s : snap'[k] = s[k]
  BY <1>6, Extended
<1>8. \A k \in DOMAIN snap' : k \in DOMAIN s \/ k = Len(s) + 1
  BY <1>7
<1>9. \A k \in DOMAIN s : s[k].tag # t
  BY <1>2, <1>4 DEF Rows
<1>10. \A i, j \in DOMAIN s : s[i].tag = s[j].tag => i = j
  BY <1>2, <1>4
<1>11. ASSUME NEW i \in DOMAIN snap', NEW j \in DOMAIN snap', snap'[i].tag = snap'[j].tag
       PROVE  i = j
  <2>1. CASE i \in DOMAIN s /\ j \in DOMAIN s
    BY <1>7, <1>10, <1>11, <2>1
  <2>2. CASE i \in DOMAIN s /\ j = Len(s) + 1
    BY <1>3, <1>5, <1>7, <1>9, <1>11, <2>2
  <2>3. CASE i = Len(s) + 1 /\ j \in DOMAIN s
    BY <1>3, <1>5, <1>7, <1>9, <1>11, <2>3
  <2> QED
    BY <1>8, <2>1, <2>2, <2>3
<1> QED
  BY <1>7, <1>11 DEF StoreOK

-----------------------------------------------------------------------------
(* A fetch is opened at peer p, or the peer is passed over. *)
LEMMA OpenPullInv ==
  ASSUME RInv, NEW i \in DOMAIN job, job[i].pc \in {"find", "query"}, NEW p \in Peers,
         NEW next \in {"fetch", "fetchAny"}, NEW other \in {"find", "image"},
         OpenPull(i, p, next, other)
  PROVE  RInv'
<1>1. TypeOK /\ job[i] \in Job /\ job[i].tag \in Tags
  BY JobTypes DEF RInv
<1>2. UNCHANGED <<cont, Watchers, roll, stop, up, snap, remote, index, ops, faults, report>>
  BY DEF OpenPull
<1>3. /\ cont' \in [Names -> ContainerStates] /\ cont'["new"] = cont["new"]
      /\ faults' \in 0 .. MaxFaults /\ (faults' = 0 => faults = 0)
      /\ report' \in {Nil, "running", "failed", "stopped"} /\ StoreOK'
  BY <1>1, <1>2, StoreKept DEF TypeOK
<1>4. PICK r : \/ /\ r = [job[i] EXCEPT !.pc = next, !.from = p, !.tried = @ \cup {p}]
                  /\ file' = [file EXCEPT ![job[i].tag] = "part"]
                  /\ job' = [job EXCEPT ![i] = r]
               \/ /\ r = [job[i] EXCEPT !.pc = other, !.tried = @ \cup {p}]
                  /\ UNCHANGED file
                  /\ job' = [job EXCEPT ![i] = r]
  BY DEF OpenPull
<1>5. /\ r \in Job /\ r.tag = job[i].tag /\ r.cold = job[i].cold
      /\ \/ r.pc = next /\ file' = [file EXCEPT ![job[i].tag] = "part"]
         \/ r.pc = other /\ UNCHANGED file
  <2>1. job[i].tried \cup {p} \in SUBSET Peers
    BY <1>1 DEF Job
  <2> QED
    BY <1>1, <1>4, <2>1 DEF Job, JobSteps
<1>6. file' \in [Tags -> {"none", "file", "part", "dir"}] /\ job' = [job EXCEPT ![i] = r]
  BY <1>1, <1>4 DEF TypeOK
<1>7. r.pc \notin Late
  BY <1>5 DEF Late
<1>8. ASSUME CurContainer(job[i]), SnapshotOf(job[i])
      PROVE  CurContainer(r)' /\ SnapshotOf(r)'
  <2>1. file[job[i].tag] = "none" /\ cont["cur"] = "none" /\ ~job[i].cold
    BY <1>8 DEF CurContainer, SnapshotOf
  <2>2. file'[r.tag] = IF r.pc = next THEN "part" ELSE "none"
    BY <1>1, <1>5, <2>1 DEF TypeOK
  <2> QED
    BY <1>2, <1>5, <2>1, <2>2 DEF CurContainer, SnapshotOf
<1>9. UNCHANGED <<Watchers, roll, stop, up, remote, index, ops>>
  BY <1>2
<1> QED
  BY <1>3, <1>5, <1>6, <1>7, <1>8, <1>9, JobStep

LEMMA PullHolderInv ==
  ASSUME RInv, NEW i \in DOMAIN job, PullHolder(i)
  PROVE  RInv'
<1>1. PICK p \in Candidates(i) : OpenPull(i, p, "fetch", "find")
  BY DEF PullHolder
<1> QED
  BY <1>1, OpenPullInv DEF PullHolder, At, Candidates

LEMMA HoldersTriedInv ==
  ASSUME RInv, NEW i \in DOMAIN job, HoldersTried(i)
  PROVE  RInv'
<1>1. TypeOK /\ job[i] \in Job /\ job[i].pc = "find"
  BY JobTypes DEF RInv, HoldersTried, At
<1>2. UNCHANGED <<cont, Watchers, roll, stop, up, Snapshots, ops, faults, report>>
  BY DEF HoldersTried
<1>3. /\ cont' \in [Names -> ContainerStates] /\ cont'["new"] = cont["new"]
      /\ faults' \in 0 .. MaxFaults /\ (faults' = 0 => faults = 0)
  BY <1>1, <1>2 DEF TypeOK
<1>4. "query" \in JobSteps /\ "query" \notin Late /\ Step(i, "query")
  BY DEF HoldersTried, JobSteps, Late
<1>5. ASSUME NEW r, r.pc = "query", r.tag = job[i].tag, r.cold = job[i].cold,
             CurContainer(job[i]), SnapshotOf(job[i])
      PROVE  CurContainer(r)' /\ SnapshotOf(r)'
  BY <1>1, <1>2, <1>5 DEF CurContainer, SnapshotOf, Snapshots
<1> QED
  BY <1>2, <1>3, <1>4, <1>5, Moved

LEMMA QueryFirstResponderInv ==
  ASSUME RInv, NEW i \in DOMAIN job, QueryFirstResponder(i)
  PROVE  RInv'
<1>1. TypeOK /\ job[i] \in Job /\ job[i].pc = "query"
  BY JobTypes DEF RInv, QueryFirstResponder, At
<1>2. CASE \E p \in Peers : OpenPull(i, p, "fetchAny", "image")
  BY <1>1, <1>2, OpenPullInv
<1>3. CASE /\ Works \/ Fails
           /\ Step(i, "image")
           /\ UNCHANGED <<cont, Watchers, roll, stop, up, Snapshots, ops, report>>
  <2>1. /\ cont' \in [Names -> ContainerStates] /\ cont'["new"] = cont["new"]
        /\ faults' \in 0 .. MaxFaults /\ (faults' = 0 => faults = 0)
    BY <1>1, <1>3, Counted DEF TypeOK
  <2>2. "image" \in JobSteps /\ "image" \notin Late
    BY DEF JobSteps, Late
  <2>3. ASSUME NEW r, r.pc = "image", r.tag = job[i].tag, r.cold = job[i].cold,
               CurContainer(job[i]), SnapshotOf(job[i])
        PROVE  CurContainer(r)' /\ SnapshotOf(r)'
    BY <1>1, <1>3, <2>3 DEF CurContainer, SnapshotOf, Snapshots
  <2> QED
    BY <1>3, <2>1, <2>2, <2>3, Moved
<1> QED
  BY <1>2, <1>3 DEF QueryFirstResponder

LEMMA CalmAlone ==
  ASSUME TypeOK, Calm, NEW i \in DOMAIN job
  PROVE  Alone(i)
<1>1. Len(job) <= 1
  BY DEF Calm
<1>2. Len(job) \in Nat /\ DOMAIN job = 1 .. Len(job)
  BY DEF TypeOK
<1>3. \A j \in DOMAIN job : j = 1
  BY <1>1, <1>2, OnlyOne
<1>4. \A j \in DOMAIN job : j = i
  BY <1>3
<1> QED
  BY <1>4 DEF Alone

LEMMA FetchSnapshotInv ==
  ASSUME RInv, NEW i \in DOMAIN job, FetchSnapshot(i)
  PROVE  RInv'
<1>1. TypeOK /\ job[i] \in Job /\ job[i].tag \in Tags /\ job[i].pc \in {"fetch", "fetchAny"}
  BY JobTypes DEF RInv, FetchSnapshot, Fetching, At
<1>2. UNCHANGED <<cont, Watchers, roll, stop, up, remote, index, ops, report>>
  BY DEF FetchSnapshot
<1>3. /\ cont' \in [Names -> ContainerStates] /\ cont'["new"] = cont["new"]
      /\ report' \in {Nil, "running", "failed", "stopped"}
  BY <1>1, <1>2 DEF TypeOK
<1>4. UNCHANGED <<Watchers, roll, stop, up, remote, index, ops>>
  BY <1>2
<1>5. faults' \in 0 .. MaxFaults /\ (faults' = 0 => faults = 0)
  BY <1>1, Counted DEF FetchSnapshot
<1>6. CASE /\ file' = [file EXCEPT ![job[i].tag] =
                         IF @ = "part" /\ Alone(i) THEN "dir" ELSE "part"]
           /\ Put(job[i].tag)
           /\ job' = [job EXCEPT ![i].pc = "restore", ![i].from = Nil]
  <2>1. StoreOK'
    BY <1>1, <1>6, PutRows
  <2>2. PICK r : r = [job[i] EXCEPT !.pc = "restore", !.from = Nil]
    OBVIOUS
  <2>3. r \in Job /\ r.pc = "restore" /\ r.tag = job[i].tag /\ r.cold = job[i].cold
    BY <1>1, <2>2 DEF Job, JobSteps
  <2>4. job' = [job EXCEPT ![i] = r]
    BY <1>6, <2>2
  <2>5. file' \in [Tags -> {"none", "file", "part", "dir"}]
    BY <1>1, <1>6 DEF TypeOK
  <2>6. r.pc \notin Late
    BY <2>3 DEF Late
  <2>7. ASSUME Calm, CurContainer(job[i]), SnapshotOf(job[i])
        PROVE  CurContainer(r)' /\ SnapshotOf(r)'
    <3>1. file[job[i].tag] = "part" /\ cont["cur"] = "none" /\ ~job[i].cold
      BY <1>1, <2>7 DEF CurContainer, SnapshotOf
    <3>2. Alone(i)
      BY <1>1, <2>7, CalmAlone
    <3>3. file'[job[i].tag] = "dir"
      BY <1>1, <1>6, <3>1, <3>2 DEF TypeOK
    <3> QED
      BY <1>2, <2>3, <3>1, <3>3 DEF CurContainer, SnapshotOf
  <2> QED
    BY <1>3, <1>4, <1>5, <2>1, <2>3, <2>4, <2>5, <2>6, <2>7, JobStep
<1>7. CASE /\ file' = [file EXCEPT ![job[i].tag] = "none"]
           /\ job' = [job EXCEPT ![i].pc = IF @ = "fetch" THEN "find" ELSE "image",
                                 ![i].from = Nil]
           /\ UNCHANGED snap
  <2>1. StoreOK'
    BY <1>1, <1>7, StoreKept
  <2>2. PICK p \in {"find", "image"} : p = IF job[i].pc = "fetch" THEN "find" ELSE "image"
    OBVIOUS
  <2>3. PICK r : r = [job[i] EXCEPT !.pc = p, !.from = Nil]
    OBVIOUS
  <2>4. r \in Job /\ r.pc = p /\ r.tag = job[i].tag /\ r.cold = job[i].cold
    BY <1>1, <2>3 DEF Job, JobSteps
  <2>5. job' = [job EXCEPT ![i] = r]
    BY <1>7, <2>2, <2>3
  <2>6. file' \in [Tags -> {"none", "file", "part", "dir"}] /\ file'[job[i].tag] = "none"
    BY <1>1, <1>7 DEF TypeOK
  <2>7. r.pc \notin Late
    BY <2>4 DEF Late
  <2>8. ASSUME CurContainer(job[i]), SnapshotOf(job[i])
        PROVE  CurContainer(r)' /\ SnapshotOf(r)'
    <3>1. cont["cur"] = "none" /\ ~job[i].cold
      BY <1>1, <2>8 DEF CurContainer, SnapshotOf
    <3> QED
      BY <1>2, <2>4, <2>6, <3>1 DEF CurContainer, SnapshotOf
  <2> QED
    BY <1>3, <1>4, <1>5, <2>1, <2>4, <2>5, <2>6, <2>7, <2>8, JobStep
<1> QED
  BY <1>6, <1>7 DEF FetchSnapshot

LEMMA RestoreFromSnapshotInv ==
  ASSUME RInv, NEW i \in DOMAIN job, RestoreFromSnapshot(i)
  PROVE  RInv'
<1>1. TypeOK /\ job[i] \in Job /\ job[i].pc = "restore"
  BY JobTypes DEF RInv, RestoreFromSnapshot, At
<1>2. UNCHANGED <<Watchers, roll, stop, up, Snapshots, ops, report>>
  BY DEF RestoreFromSnapshot
<1>3. faults' \in 0 .. MaxFaults /\ (faults' = 0 => faults = 0)
  BY <1>1, Counted DEF RestoreFromSnapshot, Call
<1>4. CASE Set("cur", "running") /\ Step(i, "use")
  <2>1. cont' \in [Names -> ContainerStates] /\ cont'["cur"] = "running"
        /\ cont'["new"] = cont["new"]
    BY <1>1, <1>4, SetTypes DEF Names, ContainerStates
  <2>2. "use" \in JobSteps /\ "use" \notin Late
    BY DEF JobSteps, Late
  <2>3. ASSUME NEW r, r.pc = "use", r.tag = job[i].tag, r.cold = job[i].cold,
               CurContainer(job[i]), SnapshotOf(job[i])
        PROVE  CurContainer(r)' /\ SnapshotOf(r)'
    BY <1>1, <2>1, <2>3 DEF CurContainer, SnapshotOf
  <2> QED
    BY <1>2, <1>3, <1>4, <2>1, <2>2, <2>3, Moved
<1>5. CASE /\ Step(i, "image") /\ UNCHANGED cont
           /\ Fails \/ ~(CreateOK("cur") /\ Restorable(job[i].tag))
  <2>1. cont' \in [Names -> ContainerStates] /\ cont'["new"] = cont["new"]
    BY <1>1, <1>5 DEF TypeOK
  <2>2. "image" \in JobSteps /\ "image" \notin Late
    BY DEF JobSteps, Late
  <2>3. ASSUME Calm, faults' = 0, CurContainer(job[i]), SnapshotOf(job[i])
        PROVE  FALSE
    <3>1. ~Fails
      BY <1>1, <2>3, CalmWorks
    <3>2. CreateOK("cur") /\ Restorable(job[i].tag)
      BY <1>1, <2>3 DEF CreateOK, Restorable, CurContainer, SnapshotOf
    <3> QED
      BY <1>5, <3>1, <3>2
  <2> QED
    BY <1>2, <1>3, <1>5, <2>1, <2>2, <2>3, Moved
<1> QED
  BY <1>4, <1>5 DEF RestoreFromSnapshot, Call

(* SetInUse and TouchAccess change a row in its place. *)
LEMMA UseRows ==
  ASSUME TypeOK, NEW t \in Tags, UseRow(t)
  PROVE  StoreOK'
<1>1. snap \in Seq(Row) /\ Len(snap) \in Nat /\ DOMAIN snap = 1 .. Len(snap)
  BY DEF TypeOK
<1>2. PICK e : e = [Fresh(t) EXCEPT !.inUse = TRUE]
  OBVIOUS
<1>3. e \in Row /\ e.tag = t
  BY <1>2 DEF Fresh, Row
<1>4. snap' = [k \in DOMAIN snap |-> IF snap[k].tag = t THEN e ELSE snap[k]]
  BY <1>2 DEF UseRow
<1>5. \A k \in DOMAIN snap : snap[k] \in Row
  BY <1>1
<1>6. snap' \in [1 .. Len(snap) -> Row]
  BY <1>1, <1>3, <1>4, <1>5
<1>7. snap' \in Seq(Row)
  BY <1>1, <1>6
<1>8. DOMAIN snap' = DOMAIN snap /\ \A k \in DOMAIN snap : snap'[k].tag = snap[k].tag
  BY <1>3, <1>4
<1> QED
  BY <1>7, <1>8 DEF StoreOK, TypeOK

LEMMA UseSnapshotInv ==
  ASSUME RInv, NEW i \in DOMAIN job, UseSnapshot(i)
  PROVE  RInv'
<1>1. TypeOK /\ job[i] \in Job /\ job[i].tag \in Tags /\ job[i].pc = "use"
  BY JobTypes DEF RInv, UseSnapshot, At
<1>2. UNCHANGED <<cont, Watchers, roll, stop, up, file, remote, index, ops, faults, report>>
  BY DEF UseSnapshot
<1>3. /\ cont' \in [Names -> ContainerStates] /\ cont'["new"] = cont["new"]
      /\ faults' \in 0 .. MaxFaults /\ (faults' = 0 => faults = 0)
      /\ report' \in {Nil, "running", "failed", "stopped"}
      /\ file' \in [Tags -> {"none", "file", "part", "dir"}]
  BY <1>1, <1>2 DEF TypeOK
<1>4. StoreOK'
  BY <1>1, UseRows DEF UseSnapshot
<1>5. PICK r : r = [job[i] EXCEPT !.pc = "mark"]
  OBVIOUS
<1>6. r \in Job /\ r.pc = "mark" /\ r.cold = job[i].cold /\ r.pc \notin Late
  BY <1>1, <1>5, Stepped DEF JobSteps, Late
<1>7. job' = [job EXCEPT ![i] = r]
  BY <1>5 DEF UseSnapshot, Step
<1>8. ASSUME CurContainer(job[i]), SnapshotOf(job[i])
      PROVE  CurContainer(r)' /\ SnapshotOf(r)'
  BY <1>1, <1>2, <1>6, <1>8 DEF CurContainer, SnapshotOf
<1>9. UNCHANGED <<Watchers, roll, stop, up, remote, index, ops>>
  BY <1>2
<1> QED
  BY <1>3, <1>4, <1>6, <1>7, <1>8, <1>9, JobStep

-----------------------------------------------------------------------------
LEMMA ColdPullInv ==
  ASSUME RInv, NEW i \in DOMAIN job, ColdPull(i)
  PROVE  RInv'
<1>1. TypeOK /\ job[i] \in Job /\ job[i].pc = "image"
  BY JobTypes DEF RInv, ColdPull, At
<1>2. UNCHANGED <<cont, Watchers, roll, stop, up, Snapshots, ops>>
  BY DEF ColdPull
<1>3. /\ faults' \in 0 .. MaxFaults /\ (faults' = 0 => faults = 0)
      /\ cont' \in [Names -> ContainerStates] /\ cont'["new"] = cont["new"]
  BY <1>1, <1>2, Counted DEF ColdPull, TypeOK
<1>4. CASE GiveUp(i)
  BY <1>2, <1>3, <1>4, GaveUp
<1>5. CASE Step(i, "create") /\ UNCHANGED report
  <2>1. "create" \in JobSteps /\ "create" \notin Late
    BY DEF JobSteps, Late
  <2>2. ASSUME NEW r, r.pc = "create", r.tag = job[i].tag, r.cold = job[i].cold,
               CurContainer(job[i]), SnapshotOf(job[i])
        PROVE  CurContainer(r)' /\ SnapshotOf(r)'
    BY <1>1, <1>2, <2>2 DEF CurContainer, SnapshotOf, Snapshots
  <2> QED
    BY <1>2, <1>3, <1>5, <2>1, <2>2, Moved
<1> QED
  BY <1>4, <1>5 DEF ColdPull

LEMMA ColdCreateInv ==
  ASSUME RInv, NEW i \in DOMAIN job, ColdCreate(i)
  PROVE  RInv'
<1>1. TypeOK /\ job[i] \in Job /\ job[i].pc = "create"
  BY JobTypes DEF RInv, ColdCreate, At
<1>2. UNCHANGED <<Watchers, roll, stop, up, Snapshots, ops>>
  BY DEF ColdCreate
<1>3. faults' \in 0 .. MaxFaults /\ (faults' = 0 => faults = 0)
  BY <1>1, Counted DEF ColdCreate, Call
<1>4. CASE GiveUp(i) /\ UNCHANGED cont
  <2>1. cont' \in [Names -> ContainerStates] /\ cont'["new"] = cont["new"]
    BY <1>1, <1>4 DEF TypeOK
  <2> QED
    BY <1>2, <1>3, <1>4, <2>1, GaveUp
<1>5. CASE Set("cur", "created") /\ Step(i, "start") /\ UNCHANGED report
  <2>1. cont' \in [Names -> ContainerStates] /\ cont'["cur"] = "created"
        /\ cont'["new"] = cont["new"]
    BY <1>1, <1>5, SetTypes DEF Names, ContainerStates
  <2>2. "start" \in JobSteps /\ "start" \notin Late
    BY DEF JobSteps, Late
  <2>3. ASSUME NEW r, r.pc = "start", r.tag = job[i].tag, r.cold = job[i].cold,
               CurContainer(job[i]), SnapshotOf(job[i])
        PROVE  CurContainer(r)' /\ SnapshotOf(r)'
    BY <1>1, <1>2, <2>1, <2>3 DEF CurContainer, SnapshotOf, Snapshots
  <2> QED
    BY <1>2, <1>3, <1>5, <2>1, <2>2, <2>3, Moved
<1> QED
  BY <1>4, <1>5 DEF ColdCreate, Call

LEMMA ColdStartInv ==
  ASSUME RInv, NEW i \in DOMAIN job, ColdStart(i)
  PROVE  RInv'
<1>1. TypeOK /\ job[i] \in Job /\ job[i].pc = "start"
  BY JobTypes DEF RInv, ColdStart, At
<1>2. UNCHANGED <<Watchers, roll, stop, up, Snapshots, ops, report>>
  BY DEF ColdStart
<1>3. faults' \in 0 .. MaxFaults /\ (faults' = 0 => faults = 0)
  BY <1>1, Counted DEF ColdStart, Call
<1>4. CASE /\ Step(i, "remove") /\ UNCHANGED cont
           /\ Fails \/ ~PresentOK("cur")
  <2>1. cont' \in [Names -> ContainerStates] /\ cont'["new"] = cont["new"]
    BY <1>1, <1>4 DEF TypeOK
  <2>2. "remove" \in JobSteps /\ "remove" \notin Late
    BY DEF JobSteps, Late
  <2>3. ASSUME Calm, faults' = 0, CurContainer(job[i]), SnapshotOf(job[i])
        PROVE  FALSE
    <3>1. ~Fails
      BY <1>1, <2>3, CalmWorks
    <3>2. PresentOK("cur")
      BY <1>1, <2>3 DEF PresentOK, CurContainer
    <3> QED
      BY <1>4, <3>1, <3>2
  <2> QED
    BY <1>2, <1>3, <1>4, <2>1, <2>2, <2>3, Moved
<1>5. CASE /\ Set("cur", "running")
           /\ job' = [job EXCEPT ![i].pc = "mark", ![i].cold = TRUE]
  <2>1. cont' \in [Names -> ContainerStates] /\ cont'["cur"] = "running"
        /\ cont'["new"] = cont["new"]
    BY <1>1, <1>5, SetTypes DEF Names, ContainerStates
  <2>2. PICK r : r = [job[i] EXCEPT !.pc = "mark", !.cold = TRUE]
    OBVIOUS
  <2>3. r \in Job /\ r.pc = "mark" /\ r.tag = job[i].tag /\ r.pc \notin Late
    BY <1>1, <2>2 DEF Job, JobSteps, Late
  <2>4. job' = [job EXCEPT ![i] = r]
    BY <1>5, <2>2
  <2>5. UNCHANGED <<snap, file, remote, index>>
    BY <1>2 DEF Snapshots
  <2>6. /\ StoreOK' /\ file' \in [Tags -> {"none", "file", "part", "dir"}]
        /\ report' \in {Nil, "running", "failed", "stopped"}
    BY <1>1, <1>2, <2>5, StoreKept DEF TypeOK
  <2>7. UNCHANGED <<Watchers, roll, stop, up, remote, index, ops>>
    BY <1>2, <2>5
  <2>8. ASSUME CurContainer(job[i]), SnapshotOf(job[i])
        PROVE  CurContainer(r)' /\ SnapshotOf(r)'
    BY <1>1, <2>1, <2>3, <2>5, <2>8 DEF CurContainer, SnapshotOf
  <2> QED
    BY <1>3, <2>1, <2>3, <2>4, <2>6, <2>7, <2>8, JobStep
<1> QED
  BY <1>4, <1>5 DEF ColdStart, Call

LEMMA ColdRemoveInv ==
  ASSUME RInv, NEW i \in DOMAIN job, ColdRemove(i)
  PROVE  RInv'
<1>1. TypeOK
  BY DEF RInv
<1>2. UNCHANGED <<Watchers, roll, stop, up, Snapshots, ops>> /\ GiveUp(i)
  BY DEF ColdRemove
<1>3. faults' \in 0 .. MaxFaults /\ (faults' = 0 => faults = 0)
  BY <1>1, Counted DEF ColdRemove
<1>4. cont' \in [Names -> ContainerStates] /\ cont'["new"] = cont["new"]
  <2>1. CASE Set("cur", "none")
    BY <1>1, <2>1, SetTypes DEF Names, ContainerStates
  <2>2. CASE UNCHANGED cont
    BY <1>1, <2>2 DEF TypeOK
  <2> QED
    BY <2>1, <2>2 DEF ColdRemove
<1> QED
  BY <1>2, <1>3, <1>4, GaveUp

LEMMA OnContainerRunningInv ==
  ASSUME RInv, NEW i \in DOMAIN job, OnContainerRunning(i)
  PROVE  RInv'
<1>1. TypeOK /\ job[i] \in Job /\ job[i].tag \in Tags /\ job[i].pc = "mark"
  BY JobTypes DEF RInv, OnContainerRunning, At
<1>2. UNCHANGED <<cont, Watchers, roll, stop, up, snap, file, remote, index, ops, faults>>
  BY DEF OnContainerRunning, Snapshots
<1>3. /\ cont' \in [Names -> ContainerStates] /\ cont'["new"] = cont["new"]
      /\ faults' \in 0 .. MaxFaults /\ (faults' = 0 => faults = 0)
      /\ file' \in [Tags -> {"none", "file", "part", "dir"}] /\ StoreOK'
  BY <1>1, <1>2, StoreKept DEF TypeOK
<1>4. report' \in {Nil, "running", "failed", "stopped"}
  BY DEF OnContainerRunning, Notify
<1>5. PICK r : r = [job[i] EXCEPT !.pc = "watch", !.out = "running"]
  OBVIOUS
<1>6. /\ r \in Job /\ r.pc = "watch" /\ r.tag = job[i].tag /\ r.cold = job[i].cold
      /\ r.pc \notin Late
  BY <1>1, <1>5 DEF Job, JobSteps, Late
<1>7. job' = [job EXCEPT ![i] = r]
  BY <1>5 DEF OnContainerRunning
<1>8. ASSUME CurContainer(job[i]), SnapshotOf(job[i])
      PROVE  CurContainer(r)' /\ SnapshotOf(r)'
  BY <1>1, <1>2, <1>6, <1>8 DEF CurContainer, SnapshotOf
<1>9. UNCHANGED <<Watchers, roll, stop, up, remote, index, ops>>
  BY <1>2
<1> QED
  BY <1>3, <1>4, <1>6, <1>7, <1>8, <1>9, JobStep

-----------------------------------------------------------------------------
(* A cancelled watcher keeps its step. *)
LEMMA Cancelled ==
  ASSUME TypeOK, NEW c \in Names, NEW ws, ws = Cancel(watch, running[c])
  PROVE  /\ ws \in Seq(Watcher) /\ Len(ws) = Len(watch) /\ DOMAIN ws = DOMAIN watch
         /\ \A w \in DOMAIN watch :
              /\ ws[w].pc = watch[w].pc /\ ws[w].c = watch[w].c
              /\ ws[w].left = watch[w].left /\ ws[w].probes = watch[w].probes
              /\ ws[w].live => watch[w].live
<1>1. watch \in Seq(Watcher) /\ running[c] \in 0 .. Len(watch)
  BY DEF TypeOK
<1>2. CASE running[c] = 0
  BY <1>1, <1>2 DEF Cancel
<1>3. CASE running[c] # 0
  <2>1. PICK k : k = running[c]
    OBVIOUS
  <2>2. k \in DOMAIN watch /\ watch[k] \in Watcher
    BY <1>1, <1>3, <2>1
  <2>3. PICK v : v = [watch[k] EXCEPT !.live = FALSE]
    OBVIOUS
  <2>4. /\ v \in Watcher /\ v.pc = watch[k].pc /\ v.c = watch[k].c
        /\ v.left = watch[k].left /\ v.probes = watch[k].probes /\ v.live = FALSE
    BY <2>2, <2>3 DEF Watcher
  <2>5. ws = [watch EXCEPT ![k] = v]
    BY <1>3, <2>1, <2>3 DEF Cancel
  <2>6. /\ ws \in Seq(Watcher) /\ Len(ws) = Len(watch) /\ DOMAIN ws = DOMAIN watch
        /\ ws[k] = v /\ \A w \in DOMAIN watch : w # k => ws[w] = watch[w]
    BY <1>1, <2>2, <2>4, <2>5, Replaced
  <2> QED
    BY <2>4, <2>6
<1> QED
  BY <1>2, <1>3

(* What the type invariant says of the watchers. *)
WatchersOK ==
  /\ watch \in Seq(Watcher)
  /\ running \in [Names -> 0 .. Len(watch)] /\ stats \in 0 .. Len(watch)
  /\ \A c \in Names : running[c] # 0 => watch[running[c]].c = c

(* The watcher registered for c is cancelled and forgotten. *)
LEMMA CancelTypes ==
  ASSUME RInv, NEW c \in Names, watch' = Cancel(watch, running[c]),
         running' = [running EXCEPT ![c] = 0], UNCHANGED stats
  PROVE  WatchersOK' /\ Restarting' /\ Probing'
<1>1. TypeOK
  BY DEF RInv
<1>2. /\ watch' \in Seq(Watcher) /\ Len(watch') = Len(watch) /\ DOMAIN watch' = DOMAIN watch
      /\ \A w \in DOMAIN watch :
              /\ watch'[w].pc = watch[w].pc /\ watch'[w].c = watch[w].c
              /\ watch'[w].left = watch[w].left /\ watch'[w].probes = watch[w].probes
              /\ watch'[w].live => watch[w].live
  BY <1>1, Cancelled
<1>3. /\ running \in [Names -> 0 .. Len(watch)] /\ stats \in 0 .. Len(watch)
      /\ \A k \in Names : running[k] # 0 => watch[running[k]].c = k
      /\ Len(watch) \in Nat /\ DOMAIN watch = 1 .. Len(watch)
  BY <1>1 DEF TypeOK
<1>4. running' \in [Names -> 0 .. Len(watch)] /\ \A k \in Names : running'[k] \in {0, running[k]}
  BY <1>3
<1>5. ASSUME NEW k \in Names, running'[k] # 0 PROVE watch'[running'[k]].c = k
  <2>1. running'[k] = running[k] /\ running[k] \in DOMAIN watch
    BY <1>3, <1>4, <1>5
  <2> QED
    BY <1>2, <1>3, <1>5, <2>1
<1>6. WatchersOK'
  BY <1>2, <1>3, <1>4, <1>5 DEF WatchersOK
<1>7. Restarting' /\ Probing'
  BY <1>2 DEF RInv, Restarting, Probing
<1> QED
  BY <1>6, <1>7

(* A new watcher polls, and is live while the handler is up. *)
LEMMA Started ==
  ASSUME RInv, NEW c \in Names, StartWatching(c)
  PROVE  WatchersOK' /\ Restarting' /\ Probing' /\ (up => Watched')
<1>1. TypeOK /\ up \in BOOLEAN
  BY DEF RInv, TypeOK
<1>2. PICK ws : ws = Cancel(watch, running[c])
  OBVIOUS
<1>3. /\ ws \in Seq(Watcher) /\ Len(ws) = Len(watch) /\ DOMAIN ws = DOMAIN watch
      /\ \A w \in DOMAIN watch :
              /\ ws[w].pc = watch[w].pc /\ ws[w].c = watch[w].c
              /\ ws[w].left = watch[w].left /\ ws[w].probes = watch[w].probes
              /\ ws[w].live => watch[w].live
  BY <1>1, <1>2, Cancelled
<1>4. PICK v : v = [c |-> c, live |-> up, pc |-> "poll", left |-> RestartLimit,
                    probes |-> 0, stream |-> TRUE]
  OBVIOUS
<1>5. v \in Watcher /\ v.c = c /\ v.live = up /\ v.pc = "poll" /\ v.probes = 0
  <2>1. RestartLimit \in 0 .. RestartLimit /\ 0 \in 0 .. Retries
    BY RuntimeAssumption
  <2> QED
    BY <1>1, <1>4, <2>1 DEF Watcher
<1>6. watch' = Append(ws, v) /\ running' = [running EXCEPT ![c] = Len(watch) + 1]
      /\ stats' = Len(watch) + 1
  BY <1>2, <1>4 DEF StartWatching
<1>7. /\ watch' \in Seq(Watcher) /\ Len(watch') = Len(ws) + 1 /\ Len(ws) \in Nat
      /\ DOMAIN ws = 1 .. Len(ws) /\ DOMAIN watch' = 1 .. Len(ws) + 1
      /\ watch'[Len(ws) + 1] = v /\ \A k \in DOMAIN ws : watch'[k] = ws[k]
  BY <1>3, <1>5, <1>6, Extended
<1>8. /\ running \in [Names -> 0 .. Len(watch)]
      /\ \A k \in Names : running[k] # 0 => watch[running[k]].c = k
  BY <1>1 DEF TypeOK
<1>9. PICK n \in Nat : n = Len(ws) /\ n = Len(watch) /\ Len(watch') = n + 1
  BY <1>3, <1>7
<1>10. running' \in [Names -> 0 .. n + 1] /\ stats' \in 0 .. n + 1
  <2>1. 0 .. n \subseteq 0 .. n + 1 /\ n + 1 \in 0 .. n + 1
    OBVIOUS
  <2> QED
    BY <1>6, <1>8, <1>9, <2>1
<1>11. ASSUME NEW k \in Names, running'[k] # 0 PROVE watch'[running'[k]].c = k
  <2>1. CASE k = c
    BY <1>5, <1>6, <1>7, <1>8, <1>9, <2>1
  <2>2. CASE k # c
    <3>1. running'[k] = running[k] /\ running[k] \in DOMAIN ws
      BY <1>6, <1>7, <1>8, <1>9, <1>11, <2>2
    <3> QED
      BY <1>3, <1>7, <1>8, <1>11, <3>1
  <2> QED
    BY <2>1, <2>2
<1>12. WatchersOK'
  BY <1>7, <1>9, <1>10, <1>11 DEF WatchersOK
<1>13. \A w \in DOMAIN watch' : w \in DOMAIN watch \/ w = Len(ws) + 1
  BY <1>3, <1>7
<1>14. Restarting'
  BY <1>3, <1>5, <1>7, <1>13 DEF RInv, Restarting
<1>15. Probing'
  <2> SUFFICES ASSUME NEW w \in DOMAIN watch', Retries > 0, watch'[w].live
               PROVE  watch'[w].probes < Retries
    BY DEF Probing
  <2>1. CASE w = Len(ws) + 1
    BY <1>5, <1>7, <2>1, RuntimeAssumption
  <2>2. CASE w \in DOMAIN watch
    BY <1>3, <1>7, <2>2 DEF RInv, Probing
  <2> QED
    BY <1>13, <2>1, <2>2
<1>16. Len(ws) + 1 \in DOMAIN watch'
  BY <1>7
<1>17. up => Watched'
  BY <1>5, <1>7, <1>16 DEF Watched
<1> QED
  BY <1>12, <1>14, <1>15, <1>17

(* onContainerRunning, after its report. *)
LEMMA WatchContainerInv ==
  ASSUME RInv, NEW i \in DOMAIN job, WatchContainer(i)
  PROVE  RInv'
<1>1. TypeOK /\ job[i] \in Job /\ job[i].tag \in Tags /\ job[i].pc = "watch"
  BY JobTypes DEF RInv, WatchContainer, At
<1>2. UNCHANGED <<cont, roll, stop, up, snap, file, remote, index, ops, faults, report>>
  BY DEF WatchContainer, Snapshots
<1>3. WatchersOK' /\ Restarting' /\ Probing' /\ (up => Watched')
  BY Started DEF WatchContainer, Names
<1>4. PICK p \in {"checkpoint", "done"} : p = IF job[i].cold THEN "checkpoint" ELSE "done"
  OBVIOUS
<1>5. PICK r : r = [job[i] EXCEPT !.pc = p]
  OBVIOUS
<1>6. /\ r \in Job /\ r.pc = p /\ r.tag = job[i].tag /\ r.cold = job[i].cold
      /\ r.out = job[i].out
  BY <1>1, <1>4, <1>5, Stepped DEF JobSteps
<1>7. job' = [job EXCEPT ![i] = r]
  BY <1>4, <1>5 DEF WatchContainer, Step
<1>8. job' \in Seq(Job)
  BY <1>1, <1>6, <1>7, Replaced DEF TypeOK
<1>9. TypeOK'
  BY <1>1, <1>2, <1>3, <1>8 DEF TypeOK, WatchersOK
<1>10. Attended'
  BY <1>2, <1>3 DEF Attended
<1>11. ASSUME CurContainer(job[i]), SnapshotOf(job[i])
       PROVE  CurContainer(r)' /\ SnapshotOf(r)'
  BY <1>1, <1>2, <1>4, <1>6, <1>11 DEF CurContainer, SnapshotOf
<1>12. Undisturbed'
  BY <1>2, <1>6, <1>7, <1>11, JobUndisturbed
<1> QED
  BY <1>3, <1>9, <1>10, <1>12 DEF RInv

-----------------------------------------------------------------------------
(* captureSnapshot. *)
LEMMA CaptureCheckpointInv ==
  ASSUME RInv, NEW i \in DOMAIN job, CaptureCheckpoint(i)
  PROVE  RInv'
<1>1. TypeOK /\ job[i] \in Job /\ job[i].tag \in Tags /\ job[i].pc = "checkpoint"
  BY JobTypes DEF RInv, CaptureCheckpoint, At
<1>2. UNCHANGED <<Watchers, roll, stop, up, snap, remote, index, ops, report>>
  BY DEF CaptureCheckpoint
<1>3. UNCHANGED <<Watchers, roll, stop, up, remote, index, ops>>
  BY <1>2
<1>4. StoreOK' /\ report' \in {Nil, "running", "failed", "stopped"}
  BY <1>1, <1>2, StoreKept DEF TypeOK
<1>5. faults' \in 0 .. MaxFaults /\ (faults' = 0 => faults = 0)
  BY <1>1, Counted DEF CaptureCheckpoint
<1>6. CheckpointState \in ContainerStates /\ CheckpointState # "none"
  BY RuntimeAssumption DEF ContainerStates
<1>7. job[i].pc \in Late /\ UNCHANGED report
  BY <1>1, <1>2 DEF Late
<1>8. CASE /\ Set("cur", CheckpointState)
           /\ file' = [file EXCEPT ![job[i].tag] = "file"]
           /\ Step(i, "record")
  <2>1. /\ cont' \in [Names -> ContainerStates] /\ cont'["cur"] # "none"
        /\ cont'["new"] = cont["new"]
    BY <1>1, <1>6, <1>8, SetTypes DEF Names
  <2>2. PICK r : r = [job[i] EXCEPT !.pc = "record"]
    OBVIOUS
  <2>3. r \in Job /\ r.pc = "record"
    BY <1>1, <2>2, Stepped DEF JobSteps
  <2>4. job' = [job EXCEPT ![i] = r]
    BY <1>8, <2>2 DEF Step
  <2>5. file' \in [Tags -> {"none", "file", "part", "dir"}]
    BY <1>1, <1>8 DEF TypeOK
  <2>6. CurContainer(r)' /\ SnapshotOf(r)'
    BY <2>1, <2>3 DEF CurContainer, SnapshotOf
  <2> QED
    BY <1>3, <1>4, <1>5, <1>7, <2>1, <2>3, <2>4, <2>5, <2>6, JobStep
<1>9. CASE /\ Step(i, "done") /\ UNCHANGED file
           /\ UNCHANGED cont \/ Set("cur", CheckpointState)
           /\ \/ Fails
              \/ cont["cur"] # "running"
              \/ Fault
              \/ file[job[i].tag] \in {"part", "dir"}
  <2>1. cont' \in [Names -> ContainerStates] /\ cont'["new"] = cont["new"]
    <3>1. CASE UNCHANGED cont
      BY <1>1, <3>1 DEF TypeOK
    <3>2. CASE Set("cur", CheckpointState)
      BY <1>1, <1>6, <3>2, SetTypes DEF Names
    <3> QED
      BY <1>9, <3>1, <3>2
  <2>2. PICK r : r = [job[i] EXCEPT !.pc = "done"]
    OBVIOUS
  <2>3. r \in Job
    BY <1>1, <2>2, Stepped DEF JobSteps
  <2>4. job' = [job EXCEPT ![i] = r]
    BY <1>9, <2>2 DEF Step
  <2>5. file' \in [Tags -> {"none", "file", "part", "dir"}]
    BY <1>1, <1>9 DEF TypeOK
  <2>6. ASSUME Calm, faults' = 0, CurContainer(job[i]), SnapshotOf(job[i])
        PROVE  FALSE
    <3>1. ~Fails /\ ~Fault
      BY <1>1, <2>6, CalmWorks
    <3>2. cont["cur"] = "running" /\ file[job[i].tag] = "none"
      BY <1>1, <2>6 DEF CurContainer, SnapshotOf
    <3> QED
      BY <1>9, <3>1, <3>2
  <2> QED
    BY <1>3, <1>4, <1>5, <1>7, <2>1, <2>3, <2>4, <2>5, <2>6, JobStep
<1> QED
  BY <1>8, <1>9 DEF CaptureCheckpoint

LEMMA CaptureRecordInv ==
  ASSUME RInv, NEW i \in DOMAIN job, CaptureRecord(i)
  PROVE  RInv'
<1>1. TypeOK /\ job[i] \in Job /\ job[i].tag \in Tags /\ job[i].pc = "record"
  BY JobTypes DEF RInv, CaptureRecord, At
<1>2. UNCHANGED <<cont, Watchers, roll, stop, up, file, remote, index, ops, report>>
  BY DEF CaptureRecord
<1>3. /\ cont' \in [Names -> ContainerStates] /\ cont'["new"] = cont["new"]
      /\ faults' \in 0 .. MaxFaults /\ (faults' = 0 => faults = 0)
      /\ report' \in {Nil, "running", "failed", "stopped"}
      /\ file' \in [Tags -> {"none", "file", "part", "dir"}]
  <2>1. faults' \in 0 .. MaxFaults /\ (faults' = 0 => faults = 0)
    <3>1. CASE UNCHANGED faults
      BY <1>1, <3>1 DEF TypeOK
    <3>2. CASE Fault
      BY <1>1, <3>2, Counted
    <3> QED
      BY <3>1, <3>2 DEF CaptureRecord
  <2> QED
    BY <1>1, <1>2, <2>1 DEF TypeOK
<1>4. StoreOK'
  <2>1. CASE Put(job[i].tag)
    BY <1>1, <2>1, PutRows
  <2>2. CASE UNCHANGED snap
    BY <1>1, <2>2, StoreKept
  <2> QED
    BY <2>1, <2>2 DEF CaptureRecord
<1>5. PICK r : r = [job[i] EXCEPT !.pc = "restart"]
  OBVIOUS
<1>6. r \in Job /\ r.pc = "restart"
  BY <1>1, <1>5, Stepped DEF JobSteps
<1>7. job' = [job EXCEPT ![i] = r]
  BY <1>5 DEF CaptureRecord, Step
<1>8. ASSUME CurContainer(job[i]) PROVE CurContainer(r)' /\ SnapshotOf(r)'
  BY <1>1, <1>2, <1>6, <1>8 DEF CurContainer, SnapshotOf
<1>9. UNCHANGED <<Watchers, roll, stop, up, remote, index, ops>>
  BY <1>2
<1>10. job[i].pc \in Late /\ UNCHANGED report
  BY <1>1, <1>2 DEF Late
<1> QED
  BY <1>3, <1>4, <1>6, <1>7, <1>8, <1>9, <1>10, JobStep

LEMMA CaptureRestartInv ==
  ASSUME RInv, NEW i \in DOMAIN job, CaptureRestart(i)
  PROVE  RInv'
<1>1. TypeOK /\ job[i] \in Job /\ job[i].pc = "restart"
  BY JobTypes DEF RInv, CaptureRestart, At
<1>2. UNCHANGED <<stats, roll, stop, up, snap, file, remote, index, ops>> /\ Step(i, "done")
  BY DEF CaptureRestart, Snapshots
<1>3. faults' \in 0 .. MaxFaults /\ (faults' = 0 => faults = 0)
  BY <1>1, Counted DEF CaptureRestart, Call
<1>4. PICK r : r = [job[i] EXCEPT !.pc = "done"]
  OBVIOUS
<1>5. r \in Job /\ r.pc = "done"
  BY <1>1, <1>4, Stepped DEF JobSteps
<1>6. job' = [job EXCEPT ![i] = r]
  BY <1>2, <1>4 DEF Step
<1>7. CASE Set("cur", "running") /\ UNCHANGED <<watch, running, report>>
  <2>1. /\ cont' \in [Names -> ContainerStates] /\ cont'["cur"] = "running"
        /\ cont'["new"] = cont["new"]
    BY <1>1, <1>7, SetTypes DEF Names, ContainerStates
  <2>2. UNCHANGED <<Watchers, roll, stop, up, remote, index, ops>>
    BY <1>2, <1>7 DEF Watchers
  <2>3. /\ StoreOK' /\ file' \in [Tags -> {"none", "file", "part", "dir"}]
        /\ report' \in {Nil, "running", "failed", "stopped"}
    BY <1>1, <1>2, <1>7, StoreKept DEF TypeOK
  <2>4. job[i].pc \in Late /\ UNCHANGED report
    BY <1>1, <1>7 DEF Late
  <2>5. CurContainer(r)' /\ SnapshotOf(r)'
    BY <1>5, <2>1 DEF CurContainer, SnapshotOf
  <2> QED
    BY <1>3, <1>5, <1>6, <2>1, <2>2, <2>3, <2>4, <2>5, JobStep
<1>8. CASE /\ watch' = Cancel(watch, running["cur"])
           /\ running' = [running EXCEPT !["cur"] = 0]
           /\ Notify("failed") /\ UNCHANGED cont
           /\ Fails \/ ~PresentOK("cur")
  <2>1. WatchersOK' /\ Restarting' /\ Probing'
    BY <1>2, <1>8, CancelTypes DEF Names
  <2>2. job' \in Seq(Job)
    BY <1>1, <1>5, <1>6, Replaced DEF TypeOK
  <2>3. report' = "failed"
    BY <1>8 DEF Notify
  <2>4. TypeOK'
    BY <1>1, <1>2, <1>3, <1>8, <2>1, <2>2, <2>3 DEF TypeOK, WatchersOK
  <2>5. Attended'
    BY <2>3 DEF Attended
  <2>6. ASSUME Calm, faults' = 0, CurContainer(job[i])
        PROVE  FALSE
    <3>1. ~Fails
      BY <1>1, <2>6, CalmWorks
    <3>2. PresentOK("cur")
      BY <1>1, <2>6 DEF PresentOK, CurContainer
    <3> QED
      BY <1>8, <3>1, <3>2
  <2>7. Undisturbed'
    BY <1>2, <1>3, <1>5, <1>6, <1>8, <2>6, JobUndisturbed
  <2> QED
    BY <2>1, <2>4, <2>5, <2>7 DEF RInv
<1> QED
  BY <1>7, <1>8 DEF CaptureRestart, Call

-----------------------------------------------------------------------------
(* Containers only change by being started again. *)
LEMMA OnlyRestarts ==
  ASSUME RInv, UNCHANGED <<job, roll, stop, up, snap, file>>,
         faults' = 0 => faults = 0,
         \A c \in Names : cont'[c] = cont[c] \/ (cont[c] # "none" /\ cont'[c] = "running")
  PROVE  Undisturbed'
<1> SUFFICES ASSUME Calm' PROVE NewContainer' /\ Before' /\ OnlyWin'
  BY DEF Undisturbed
<1>1. Calm
  BY DEF Calm
<1>2. NewContainer /\ Before /\ OnlyWin
  BY <1>1 DEF RInv, Undisturbed
<1>3. /\ cont'["new"] = cont["new"] \/ (cont["new"] # "none" /\ cont'["new"] = "running")
      /\ cont'["cur"] = cont["cur"] \/ (cont["cur"] # "none" /\ cont'["cur"] = "running")
  BY DEF Names
<1>4. NewContainer'
  BY <1>2, <1>3 DEF NewContainer
<1>5. Before'
  BY <1>2, <1>3 DEF Before
<1>6. OnlyWin'
  <2> SUFFICES ASSUME cont'["new"] # "running", Len(job) = 1
               PROVE  CurContainer(job[1])' /\ SnapshotOf(job[1])'
    BY DEF OnlyWin
  <2>1. CurContainer(job[1]) /\ SnapshotOf(job[1])
    BY <1>2, <1>3 DEF OnlyWin
  <2>2. CurContainer(job[1])'
    BY <1>3, <2>1 DEF CurContainer
  <2>3. SnapshotOf(job[1])'
    BY <2>1 DEF SnapshotOf
  <2> QED
    BY <2>2, <2>3
<1> QED
  BY <1>4, <1>5, <1>6

(* A watcher that answers for the replica. *)
Answers(v) == v.pc \in {"restart", "report"} \/ (v.pc = "poll" /\ v.live)

(* A step of watcher w. *)
LEMMA WatchStep ==
  ASSUME RInv, NEW w \in DOMAIN watch, NEW v \in Watcher, v.c = watch[w].c,
         watch' = [watch EXCEPT ![w] = v],
         running' \in [Names -> 0 .. Len(watch)],
         \A c \in Names : running'[c] \in {0, running[c]},
         stats' \in {0, stats},
         UNCHANGED <<Threads, up, Snapshots, ops>>,
         cont' \in [Names -> ContainerStates],
         \A c \in Names : cont'[c] = cont[c] \/ (cont[c] # "none" /\ cont'[c] = "running"),
         faults' \in 0 .. MaxFaults, faults' = 0 => faults = 0,
         report' \in {Nil, "running", "failed", "stopped"},
         v.pc = "restart" => v.left > 0,
         Retries > 0 /\ v.live => v.probes < Retries,
         \/ report' = "failed"
         \/ UNCHANGED report /\ (Answers(watch[w]) => Answers(v))
  PROVE  RInv'
<1>1. TypeOK /\ watch \in Seq(Watcher) /\ Len(watch) \in Nat /\ DOMAIN watch = 1 .. Len(watch)
  BY DEF RInv, TypeOK
<1>2. /\ watch' \in Seq(Watcher) /\ Len(watch') = Len(watch) /\ DOMAIN watch' = DOMAIN watch
      /\ watch'[w] = v /\ \A k \in DOMAIN watch : k # w => watch'[k] = watch[k]
  BY <1>1, Replaced
<1>3. UNCHANGED <<job, roll, stop, up, snap, file, remote, index, ops>>
  BY DEF Threads, Snapshots
<1>4. \A k \in DOMAIN watch : watch'[k].c = watch[k].c
  BY <1>2
<1>5. ASSUME NEW c \in Names, running'[c] # 0 PROVE watch'[running'[c]].c = c
  <2>1. running'[c] = running[c] /\ running[c] \in DOMAIN watch
    BY <1>1, <1>5 DEF TypeOK
  <2> QED
    BY <1>1, <1>4, <1>5, <2>1 DEF TypeOK
<1>6. stats' \in 0 .. Len(watch)
  BY <1>1 DEF TypeOK
<1>7. TypeOK'
  BY <1>1, <1>2, <1>3, <1>5, <1>6 DEF TypeOK
<1>8. Restarting' /\ Probing'
  BY <1>2 DEF RInv, Restarting, Probing
<1>9. Attended'
  <2>1. CASE report' = "failed"
    BY <2>1 DEF Attended
  <2>2. CASE UNCHANGED report /\ (Answers(watch[w]) => Answers(v))
    <3> SUFFICES ASSUME up, stop = "idle", job # <<>>
                 PROVE  report = "failed" \/ Starting' \/ Replacing' \/ Watched'
      BY <1>3, <2>2 DEF Attended
    <3>1. report = "failed" \/ Starting \/ Replacing \/ Watched
      BY DEF RInv, Attended
    <3>2. CASE Watched
      BY <1>2, <2>2, <3>2 DEF Watched, Answers
    <3>3. CASE report = "failed" \/ Starting \/ Replacing
      BY <1>3, <3>3 DEF Starting, Replacing
    <3> QED
      BY <3>1, <3>2, <3>3
  <2> QED
    BY <2>1, <2>2
<1>10. Undisturbed'
  BY <1>3, OnlyRestarts
<1> QED
  BY <1>7, <1>8, <1>9, <1>10 DEF RInv

(* The frame of the watcher's steps that leave the engine alone. *)
LEMMA EngineKept ==
  ASSUME TypeOK
  PROVE  /\ UNCHANGED cont =>
              /\ cont' \in [Names -> ContainerStates]
              /\ \A c \in Names : cont'[c] = cont[c]
         /\ UNCHANGED faults => faults' \in 0 .. MaxFaults
         /\ UNCHANGED report => report' \in {Nil, "running", "failed", "stopped"}
         /\ UNCHANGED running => /\ running' \in [Names -> 0 .. Len(watch)]
                                 /\ \A c \in Names : running'[c] \in {0, running[c]}
  BY DEF TypeOK

LEMMA StatsEndInv ==
  ASSUME RInv, NEW w \in DOMAIN watch, StatsEnd(w)
  PROVE  RInv'
<1>1. TypeOK /\ watch[w] \in Watcher
  BY WatchTypes DEF RInv
<1>2. UNCHANGED <<cont, running, Threads, up, Snapshots, ops, faults, report>> /\ stats' = 0
  BY DEF StatsEnd
<1>3. PICK v : v = [watch[w] EXCEPT !.stream = FALSE]
  OBVIOUS
<1>4. /\ v \in Watcher /\ v.c = watch[w].c /\ v.pc = watch[w].pc /\ v.live = watch[w].live
      /\ v.left = watch[w].left /\ v.probes = watch[w].probes
  BY <1>1, <1>3 DEF Watcher
<1>5. watch' = [watch EXCEPT ![w] = v]
  BY <1>3 DEF StatsEnd
<1>6. /\ v.pc = "restart" => v.left > 0
      /\ Retries > 0 /\ v.live => v.probes < Retries
      /\ Answers(watch[w]) => Answers(v)
  BY <1>4 DEF RInv, Restarting, Probing, Answers
<1> QED
  BY <1>1, <1>2, <1>4, <1>5, <1>6, EngineKept, WatchStep

LEMMA ProbeInv ==
  ASSUME RInv, NEW w \in DOMAIN watch, Probe(w)
  PROVE  RInv'
<1>1. /\ TypeOK /\ watch[w] \in Watcher /\ watch[w].probes \in Nat /\ Retries \in Nat
      /\ watch[w].probes < Retries /\ watch[w].live
  BY WatchTypes, RuntimeAssumption DEF RInv, Probe
<1>2. UNCHANGED <<cont, running, stats, Threads, up, Snapshots, ops>>
  BY DEF Probe
<1>3. CASE watch' = [watch EXCEPT ![w].probes = 0] /\ UNCHANGED <<faults, report>>
  <2>1. PICK v : v = [watch[w] EXCEPT !.probes = 0]
    OBVIOUS
  <2>2. 0 \in 0 .. Retries
    BY <1>1
  <2>3. /\ v \in Watcher /\ v.c = watch[w].c /\ v.pc = watch[w].pc /\ v.live = watch[w].live
        /\ v.left = watch[w].left /\ v.probes = 0
    BY <1>1, <2>1, <2>2 DEF Watcher
  <2>4. watch' = [watch EXCEPT ![w] = v]
    BY <1>3, <2>1
  <2>5. /\ v.pc = "restart" => v.left > 0
        /\ Retries > 0 /\ v.live => v.probes < Retries
        /\ Answers(watch[w]) => Answers(v)
    BY <1>1, <2>3 DEF RInv, Restarting, Answers
  <2> QED
    BY <1>1, <1>2, <1>3, <2>3, <2>4, <2>5, EngineKept, WatchStep
<1>4. CASE /\ IF cont[watch[w].c] = "running" THEN Fault ELSE UNCHANGED faults
           /\ watch' = [watch EXCEPT ![w].probes = @ + 1,
                                     ![w].live = watch[w].probes + 1 < Retries]
           /\ IF watch[w].probes + 1 < Retries THEN UNCHANGED report ELSE Notify("failed")
  <2>1. PICK n : n = watch[w].probes + 1
    OBVIOUS
  <2>2. n \in 0 .. Retries
    BY <1>1, <2>1
  <2>3. PICK b \in BOOLEAN : b <=> n < Retries
    OBVIOUS
  <2>4. PICK v : v = [watch[w] EXCEPT !.probes = n, !.live = b]
    OBVIOUS
  <2>5. /\ v \in Watcher /\ v.c = watch[w].c /\ v.pc = watch[w].pc /\ v.live = b
        /\ v.left = watch[w].left /\ v.probes = n
    BY <1>1, <2>2, <2>4 DEF Watcher
  <2>6. watch' = [watch EXCEPT ![w] = v]
    <3>1. (watch[w].probes + 1 < Retries) = b
      BY <2>1, <2>3
    <3> QED
      BY <1>4, <2>1, <2>4, <3>1
  <2>7. faults' \in 0 .. MaxFaults /\ (faults' = 0 => faults = 0)
    BY <1>1, <1>4, Counted, EngineKept
  <2>8. v.pc = "restart" => v.left > 0
    BY <2>5 DEF RInv, Restarting
  <2>9. v.live => v.probes < Retries
    BY <2>3, <2>5
  <2>10. CASE n < Retries
    <3>1. UNCHANGED report /\ v.live
      BY <1>4, <2>1, <2>3, <2>5, <2>10
    <3>2. Answers(watch[w]) => Answers(v)
      BY <2>5, <3>1 DEF Answers
    <3> QED
      BY <1>1, <1>2, <2>5, <2>6, <2>7, <2>8, <2>9, <3>1, <3>2, EngineKept, WatchStep
  <2>11. CASE ~(n < Retries)
    <3>1. report' = "failed"
      BY <1>4, <2>1, <2>11 DEF Notify
    <3> QED
      BY <1>1, <1>2, <2>5, <2>6, <2>7, <2>8, <2>9, <3>1, EngineKept, WatchStep
  <2> QED
    BY <2>10, <2>11
<1> QED
  BY <1>3, <1>4 DEF Probe

(* A watcher goes to step p. *)
LEMMA ToStep ==
  ASSUME RInv, NEW w \in DOMAIN watch, NEW p \in {"restart", "report", "done"}, To(w, p),
         UNCHANGED <<cont, running, stats, Threads, up, Snapshots, ops, faults, report>>,
         p = "restart" => watch[w].left > 0,
         p = "done" => ~Answers(watch[w])
  PROVE  RInv'
<1>1. TypeOK /\ watch[w] \in Watcher
  BY WatchTypes DEF RInv
<1>2. PICK v : v = [watch[w] EXCEPT !.pc = p]
  OBVIOUS
<1>3. /\ v \in Watcher /\ v.c = watch[w].c /\ v.pc = p /\ v.live = watch[w].live
      /\ v.left = watch[w].left /\ v.probes = watch[w].probes
  BY <1>1, <1>2 DEF Watcher
<1>4. watch' = [watch EXCEPT ![w] = v]
  BY <1>2 DEF To
<1>5. /\ v.pc = "restart" => v.left > 0
      /\ Retries > 0 /\ v.live => v.probes < Retries
      /\ Answers(watch[w]) => Answers(v)
  BY <1>3 DEF RInv, Probing, Answers
<1> QED
  BY <1>1, <1>3, <1>4, <1>5, EngineKept, WatchStep

LEMMA WatchPollInv ==
  ASSUME RInv, NEW w \in DOMAIN watch, WatchPoll(w)
  PROVE  RInv'
<1>1. PICK p \in {"restart", "report"} : p = IF watch[w].left > 0 THEN "restart" ELSE "report"
  OBVIOUS
<1>2. To(w, p)
  BY <1>1 DEF WatchPoll
<1>3. UNCHANGED <<cont, running, stats, Threads, up, Snapshots, ops, faults, report>>
  BY DEF WatchPoll
<1>4. p = "restart" => watch[w].left > 0
  BY <1>1
<1> QED
  BY <1>2, <1>3, <1>4, ToStep

LEMMA WatchExitInv ==
  ASSUME RInv, NEW w \in DOMAIN watch, WatchExit(w)
  PROVE  RInv'
<1>1. ~Answers(watch[w])
  BY DEF WatchExit, Polling, Answers
<1> QED
  BY <1>1, ToStep DEF WatchExit

LEMMA WatchRestartInv ==
  ASSUME RInv, NEW w \in DOMAIN watch, WatchRestart(w)
  PROVE  RInv'
<1>1. /\ TypeOK /\ watch[w] \in Watcher /\ watch[w].c \in Names
      /\ watch[w].left \in 0 .. RestartLimit /\ RestartLimit \in Nat
      /\ watch[w].pc = "restart"
  BY WatchTypes, RuntimeAssumption DEF RInv, WatchRestart, Polling
<1>2. UNCHANGED <<running, stats, Threads, up, Snapshots, ops, report>>
  BY DEF WatchRestart
<1>3. faults' \in 0 .. MaxFaults /\ (faults' = 0 => faults = 0)
  BY <1>1, Counted DEF WatchRestart, Call
<1>4. watch[w].left > 0
  BY <1>1 DEF RInv, Restarting
<1>5. PICK n : n = watch[w].left - 1
  OBVIOUS
<1>6. n \in 0 .. RestartLimit
  BY <1>1, <1>4, <1>5
<1>7. ASSUME NEW p \in {"poll", "report"}, NEW v, v = [watch[w] EXCEPT !.pc = p, !.left = n]
      PROVE  /\ v \in Watcher /\ v.c = watch[w].c /\ v.pc = p /\ v.live = watch[w].live
             /\ v.probes = watch[w].probes /\ v.left = n
  BY <1>1, <1>6, <1>7 DEF Watcher
<1>8. CASE /\ PresentOK(watch[w].c) /\ watch[w].live
           /\ Set(watch[w].c, "running")
           /\ watch' = [watch EXCEPT ![w].pc = "poll", ![w].left = @ - 1]
  <2>1. PICK v : v = [watch[w] EXCEPT !.pc = "poll", !.left = n]
    OBVIOUS
  <2>2. /\ v \in Watcher /\ v.c = watch[w].c /\ v.pc = "poll" /\ v.live = watch[w].live
        /\ v.probes = watch[w].probes
    BY <1>7, <2>1
  <2>3. watch' = [watch EXCEPT ![w] = v]
    BY <1>5, <1>8, <2>1
  <2>4. /\ cont' \in [Names -> ContainerStates]
        /\ \A c \in Names : cont'[c] = cont[c] \/ (cont[c] # "none" /\ cont'[c] = "running")
    BY <1>1, <1>8, SetTypes DEF PresentOK, ContainerStates
  <2>5. /\ Retries > 0 /\ v.live => v.probes < Retries
        /\ Answers(v)
    BY <1>8, <2>2 DEF RInv, Probing, Answers
  <2> QED
    BY <1>1, <1>2, <1>3, <2>2, <2>3, <2>4, <2>5, EngineKept, WatchStep
<1>9. CASE /\ UNCHANGED cont
           /\ watch' = [watch EXCEPT ![w].pc = "report", ![w].left = @ - 1]
  <2>1. PICK v : v = [watch[w] EXCEPT !.pc = "report", !.left = n]
    OBVIOUS
  <2>2. /\ v \in Watcher /\ v.c = watch[w].c /\ v.pc = "report" /\ v.live = watch[w].live
        /\ v.probes = watch[w].probes
    BY <1>7, <2>1
  <2>3. watch' = [watch EXCEPT ![w] = v]
    BY <1>5, <1>9, <2>1
  <2>4. /\ Retries > 0 /\ v.live => v.probes < Retries
        /\ Answers(v)
    BY <2>2 DEF RInv, Probing, Answers
  <2> QED
    BY <1>1, <1>2, <1>3, <1>9, <2>2, <2>3, <2>4, EngineKept, WatchStep
<1> QED
  BY <1>8, <1>9 DEF WatchRestart, Call

LEMMA WatchReportInv ==
  ASSUME RInv, NEW w \in DOMAIN watch, WatchReport(w)
  PROVE  RInv'
<1>1. TypeOK /\ watch[w] \in Watcher /\ watch[w].c \in Names
  BY WatchTypes DEF RInv
<1>2. UNCHANGED <<cont, stats, Threads, up, Snapshots, ops, faults>> /\ report' = "failed"
  BY DEF WatchReport, Notify
<1>3. PICK v : v = [watch[w] EXCEPT !.pc = "done"]
  OBVIOUS
<1>4. /\ v \in Watcher /\ v.c = watch[w].c /\ v.pc = "done" /\ v.live = watch[w].live
      /\ v.probes = watch[w].probes
  BY <1>1, <1>3 DEF Watcher
<1>5. watch' = [watch EXCEPT ![w] = v]
  BY <1>3 DEF WatchReport, To
<1>6. Retries > 0 /\ v.live => v.probes < Retries
  BY <1>4 DEF RInv, Probing
<1>7. /\ running' \in [Names -> 0 .. Len(watch)]
      /\ \A c \in Names : running'[c] \in {0, running[c]}
  <2>1. running \in [Names -> 0 .. Len(watch)] /\ Len(watch) \in Nat
    BY <1>1 DEF TypeOK
  <2> QED
    BY <1>1, <2>1 DEF WatchReport
<1> QED
  BY <1>1, <1>2, <1>4, <1>5, <1>6, <1>7, EngineKept, WatchStep

-----------------------------------------------------------------------------
RollPcs == {"idle", "image", "create", "start", "remove", "wait", "undoStop",
            "undoRemove", "cancel", "stopOld", "removeOld", "mark", "watch", "done"}

(* What a calm step of RollingUpdate does to the two containers. *)
LEMMA RollUndisturbed ==
  ASSUME RInv, UNCHANGED <<job, stop, up, snap, file>>,
         faults' = 0 => faults = 0,
         Calm /\ faults' = 0 /\ NewContainer
         => /\ NewContainer'
            /\ cont["cur"] = "none" => cont'["cur"] = "none"
            /\ cont'["new"] # "running" => cont["new"] # "running" /\ cont'["cur"] = cont["cur"]
  PROVE  Undisturbed'
<1> SUFFICES ASSUME Calm' PROVE NewContainer' /\ Before' /\ OnlyWin'
  BY DEF Undisturbed
<1>1. Calm /\ faults' = 0
  BY DEF Calm
<1>2. NewContainer /\ Before /\ OnlyWin
  BY <1>1 DEF RInv, Undisturbed
<1>3. /\ NewContainer'
      /\ cont["cur"] = "none" => cont'["cur"] = "none"
      /\ cont'["new"] # "running" => cont["new"] # "running" /\ cont'["cur"] = cont["cur"]
  BY <1>1, <1>2
<1>4. Before'
  BY <1>2, <1>3 DEF Before
<1>5. OnlyWin'
  <2> SUFFICES ASSUME cont'["new"] # "running", Len(job) = 1
               PROVE  CurContainer(job[1])' /\ SnapshotOf(job[1])'
    BY DEF OnlyWin
  <2>1. CurContainer(job[1]) /\ SnapshotOf(job[1]) /\ cont'["cur"] = cont["cur"]
    BY <1>2, <1>3 DEF OnlyWin
  <2>2. CurContainer(job[1])'
    BY <2>1 DEF CurContainer
  <2>3. SnapshotOf(job[1])'
    BY <2>1 DEF SnapshotOf
  <2> QED
    BY <2>2, <2>3
<1> QED
  BY <1>3, <1>4, <1>5

(* A step of RollingUpdate that leaves the watchers alone. *)
LEMMA RollStep ==
  ASSUME RInv, UNCHANGED <<Watchers, job, stop, up, Snapshots>>, ops' \in 0 .. MaxOps,
         roll' \in RollPcs, cont' \in [Names -> ContainerStates],
         faults' \in 0 .. MaxFaults, faults' = 0 => faults = 0,
         report' \in {Nil, "running", "failed", "stopped"},
         Replacing' \/ (~Replacing /\ UNCHANGED report),
         Calm /\ faults' = 0 /\ NewContainer
         => /\ NewContainer'
            /\ cont["cur"] = "none" => cont'["cur"] = "none"
            /\ cont'["new"] # "running" => cont["new"] # "running" /\ cont'["cur"] = cont["cur"]
  PROVE  RInv'
<1>1. UNCHANGED <<watch, running, stats, job, stop, up, snap, file, remote, index>>
  BY DEF Watchers, Snapshots
<1>2. TypeOK'
  BY <1>1 DEF RInv, TypeOK, RollPcs
<1>3. Restarting' /\ Probing'
  BY <1>1 DEF RInv, Restarting, Probing
<1>4. Attended'
  BY <1>1 DEF RInv, Attended, Starting, Watched
<1>5. Undisturbed'
  BY <1>1, RollUndisturbed
<1> QED
  BY <1>2, <1>3, <1>4, <1>5 DEF RInv

LEMMA RollBeginInv ==
  ASSUME RInv, RollBegin
  PROVE  RInv'
<1>1. TypeOK /\ roll \in {"idle", "done"} /\ roll' = "image"
  BY DEF RInv, RollBegin
<1>2. UNCHANGED <<cont, Watchers, job, stop, up, Snapshots, faults, report>>
  BY DEF RollBegin
<1>3. ops' \in 0 .. MaxOps
  BY <1>1, RuntimeAssumption DEF TypeOK, RollBegin
<1>4. /\ cont' \in [Names -> ContainerStates] /\ faults' \in 0 .. MaxFaults
      /\ report' \in {Nil, "running", "failed", "stopped"}
  BY <1>1, <1>2 DEF TypeOK
<1>5. ~Replacing /\ roll' \in RollPcs
  BY <1>1 DEF Replacing, RollPcs
<1>6. NewContainer => NewContainer'
  BY <1>1, <1>2 DEF NewContainer
<1> QED
  BY <1>2, <1>3, <1>4, <1>5, <1>6, RollStep

(* RollMake: the outcomes of Pull, Create and Start. *)
LEMMA RollMakeInv ==
  ASSUME RInv, RollMake
  PROVE  RInv'
<1>1. TypeOK /\ UNCHANGED <<Watchers, job, stop, up, Snapshots, ops, report>>
  BY DEF RInv, RollMake
<1>2. faults' \in 0 .. MaxFaults /\ (faults' = 0 => faults = 0)
  BY <1>1, Counted DEF RollMake, Call
<1>3. ops' \in 0 .. MaxOps /\ report' \in {Nil, "running", "failed", "stopped"}
  BY <1>1 DEF TypeOK
<1>4. \/ /\ UNCHANGED cont
         /\ \/ roll = "image" /\ roll' \in {"create", "done"}
            \/ roll = "create" /\ roll' = "done" /\ (Fails \/ ~CreateOK("new"))
            \/ roll = "start" /\ roll' = "remove" /\ (Fails \/ ~PresentOK("new"))
      \/ Set("new", "created") /\ roll = "create" /\ roll' = "start" /\ CreateOK("new")
      \/ Set("new", "running") /\ roll = "start" /\ roll' = "wait"
  BY Zenon DEF RollMake, RollGoes, Call
<1>5. ~Replacing /\ roll' \in RollPcs
  BY <1>4 DEF Replacing, RollPcs
<1>6. CASE /\ UNCHANGED cont
           /\ \/ roll = "image" /\ roll' \in {"create", "done"}
              \/ roll = "create" /\ roll' = "done" /\ (Fails \/ ~CreateOK("new"))
              \/ roll = "start" /\ roll' = "remove" /\ (Fails \/ ~PresentOK("new"))
  <2>1. cont' \in [Names -> ContainerStates]
    BY <1>1, <1>6 DEF TypeOK
  <2>2. ASSUME Calm, faults' = 0, NewContainer PROVE NewContainer'
    <3>1. ~Fails
      BY <1>1, <2>2, CalmWorks
    <3> QED
      BY <1>6, <2>2, <3>1 DEF NewContainer, PresentOK
  <2> QED
    BY <1>1, <1>2, <1>3, <1>5, <1>6, <2>1, <2>2, RollStep
<1>7. CASE Set("new", "created") /\ roll = "create" /\ roll' = "start" /\ CreateOK("new")
  <2>1. /\ cont' \in [Names -> ContainerStates] /\ cont'["new"] = "created"
        /\ cont'["cur"] = cont["cur"]
    BY <1>1, <1>7, SetTypes DEF Names, ContainerStates
  <2>2. NewContainer => NewContainer' /\ cont["new"] # "running"
    BY <1>7, <2>1 DEF NewContainer, CreateOK
  <2> QED
    BY <1>1, <1>2, <1>3, <1>5, <2>1, <2>2, RollStep
<1>8. CASE Set("new", "running") /\ roll = "start" /\ roll' = "wait"
  <2>1. /\ cont' \in [Names -> ContainerStates] /\ cont'["new"] = "running"
        /\ cont'["cur"] = cont["cur"]
    BY <1>1, <1>8, SetTypes DEF Names, ContainerStates
  <2>2. NewContainer'
    BY <1>8, <2>1 DEF NewContainer
  <2> QED
    BY <1>1, <1>2, <1>3, <1>5, <2>1, <2>2, RollStep
<1> QED
  BY <1>4, <1>6, <1>7, <1>8

LEMMA RollVerdictInv ==
  ASSUME RInv, RollVerdict
  PROVE  RInv'
<1>1. TypeOK /\ UNCHANGED <<cont, Watchers, job, stop, up, Snapshots, ops, report>>
  BY DEF RInv, RollVerdict
<1>2. faults' \in 0 .. MaxFaults /\ (faults' = 0 => faults = 0)
  BY <1>1, Counted DEF RollVerdict
<1>3. /\ ops' \in 0 .. MaxOps /\ report' \in {Nil, "running", "failed", "stopped"}
      /\ cont' \in [Names -> ContainerStates]
  BY <1>1 DEF TypeOK
<1>4. /\ roll = "wait"
      /\ \/ roll' = "cancel" /\ cont["new"] = "running"
         \/ roll' = "undoStop" /\ (Fails \/ cont["new"] # "running")
  BY Zenon DEF RollVerdict, RollGoes
<1>5. ~Replacing /\ roll' \in RollPcs
  BY <1>4 DEF Replacing, RollPcs
<1>6. ASSUME Calm, faults' = 0, NewContainer PROVE NewContainer'
  <2>1. ~Fails
    BY <1>1, <1>6, CalmWorks
  <2> QED
    BY <1>1, <1>4, <1>6, <2>1 DEF NewContainer
<1> QED
  BY <1>1, <1>2, <1>3, <1>5, <1>6, RollStep

LEMMA RollUndoInv ==
  ASSUME RInv, RollUndo
  PROVE  RInv'
<1>1. TypeOK /\ UNCHANGED <<Watchers, job, stop, up, Snapshots, ops, report>>
  BY DEF RInv, RollUndo
<1>2. faults' \in 0 .. MaxFaults /\ (faults' = 0 => faults = 0)
  <2>1. CASE UNCHANGED faults
    BY <1>1, <2>1 DEF TypeOK
  <2>2. CASE Works \/ Fails \/ Fault
    BY <1>1, <2>2, Counted
  <2> QED
    BY <2>1, <2>2, Zenon DEF RollUndo
<1>3. ops' \in 0 .. MaxOps /\ report' \in {Nil, "running", "failed", "stopped"}
  BY <1>1 DEF TypeOK
<1>4. roll \in {"undoStop", "undoRemove", "remove"} /\ roll' \in {"undoRemove", "done"}
  BY DEF RollUndo, RollGoes
<1>5. cont' \in [Names -> ContainerStates]
  <2>1. PICK s \in {"exited", "none"} : UNCHANGED cont \/ Set("new", s)
    BY DEF RollUndo
  <2>2. CASE UNCHANGED cont
    BY <1>1, <2>2 DEF TypeOK
  <2>3. CASE Set("new", s)
    BY <1>1, <2>3, SetTypes DEF Names, ContainerStates
  <2> QED
    BY <2>1, <2>2, <2>3
<1>6. ~Replacing /\ roll' \in RollPcs /\ ~NewContainer
  BY <1>4 DEF Replacing, RollPcs, NewContainer
<1> QED
  BY <1>1, <1>2, <1>3, <1>5, <1>6, RollStep

LEMMA RollRetireInv ==
  ASSUME RInv, RollRetire
  PROVE  RInv'
<1>1. TypeOK /\ UNCHANGED <<Watchers, job, stop, up, Snapshots, ops, report>>
  BY DEF RInv, RollRetire
<1>2. faults' \in 0 .. MaxFaults /\ (faults' = 0 => faults = 0)
  BY <1>1, Counted DEF RollRetire
<1>3. ops' \in 0 .. MaxOps /\ report' \in {Nil, "running", "failed", "stopped"}
  BY <1>1 DEF TypeOK
<1>4. \/ roll = "stopOld" /\ roll' = "removeOld"
      \/ roll = "removeOld" /\ roll' = "mark"
  BY DEF RollRetire, RollGoes
<1>5. /\ cont' \in [Names -> ContainerStates] /\ cont'["new"] = cont["new"]
      /\ cont["cur"] = "none" => cont'["cur"] = "none"
  <2>1. CASE UNCHANGED cont
    BY <1>1, <2>1 DEF TypeOK
  <2>2. CASE \E s \in {"exited", "none"} :
               Set("cur", s) /\ (cont["cur"] = "none" => s = "none")
    BY <1>1, <2>2, SetTypes DEF Names, ContainerStates
  <2> QED
    BY <2>1, <2>2 DEF RollRetire, PresentOK
<1>6. Replacing' /\ roll' \in RollPcs
  BY <1>4 DEF Replacing, RollPcs
<1>7. NewContainer => NewContainer' /\ cont["new"] = "running"
  BY <1>4, <1>5 DEF NewContainer
<1> QED
  BY <1>1, <1>2, <1>3, <1>5, <1>6, <1>7, RollStep

LEMMA RollRunningInv ==
  ASSUME RInv, RollRunning
  PROVE  RInv'
<1>1. TypeOK /\ UNCHANGED <<cont, Watchers, job, stop, up, Snapshots, ops, faults>>
  BY DEF RInv, RollRunning
<1>2. roll = "mark" /\ roll' = "watch" /\ report' = "running"
  BY DEF RollRunning, RollGoes, Notify
<1>3. ops' \in 0 .. MaxOps /\ faults' \in 0 .. MaxFaults /\ cont' \in [Names -> ContainerStates]
  BY <1>1 DEF TypeOK
<1>4. Replacing' /\ roll' \in RollPcs
  BY <1>2 DEF Replacing, RollPcs
<1>5. NewContainer => NewContainer'
  BY <1>1, <1>2 DEF NewContainer
<1> QED
  BY <1>1, <1>2, <1>3, <1>4, <1>5, RollStep

LEMMA RollCancelInv ==
  ASSUME RInv, RollCancel
  PROVE  RInv'
<1>1. UNCHANGED <<cont, stats, job, stop, up, snap, file, remote, index, ops, faults, report>>
  BY DEF RollCancel, Snapshots
<1>2. roll = "cancel" /\ roll' = "stopOld"
  BY DEF RollCancel, RollGoes
<1>3. WatchersOK' /\ Restarting' /\ Probing'
  BY <1>1, CancelTypes DEF RollCancel, Names
<1>4. TypeOK'
  BY <1>1, <1>2, <1>3 DEF RInv, TypeOK, WatchersOK
<1>5. Attended'
  BY <1>2 DEF Attended, Replacing
<1>6. NewContainer => NewContainer'
  BY <1>1, <1>2 DEF NewContainer
<1>7. Undisturbed'
  BY <1>1, <1>6, RollUndisturbed
<1> QED
  BY <1>3, <1>4, <1>5, <1>7 DEF RInv

LEMMA RollWatchInv ==
  ASSUME RInv, RollWatch
  PROVE  RInv'
<1>1. UNCHANGED <<cont, job, stop, up, snap, file, remote, index, ops, faults, report>>
  BY DEF RollWatch, Snapshots
<1>2. roll = "watch" /\ roll' = "done"
  BY DEF RollWatch, RollGoes
<1>3. WatchersOK' /\ Restarting' /\ Probing' /\ (up => Watched')
  BY Started DEF RollWatch, Names
<1>4. TypeOK'
  BY <1>1, <1>2, <1>3 DEF RInv, TypeOK, WatchersOK
<1>5. Attended'
  BY <1>1, <1>3 DEF Attended
<1>6. NewContainer => NewContainer'
  BY <1>1, <1>2 DEF NewContainer
<1>7. Undisturbed'
  BY <1>1, <1>6, RollUndisturbed
<1> QED
  BY <1>3, <1>4, <1>5, <1>7 DEF RInv

-----------------------------------------------------------------------------
(* A replica that is being stopped, or a handler that is down: nothing is
   promised but the types. *)
LEMMA StopStep ==
  ASSUME RInv, WatchersOK', Restarting', Probing',
         UNCHANGED <<job, roll, snap, file, remote, index>>,
         stop' \in {"idle", "stop", "remove", "mark", "done", "error"}, up' \in BOOLEAN,
         ops' \in 0 .. MaxOps, cont' \in [Names -> ContainerStates],
         faults' \in 0 .. MaxFaults, report' \in {Nil, "running", "failed", "stopped"},
         stop' # "idle" \/ ~up'
  PROVE  RInv'
<1>1. TypeOK'
  BY DEF RInv, TypeOK, WatchersOK
<1>2. Attended'
  BY DEF Attended
<1>3. Undisturbed'
  BY DEF Undisturbed, Calm
<1> QED
  BY <1>1, <1>2, <1>3 DEF RInv

LEMMA WatchersKept ==
  ASSUME RInv, UNCHANGED Watchers
  PROVE  WatchersOK' /\ Restarting' /\ Probing'
  BY DEF RInv, TypeOK, WatchersOK, Restarting, Probing, Watchers

LEMMA StopContainerInv ==
  ASSUME RInv, StopContainer
  PROVE  RInv'
<1>1. UNCHANGED <<cont, stats, job, roll, up, snap, file, remote, index, faults, report>>
  BY DEF StopContainer, Snapshots
<1>2. WatchersOK' /\ Restarting' /\ Probing'
  BY <1>1, CancelTypes DEF StopContainer, Names
<1>3. ops' \in 0 .. MaxOps
  BY RuntimeAssumption DEF RInv, TypeOK, StopContainer
<1>4. /\ cont' \in [Names -> ContainerStates] /\ faults' \in 0 .. MaxFaults
      /\ report' \in {Nil, "running", "failed", "stopped"} /\ up' \in BOOLEAN
  BY <1>1 DEF RInv, TypeOK
<1>5. stop' = "stop"
  BY DEF StopContainer
<1> QED
  BY <1>1, <1>2, <1>3, <1>4, <1>5, StopStep

LEMMA StopAndRemoveInv ==
  ASSUME RInv, StopAndRemove
  PROVE  RInv'
<1>1. /\ TypeOK /\ UNCHANGED <<Watchers, job, roll, up, ops, report>>
      /\ UNCHANGED <<snap, file, remote, index>>
  BY DEF RInv, StopAndRemove, Snapshots
<1>2. WatchersOK' /\ Restarting' /\ Probing'
  BY <1>1, WatchersKept
<1>3. faults' \in 0 .. MaxFaults
  BY <1>1, Counted DEF StopAndRemove, Call
<1>4. cont' \in [Names -> ContainerStates]
  <2>1. PICK s \in {"exited", "none"} : UNCHANGED cont \/ Set("cur", s)
    BY DEF StopAndRemove, Call
  <2>2. CASE UNCHANGED cont
    BY <1>1, <2>2 DEF TypeOK
  <2>3. CASE Set("cur", s)
    BY <1>1, <2>3, SetTypes DEF Names, ContainerStates
  <2> QED
    BY <2>1, <2>2, <2>3
<1>5. stop' \in {"remove", "error", "mark"}
  BY DEF StopAndRemove, Call
<1>6. ops' \in 0 .. MaxOps /\ report' \in {Nil, "running", "failed", "stopped"} /\ up' \in BOOLEAN
  BY <1>1 DEF TypeOK
<1> QED
  BY <1>1, <1>2, <1>3, <1>4, <1>5, <1>6, StopStep

LEMMA StopMarkInv ==
  ASSUME RInv, StopMark
  PROVE  RInv'
<1>1. /\ TypeOK /\ UNCHANGED <<cont, Watchers, job, roll, up, ops, faults>>
      /\ UNCHANGED <<snap, file, remote, index>>
  BY DEF RInv, StopMark, Snapshots
<1>2. WatchersOK' /\ Restarting' /\ Probing'
  BY <1>1, WatchersKept
<1>3. stop' = "done" /\ report' = "stopped"
  BY DEF StopMark, Notify
<1>4. /\ ops' \in 0 .. MaxOps /\ cont' \in [Names -> ContainerStates] /\ up' \in BOOLEAN
      /\ faults' \in 0 .. MaxFaults
  BY <1>1 DEF TypeOK
<1> QED
  BY <1>1, <1>2, <1>3, <1>4, StopStep

LEMMA HandlerStopInv ==
  ASSUME RInv, HandlerStop
  PROVE  RInv'
<1>1. /\ TypeOK /\ UNCHANGED <<cont, stats, job, roll, stop, ops, faults, report>>
      /\ UNCHANGED <<snap, file, remote, index>>
  BY DEF RInv, HandlerStop, Snapshots, Threads
<1>2. watch \in Seq(Watcher) /\ Len(watch) \in Nat /\ DOMAIN watch = 1 .. Len(watch)
  BY <1>1 DEF TypeOK
<1>3. watch' = [w \in DOMAIN watch |-> [watch[w] EXCEPT !.live = FALSE]]
  BY DEF HandlerStop
<1>4. ASSUME NEW w \in DOMAIN watch
      PROVE  /\ watch'[w] \in Watcher /\ watch'[w].pc = watch[w].pc
             /\ watch'[w].left = watch[w].left /\ watch'[w].live = FALSE
  <2>1. watch[w] \in Watcher /\ watch'[w] = [watch[w] EXCEPT !.live = FALSE]
    BY <1>2, <1>3
  <2> QED
    BY <2>1 DEF Watcher
<1>5. DOMAIN watch' = 1 .. Len(watch) /\ watch' \in [1 .. Len(watch) -> Watcher]
  <2>1. watch' = [w \in 1 .. Len(watch) |-> watch'[w]]
    BY <1>2, <1>3
  <2> QED
    BY <1>2, <1>4, <2>1
<1>6. watch' \in Seq(Watcher) /\ Len(watch') = Len(watch)
  BY <1>2, <1>5
<1>7. running' = [c \in Names |-> 0] /\ ~up' /\ up' \in BOOLEAN
  BY DEF HandlerStop
<1>8. WatchersOK'
  BY <1>1, <1>2, <1>6, <1>7 DEF WatchersOK, TypeOK
<1>9. Restarting' /\ Probing'
  BY <1>2, <1>4, <1>5 DEF RInv, Restarting, Probing
<1>10. /\ ops' \in 0 .. MaxOps /\ cont' \in [Names -> ContainerStates]
       /\ faults' \in 0 .. MaxFaults /\ report' \in {Nil, "running", "failed", "stopped"}
       /\ stop' \in {"idle", "stop", "remove", "mark", "done", "error"}
  BY <1>1 DEF TypeOK
<1> QED
  BY <1>1, <1>7, <1>8, <1>9, <1>10, StopStep

-----------------------------------------------------------------------------
(* The store, the index and the peers change, the replica does not. *)
LEMMA StoreStep ==
  ASSUME RInv, StoreOK', UNCHANGED <<cont, Watchers, Threads, up, file, ops, faults, report>>,
         remote' \in [Peers -> [Tags -> Shapes \cup {Nil}]], index' \subseteq Peers \X Tags,
         snap = <<>> => snap' = <<>>
  PROVE  RInv'
<1>1. UNCHANGED <<watch, running, stats, job, roll, stop>>
  BY DEF Watchers, Threads
<1>2. TypeOK'
  BY <1>1 DEF RInv, TypeOK, StoreOK
<1>3. Restarting' /\ Probing' /\ Attended'
  BY <1>1 DEF RInv, Restarting, Probing, Attended, Starting, Replacing, Watched
<1>4. Undisturbed'
  <2> SUFFICES ASSUME Calm' PROVE NewContainer' /\ Before' /\ OnlyWin'
    BY DEF Undisturbed
  <2>1. Calm
    BY <1>1 DEF Calm
  <2>2. NewContainer /\ Before /\ OnlyWin
    BY <2>1 DEF RInv, Undisturbed
  <2>3. NewContainer' /\ Before'
    BY <1>1, <2>2 DEF NewContainer, Before
  <2>4. OnlyWin'
    <3> SUFFICES ASSUME cont["new"] # "running", Len(job) = 1
                 PROVE  CurContainer(job[1])' /\ SnapshotOf(job[1])'
      BY <1>1 DEF OnlyWin
    <3>1. CurContainer(job[1]) /\ SnapshotOf(job[1])
      BY <2>2 DEF OnlyWin
    <3>2. CurContainer(job[1])'
      BY <1>1, <3>1 DEF CurContainer
    <3>3. SnapshotOf(job[1])'
      BY <1>1, <3>1 DEF SnapshotOf
    <3> QED
      BY <3>2, <3>3
  <2> QED
    BY <2>3, <2>4
<1> QED
  BY <1>2, <1>3, <1>4 DEF RInv

LEMMA EvictExpiredInv ==
  ASSUME RInv, EvictExpired
  PROVE  RInv'
<1> DEFINE K == {i \in DOMAIN snap : snap[i].inUse \/ ~snap[i].old}
<1>1. TypeOK /\ UNCHANGED <<cont, Watchers, Threads, up, file, remote, index, ops, faults, report>>
  BY DEF RInv, EvictExpired
<1>2. PICK f \in InOrder(K) : snap' = Left(f)
  BY DEF EvictExpired
<1>3. K \in SUBSET (DOMAIN snap)
  OBVIOUS
<1> HIDE DEF K
<1>4. StoreOK'
  <2>1. /\ Left(f) \in Seq(Row) /\ DOMAIN Left(f) = DOMAIN f
        /\ \A j \in DOMAIN f : f[j] \in K /\ Left(f)[j] = snap[f[j]]
        /\ \A i, j \in DOMAIN f : snap[f[i]].tag = snap[f[j]].tag => i = j
    BY <1>1, <1>2, <1>3, LeftRows
  <2> QED
    BY <1>2, <2>1 DEF StoreOK
<1>5. snap # <<>>
  BY DEF EvictExpired
<1>6. remote' \in [Peers -> [Tags -> Shapes \cup {Nil}]] /\ index' \subseteq Peers \X Tags
  BY <1>1 DEF TypeOK
<1> QED
  BY <1>1, <1>4, <1>5, <1>6, StoreStep

(* The rows from position m on. *)
LEMMA Newest ==
  ASSUME NEW S, NEW s \in Seq(S), NEW m \in 1 .. Len(s) + 1, NEW d, d = SubSeq(s, m, Len(s))
  PROVE  /\ d \in Seq(S)
         /\ \A i \in DOMAIN d : i \in Nat /\ i + m - 1 \in DOMAIN s /\ d[i] = s[i + m - 1]
  OBVIOUS

LEMMA EvictOverCapInv ==
  ASSUME RInv, EvictOverCap
  PROVE  RInv'
<1>1. TypeOK /\ UNCHANGED <<cont, Watchers, Threads, up, file, remote, index, ops, faults, report>>
  BY DEF RInv, EvictOverCap
<1>2. snap \in Seq(Row) /\ Len(snap) \in Nat /\ MaxPerCapsule \in Nat /\ Len(snap) > MaxPerCapsule
  BY <1>1, RuntimeAssumption DEF TypeOK, EvictOverCap
<1>3. PICK m : m = Len(snap) - MaxPerCapsule + 1
  OBVIOUS
<1>4. m \in 1 .. Len(snap) + 1
  BY <1>2, <1>3
<1>5. snap' = SubSeq(snap, m, Len(snap))
  BY <1>3 DEF EvictOverCap
<1>6. /\ snap' \in Seq(Row)
      /\ \A i \in DOMAIN snap' :
           i \in Nat /\ i + m - 1 \in DOMAIN snap /\ snap'[i] = snap[i + m - 1]
  BY <1>2, <1>4, <1>5, Newest
<1>7. ASSUME NEW i \in DOMAIN snap', NEW j \in DOMAIN snap', snap'[i].tag = snap'[j].tag
      PROVE  i = j
  <2>1. snap[i + m - 1].tag = snap[j + m - 1].tag
    BY <1>6, <1>7
  <2>2. i + m - 1 = j + m - 1
    BY <1>1, <1>6, <2>1 DEF TypeOK
  <2>3. i \in Nat /\ j \in Nat /\ m \in Nat
    BY <1>4, <1>6
  <2> QED
    BY <2>2, <2>3
<1>8. StoreOK'
  BY <1>6, <1>7 DEF StoreOK
<1>9. snap # <<>>
  BY <1>2
<1>10. remote' \in [Peers -> [Tags -> Shapes \cup {Nil}]] /\ index' \subseteq Peers \X Tags
  BY <1>1 DEF TypeOK
<1> QED
  BY <1>1, <1>8, <1>9, <1>10, StoreStep

LEMMA AgeInv ==
  ASSUME RInv, Age
  PROVE  RInv'
<1>1. TypeOK /\ UNCHANGED <<cont, Watchers, Threads, up, file, remote, index, ops, faults, report>>
  BY DEF RInv, Age
<1>2. snap \in Seq(Row) /\ Len(snap) \in Nat /\ DOMAIN snap = 1 .. Len(snap)
  BY <1>1 DEF TypeOK
<1>3. snap' = [i \in DOMAIN snap |-> [snap[i] EXCEPT !.old = TRUE]]
  BY DEF Age
<1>4. ASSUME NEW i \in DOMAIN snap PROVE snap'[i] \in Row /\ snap'[i].tag = snap[i].tag
  <2>1. snap[i] \in Row /\ snap'[i] = [snap[i] EXCEPT !.old = TRUE]
    BY <1>2, <1>3
  <2> QED
    BY <2>1 DEF Row
<1>5. DOMAIN snap' = 1 .. Len(snap) /\ snap' \in [1 .. Len(snap) -> Row]
  <2>1. snap' = [i \in 1 .. Len(snap) |-> snap'[i]]
    BY <1>2, <1>3
  <2> QED
    BY <1>2, <1>4, <2>1
<1>6. snap' \in Seq(Row)
  BY <1>2, <1>5
<1>7. StoreOK'
  BY <1>1, <1>2, <1>4, <1>5, <1>6 DEF StoreOK, TypeOK
<1>8. snap # <<>>
  BY DEF Age
<1>9. remote' \in [Peers -> [Tags -> Shapes \cup {Nil}]] /\ index' \subseteq Peers \X Tags
  BY <1>1 DEF TypeOK
<1> QED
  BY <1>1, <1>7, <1>8, <1>9, StoreStep

LEMMA PeersInv ==
  ASSUME RInv, NEW p \in Peers, NEW t \in Tags, PeerEvicts(p, t) \/ ConsumeGossip(p, t)
  PROVE  RInv'
<1>1. TypeOK /\ UNCHANGED <<cont, Watchers, Threads, up, snap, file, ops, faults, report>>
  BY DEF RInv, PeerEvicts, ConsumeGossip
<1>2. StoreOK'
  BY <1>1, StoreKept
<1>3. remote' \in [Peers -> [Tags -> Shapes \cup {Nil}]]
  <2>1. remote \in [Peers -> [Tags -> Shapes \cup {Nil}]]
    BY <1>1 DEF TypeOK
  <2>2. CASE UNCHANGED remote
    BY <2>1, <2>2
  <2>3. CASE PeerEvicts(p, t)
    <3>1. remote' = [remote EXCEPT ![p] = [remote[p] EXCEPT ![t] = Nil]]
      BY <2>3 DEF PeerEvicts
    <3>2. [remote[p] EXCEPT ![t] = Nil] \in [Tags -> Shapes \cup {Nil}]
      BY <2>1
    <3> QED
      BY <2>1, <3>1, <3>2
  <2> QED
    BY <2>2, <2>3 DEF ConsumeGossip
<1>4. index' \subseteq Peers \X Tags
  BY <1>1 DEF TypeOK, PeerEvicts, ConsumeGossip
<1> QED
  BY <1>1, <1>2, <1>3, <1>4, StoreStep

-----------------------------------------------------------------------------
LEMMA HandleElectionWonInv ==
  ASSUME RInv, NEW t \in Tags, HandleElectionWon(t)
  PROVE  RInv'
<1>1. /\ TypeOK /\ job \in Seq(Job)
      /\ UNCHANGED <<cont, watch, running, stats, roll, stop, up, snap, file, remote, index,
                     faults, report>>
  BY DEF RInv, TypeOK, HandleElectionWon, Watchers, Snapshots
<1>2. PICK r : r = [pc |-> "spec", tag |-> t, cold |-> FALSE, from |-> Nil,
                    tried |-> {}, out |-> Nil]
  OBVIOUS
<1>3. r \in Job /\ r.pc = "spec" /\ r.tag = t /\ r.cold = FALSE
  BY <1>2 DEF Job, JobSteps
<1>4. job' = Append(job, r)
  BY <1>2 DEF HandleElectionWon
<1>5. /\ job' \in Seq(Job) /\ Len(job') = Len(job) + 1 /\ Len(job) \in Nat
      /\ DOMAIN job = 1 .. Len(job) /\ DOMAIN job' = 1 .. Len(job) + 1
      /\ job'[Len(job) + 1] = r
  BY <1>1, <1>3, <1>4, Extended
<1>6. ops' \in 0 .. MaxOps
  BY <1>1, RuntimeAssumption DEF TypeOK, HandleElectionWon
<1>7. TypeOK'
  BY <1>1, <1>5, <1>6 DEF TypeOK
<1>8. Restarting' /\ Probing'
  BY <1>1 DEF RInv, Restarting, Probing
<1>9. Attended'
  <2>1. Len(job) + 1 \in DOMAIN job'
    BY <1>5
  <2> QED
    BY <1>3, <1>5, <2>1 DEF Attended, Starting
<1>10. Undisturbed'
  <2> SUFFICES ASSUME Calm' PROVE NewContainer' /\ Before' /\ OnlyWin'
    BY DEF Undisturbed
  <2>1. Len(job) = 0
    <3>1. Len(job') <= 1
      BY DEF Calm
    <3> QED
      BY <1>5, <3>1
  <2>2. up' /\ faults' = 0 /\ stop' = "idle"
    BY DEF Calm
  <2>3. Len(job) <= 1
    BY <2>1
  <2>4. Calm
    BY <1>1, <2>2, <2>3 DEF Calm
  <2>5. NewContainer /\ cont["cur"] = "none" /\ snap = <<>> /\ file[t] = "none"
    BY <2>1, <2>4 DEF RInv, Undisturbed, Before
  <2>6. Len(job') = 1 /\ job'[1] = r
    BY <1>5, <2>1
  <2>7. NewContainer'
    BY <1>1, <2>5 DEF NewContainer
  <2>8. Before'
    BY <2>6 DEF Before
  <2>9. CurContainer(r)' /\ SnapshotOf(r)'
    BY <1>1, <1>3, <2>5 DEF CurContainer, SnapshotOf
  <2>10. OnlyWin'
    BY <2>6, <2>9 DEF OnlyWin
  <2> QED
    BY <2>7, <2>8, <2>10
<1> QED
  BY <1>7, <1>8, <1>9, <1>10 DEF RInv

LEMMA CrashInv ==
  ASSUME RInv, NEW c \in Names, Crash(c)
  PROVE  RInv'
<1>1. /\ TypeOK
      /\ UNCHANGED <<watch, running, stats, job, roll, stop, up, snap, file, remote, index,
                     ops, report>>
  BY DEF RInv, Crash, Watchers, Threads, Snapshots
<1>2. cont' \in [Names -> ContainerStates]
  BY <1>1, SetTypes DEF Crash, ContainerStates
<1>3. faults' \in 0 .. MaxFaults /\ faults' # 0
  <2>1. faults' \in 0 .. MaxFaults
    BY <1>1, Counted DEF Crash
  <2>2. faults \in Nat /\ faults' = faults + 1
    BY <1>1 DEF TypeOK, Crash, Fault
  <2> QED
    BY <2>1, <2>2
<1>4. TypeOK'
  BY <1>1, <1>2, <1>3 DEF TypeOK
<1>5. Restarting' /\ Probing' /\ Attended'
  BY <1>1 DEF RInv, Restarting, Probing, Attended, Starting, Replacing, Watched
<1>6. Undisturbed'
  BY <1>3 DEF Undisturbed, Calm
<1> QED
  BY <1>4, <1>5, <1>6 DEF RInv

-----------------------------------------------------------------------------
LEMMA RInit == Init => RInv
<1> SUFFICES ASSUME Init PROVE RInv
  OBVIOUS
<1>1. TypeOK
  BY RuntimeAssumption DEF Init, TypeOK, Names, ContainerStates
<1>2. Restarting /\ Probing /\ Attended
  BY DEF Init, Restarting, Probing, Attended
<1>3. NewContainer /\ Before
  BY DEF Init, NewContainer, Before, Names
<1>4. Len(job) = 0
  BY DEF Init
<1>5. OnlyWin
  BY <1>4 DEF OnlyWin
<1> QED
  BY <1>1, <1>2, <1>3, <1>5 DEF RInv, Undisturbed

LEMMA RStutter ==
  ASSUME RInv, UNCHANGED vars
  PROVE  RInv'
<1>1. UNCHANGED <<cont, Watchers, Threads, up, file, ops, faults, report>> /\ UNCHANGED <<snap, remote, index>>
  BY DEF vars, Watchers, Threads
<1>2. TypeOK
  BY DEF RInv
<1>3. StoreOK' /\ remote' \in [Peers -> [Tags -> Shapes \cup {Nil}]] /\ index' \subseteq Peers \X Tags
  BY <1>1, <1>2, StoreKept DEF TypeOK
<1> QED
  BY <1>1, <1>3, StoreStep

LEMMA RNext == RInv /\ [Next]_vars => RInv'
<1> SUFFICES ASSUME RInv, [Next]_vars PROVE RInv'
  OBVIOUS
<1>1. ASSUME NEW i \in DOMAIN job, StartSteps(i) PROVE RInv'
  BY <1>1, StartContainerInv, PullHolderInv, HoldersTriedInv, QueryFirstResponderInv,
     FetchSnapshotInv, RestoreFromSnapshotInv, UseSnapshotInv, ColdPullInv, ColdCreateInv,
     ColdStartInv, ColdRemoveInv, OnContainerRunningInv, WatchContainerInv
     DEF StartSteps
<1>2. ASSUME NEW i \in DOMAIN job, CaptureSteps(i) PROVE RInv'
  BY <1>2, CaptureCheckpointInv, CaptureRecordInv, CaptureRestartInv DEF CaptureSteps
<1>3. ASSUME NEW w \in DOMAIN watch, WatchSteps(w) PROVE RInv'
  BY <1>3, StatsEndInv, ProbeInv, WatchPollInv, WatchExitInv, WatchRestartInv, WatchReportInv
     DEF WatchSteps
<1>4. CASE RollBegin \/ RollSteps
  BY <1>4, RollBeginInv, RollMakeInv, RollVerdictInv, RollUndoInv, RollCancelInv,
     RollRetireInv, RollRunningInv, RollWatchInv DEF RollSteps
<1>5. CASE StopContainer \/ StopAndRemove \/ StopMark \/ HandlerStop
  BY <1>5, StopContainerInv, StopAndRemoveInv, StopMarkInv, HandlerStopInv
<1>6. CASE StoreSteps
  BY <1>6, EvictExpiredInv, EvictOverCapInv, AgeInv, PeersInv DEF StoreSteps
<1>7. ASSUME NEW t \in Tags, HandleElectionWon(t) PROVE RInv'
  BY <1>7, HandleElectionWonInv
<1>8. ASSUME NEW c \in Names, Crash(c) PROVE RInv'
  BY <1>8, CrashInv
<1>9. CASE UNCHANGED vars
  BY <1>9, RStutter
<1> QED
  BY <1>1, <1>2, <1>3, <1>4, <1>5, <1>6, <1>7, <1>8, <1>9 DEF Next

-----------------------------------------------------------------------------
(* The handler's threads, watchers and containers keep their types, each
   registered cancel belongs to a watcher of its container, and the snapshot
   store has one row for a tag, for any tags, peers and bounds. *)
THEOREM RuntimeTypeCorrect == Spec => []TypeOK
<1>1. RInv => TypeOK
  BY DEF RInv
<1> QED
  BY <1>1, RInit, RNext, PTL DEF Spec

LEMMA AttendedIsReported == RInv => DeathIsReported
<1> SUFFICES ASSUME RInv, Settled, up, stop = "idle", job # <<>>, ~Serving, report # "failed"
             PROVE  /\ Retries = 0
                    /\ \E w \in DOMAIN watch :
                         /\ watch[w].pc = "poll"
                         /\ cont[watch[w].c] \in {"none", "created", "checkpointed"}
  BY DEF DeathIsReported
<1>1. Starting \/ Replacing \/ Watched
  BY DEF RInv, Attended
<1>2. ~Starting /\ ~Replacing
  BY DEF Settled, Starting, Replacing
<1>3. PICK w \in DOMAIN watch : Answers(watch[w])
  BY <1>1, <1>2 DEF Watched, Answers
<1>4. watch[w].pc = "poll" /\ watch[w].live /\ ~Exited(watch[w].c)
  BY <1>3 DEF Settled, Answers
<1>5. watch[w].c \in Names /\ cont[watch[w].c] \in ContainerStates /\ Retries \in Nat
  BY WatchTypes, RuntimeAssumption DEF RInv, TypeOK
<1>6. cont[watch[w].c] # "running"
  BY <1>5 DEF Serving
<1>7. cont[watch[w].c] \in {"none", "created", "checkpointed"}
  BY <1>4, <1>5, <1>6 DEF ContainerStates, Exited
<1>8. ~(watch[w].probes < Retries)
  BY <1>4, <1>6 DEF Settled
<1>9. ~(Retries > 0)
  BY <1>4, <1>8 DEF RInv, Probing
<1>10. Retries = 0
  BY <1>5, <1>9
<1> QED
  BY <1>4, <1>7, <1>10

(* A replica without a running container has been reported as failed, or a
   thread, a rolling update or a watcher still answers for it; with a health
   check there is no exception (startContainer, captureSnapshot,
   watchContainer, the health checker and RollingUpdate). *)
THEOREM DeathsAreReported == Spec => []DeathIsReported
  BY AttendedIsReported, RInit, RNext, PTL DEF Spec

LEMMA UndisturbedServes == RInv => ZeroDowntime
<1> SUFFICES ASSUME RInv, up, faults = 0, stop = "idle", Len(job) = 1,
                    job[1].pc = "done", job[1].out = "running"
             PROVE  Serving
  BY DEF ZeroDowntime
<1>1. Calm
  BY DEF Calm
<1>2. OnlyWin
  BY <1>1 DEF RInv, Undisturbed
<1>3. CASE cont["new"] = "running"
  BY <1>3 DEF Serving, Names
<1>4. CASE cont["new"] # "running"
  BY <1>2, <1>4 DEF OnlyWin, CurContainer, Serving, Names
<1> QED
  BY <1>3, <1>4

(* RollingUpdate is without downtime as long as no call fails and the replica
   was won once, however many updates follow one another and wherever the
   watchers, the eviction of snapshots and the gossip of peers step in. *)
THEOREM RollingUpdateServes == Spec => []ZeroDowntime
  BY UndisturbedServes, RInit, RNext, PTL DEF Spec

-----------------------------------------------------------------------------
(* Metrics and gravity. *)

(* A node does not send a sample to itself: what keeps its own row out of
   its peers' when a sample arrives. *)
Elsewhere == \A m \in gossip : m.from # m.to

MInv == MTypeOK /\ Elsewhere

LEMMA MInitInv == MInit => MInv
<1> SUFFICES ASSUME MInit PROVE MInv
  OBVIOUS
<1>1. Elsewhere
  BY DEF MInit, Elsewhere
<1>2. HistoryDepth \in Nat
  BY MetricsAssumption
<1>3. history \in [Nodes -> Seq(Samples)]
  BY DEF MInit
<1>4. peerLatest \in [Nodes -> [Nodes -> Samples \cup {Absent}]]
  BY DEF MInit
<1>5. \A n \in Nodes : Len(history[n]) <= HistoryDepth /\ peerLatest[n][n] = Absent
  BY <1>2 DEF MInit
<1>6. /\ gossip \subseteq [from : Nodes, to : Nodes, sample : Samples]
      /\ joined \subseteq Nodes
      /\ DOMAIN entry = Nodes /\ \A n \in Nodes : entry[n] \in OwnRow(n) \cup {Absent}
      /\ calculator \in [Nodes -> Calculators]
  BY DEF MInit, Calculators
<1> QED
  BY <1>1, <1>3, <1>4, <1>5, <1>6 DEF MInv, MTypeOK

(* The window stays a window. *)
LEMMA InsertLocalBound ==
  ASSUME NEW rows \in Seq(Samples), Len(rows) <= HistoryDepth, NEW s \in Samples
  PROVE  InsertLocal(rows, s) \in Seq(Samples) /\ Len(InsertLocal(rows, s)) <= HistoryDepth
<1>1. HistoryDepth \in Nat \ {0}
  BY MetricsAssumption
<1>2. /\ Append(rows, s) \in Seq(Samples)
      /\ Len(Append(rows, s)) = Len(rows) + 1 /\ Append(rows, s) # <<>>
      /\ Len(rows) \in Nat
  OBVIOUS
<1>3. /\ Tail(Append(rows, s)) \in Seq(Samples)
      /\ Len(Tail(Append(rows, s))) = Len(Append(rows, s)) - 1
  BY <1>2
<1>4. CASE Len(Append(rows, s)) > HistoryDepth
  BY <1>1, <1>2, <1>3, <1>4 DEF InsertLocal
<1>5. CASE ~(Len(Append(rows, s)) > HistoryDepth)
  BY <1>1, <1>2, <1>5 DEF InsertLocal
<1> QED
  BY <1>4, <1>5

(* Envelopes go from the node to the others. *)
LEMMA EnvelopesOK ==
  ASSUME NEW n \in Nodes, NEW s \in Samples
  PROVE  /\ Envelopes(n, s) \subseteq [from : Nodes, to : Nodes, sample : Samples]
         /\ \A m \in Envelopes(n, s) : m.from # m.to
BY DEF Envelopes

LEMMA SampleInv ==
  ASSUME MInv, NEW n \in Nodes, Sample(n)
  PROVE  MInv'
<1>1. PICK s \in Samples : handleLocalSnapshot(n, s)
  BY DEF Sample
<1>2. UNCHANGED <<peerLatest, joined, entry, calculator>>
  BY <1>1 DEF handleLocalSnapshot
<1>3. /\ history' \in [Nodes -> Seq(Samples)]
      /\ \A x \in Nodes : Len(history'[x]) <= HistoryDepth
  <2>0. /\ history \in [Nodes -> Seq(Samples)]
        /\ \A x \in Nodes : Len(history[x]) <= HistoryDepth
    BY DEF MInv, MTypeOK
  <2>1. CASE history' = [history EXCEPT ![n] = InsertLocal(history[n], s)]
    <3>1. /\ InsertLocal(history[n], s) \in Seq(Samples)
          /\ Len(InsertLocal(history[n], s)) <= HistoryDepth
      BY <2>0, InsertLocalBound
    <3> HIDE DEF InsertLocal
    <3> QED
      BY <2>0, <2>1, <3>1
  <2>2. CASE history' = history
    BY <2>0, <2>2
  <2> QED
    BY <1>1, <2>1, <2>2 DEF handleLocalSnapshot
<1>4. /\ gossip' \subseteq [from : Nodes, to : Nodes, sample : Samples]
      /\ \A m \in gossip' : m.from # m.to
  <2>0. /\ gossip \subseteq [from : Nodes, to : Nodes, sample : Samples]
        /\ \A m \in gossip : m.from # m.to
    BY DEF MInv, MTypeOK, Elsewhere
  <2>1. CASE gossip' = gossip \cup Envelopes(n, s)
    BY <2>0, <2>1, EnvelopesOK, Zenon
  <2>2. CASE gossip' = gossip
    BY <2>0, <2>2, Zenon
  <2> QED
    BY <1>1, <2>1, <2>2 DEF handleLocalSnapshot, Publish
<1> QED
  BY <1>2, <1>3, <1>4 DEF MInv, MTypeOK, Elsewhere

LEMMA ReceiveSampleInv ==
  ASSUME MInv, ReceiveSample
  PROVE  MInv'
<1>1. PICK m \in gossip : /\ UpsertPeer(m.to, m.from, m.sample)
                          /\ gossip' = gossip \ {m}
                          /\ UNCHANGED <<history, joined, entry, calculator>>
  BY DEF ReceiveSample
<1>2. m \in [from : Nodes, to : Nodes, sample : Samples] /\ m.from # m.to
  BY <1>1 DEF MInv, MTypeOK, Elsewhere
<1>3. m.from \in Nodes /\ m.to \in Nodes /\ m.sample \in Samples
  BY <1>2
<1>4. /\ peerLatest \in [Nodes -> [Nodes -> Samples \cup {Absent}]]
      /\ \A n \in Nodes : peerLatest[n][n] = Absent
  BY DEF MInv, MTypeOK
<1>5. peerLatest' = [peerLatest EXCEPT ![m.to] =
                       [peerLatest[m.to] EXCEPT ![m.from] = m.sample]]
  BY <1>1 DEF UpsertPeer
<1>6. peerLatest' \in [Nodes -> [Nodes -> Samples \cup {Absent}]]
  BY <1>3, <1>4, <1>5
<1>7. \A n \in Nodes : peerLatest'[n][n] = Absent
  BY <1>2, <1>3, <1>4, <1>5
<1> QED
  BY <1>1, <1>6, <1>7 DEF MInv, MTypeOK, Elsewhere

LEMMA WritesInv ==
  ASSUME MInv, NEW n \in Nodes, NEW row \in OwnRow(n) \cup {Absent}, Writes(n, row)
  PROVE  MInv'
<1>1. entry' = [entry EXCEPT ![n] = row] /\ DOMAIN entry = Nodes
  BY DEF Writes, MInv, MTypeOK
<1>2. DOMAIN entry' = Nodes /\ entry'[n] = row /\ \A m \in Nodes \ {n} : entry'[m] = entry[m]
  BY <1>1
<1>3. \A m \in Nodes : entry'[m] \in OwnRow(m) \cup {Absent}
  BY <1>2 DEF MInv, MTypeOK
<1> QED
  BY <1>2, <1>3 DEF MInv, MTypeOK, Elsewhere, Writes

LEMMA OwnRowInv ==
  ASSUME MInv, NEW n \in Nodes, NoteOwnRow(n) \/ SyncOwnRow(n) \/ JudgeOwnRow(n)
  PROVE  MInv'
<1>1. CASE NoteOwnRow(n)
  <2>1. PICK caps \in {Advertised[n], Absent} :
          Writes(n, [status |-> "active", datacenter |-> Cluster.datacenter,
                     capabilities |-> caps])
    BY <1>1 DEF NoteOwnRow
  <2>2. [status |-> "active", datacenter |-> Cluster.datacenter, capabilities |-> caps]
          \in OwnRow(n)
    BY MetricsAssumption DEF OwnRow
  <2> QED
    BY <2>1, <2>2, WritesInv
<1>2. CASE SyncOwnRow(n)
  <2>1. PICK status \in Statuses, caps \in {Advertised[n], Absent} :
          Writes(n, [status |-> status, datacenter |-> "", capabilities |-> caps])
    BY <1>2 DEF SyncOwnRow
  <2>2. [status |-> status, datacenter |-> "", capabilities |-> caps] \in OwnRow(n)
    BY DEF OwnRow
  <2> QED
    BY <2>1, <2>2, WritesInv
<1>3. CASE JudgeOwnRow(n)
  <2>1. entry[n] \in OwnRow(n)
    BY <1>3 DEF JudgeOwnRow, MInv, MTypeOK
  <2>2. ASSUME NEW status \in Statuses, Writes(n, [entry[n] EXCEPT !.status = status])
        PROVE  MInv'
    <3>1. [entry[n] EXCEPT !.status = status] \in OwnRow(n)
      BY <2>1 DEF OwnRow
    <3> QED
      BY <2>2, <3>1, WritesInv
  <2>3. CASE Writes(n, Absent)
    BY <2>3, WritesInv
  <2> QED
    BY <1>3, <2>2, <2>3 DEF JudgeOwnRow
<1> QED
  BY <1>1, <1>2, <1>3

LEMMA CalculatorInv ==
  ASSUME MInv, NEW n \in Nodes, SetClusterCalculator(n) \/ RestartMetrics(n)
  PROVE  MInv'
<1>1. \E x \in Calculators : calculator' = [calculator EXCEPT ![n] = x]
  BY DEF SetClusterCalculator, RestartMetrics, Calculators
<1>2. calculator' \in [Nodes -> Calculators]
  BY <1>1 DEF MInv, MTypeOK
<1>3. joined' \subseteq joined /\ UNCHANGED <<history, peerLatest, gossip, entry>>
  BY DEF SetClusterCalculator, RestartMetrics
<1> QED
  BY <1>2, <1>3 DEF MInv, MTypeOK, Elsewhere

LEMMA MStepInv == MInv /\ [MNext]_mvars => MInv'
<1> SUFFICES ASSUME MInv, [MNext]_mvars PROVE MInv'
  OBVIOUS
<1>1. ASSUME NEW n \in Nodes, Sample(n) PROVE MInv'
  BY <1>1, SampleInv
<1>2. CASE ReceiveSample
  BY <1>2, ReceiveSampleInv
<1>3. CASE LoseSample
  BY <1>3 DEF LoseSample, MInv, MTypeOK, Elsewhere
<1>4. ASSUME NEW n \in Nodes, JoinMetrics(n) PROVE MInv'
  BY <1>4 DEF JoinMetrics, MInv, MTypeOK, Elsewhere
<1>5. ASSUME NEW n \in Nodes, LeaveMetrics(n) PROVE MInv'
  BY <1>5 DEF LeaveMetrics, MInv, MTypeOK, Elsewhere
<1>6. ASSUME NEW n \in Nodes, NoteOwnRow(n) \/ SyncOwnRow(n) \/ JudgeOwnRow(n) PROVE MInv'
  BY <1>6, OwnRowInv
<1>8. ASSUME NEW n \in Nodes, SetClusterCalculator(n) \/ RestartMetrics(n) PROVE MInv'
  BY <1>8, CalculatorInv
<1>7. CASE UNCHANGED mvars
  BY <1>7 DEF mvars, MInv, MTypeOK, Elsewhere
<1> QED
  BY <1>1, <1>2, <1>3, <1>4, <1>5, <1>6, <1>7, <1>8 DEF MNext

(* The variables of the metrics keep their types, the window of samples its
   bound, and no node has a row of its own among its peers (InsertLocal,
   Subscriber.handle). *)
THEOREM MetricsTypeCorrect == MSpec => []MTypeOK
<1>1. MInit => MInv
  BY MInitInv
<1>2. MInv /\ [MNext]_mvars => MInv'
  BY MStepInv
<1>3. MInv => MTypeOK
  BY DEF MInv
<1> QED
  BY <1>1, <1>2, <1>3, PTL DEF MSpec
-----------------------------------------------------------------------------
(* Facts of arithmetic. *)

LEMMA Division ==
  ASSUME NEW a \in Nat, NEW b \in Nat \ {0}
  PROVE  /\ a \div b \in Nat
         /\ (a \div b) * b <= a
         /\ a < (a \div b) * b + b
OBVIOUS

LEMMA Scaled ==
  ASSUME NEW x \in Int, NEW y \in Int, NEW z \in Nat, x <= y
  PROVE  x * z <= y * z
<1>1. PICK d \in Nat : y = x + d
  <2>1. y - x \in Nat /\ y = x + (y - x)
    OBVIOUS
  <2> QED
    BY <2>1
<1>2. d * z \in Nat
  OBVIOUS
<1>3. y * z = x * z + d * z
  BY <1>1
<1> QED
  BY <1>2, <1>3

LEMMA CommonFactor ==
  ASSUME NEW x \in Int, NEW y \in Int, NEW z \in Nat \ {0}, x * z <= y * z
  PROVE  x <= y
<1> SUFFICES ASSUME y + 1 <= x PROVE FALSE
  OBVIOUS
<1>1. (y + 1) * z <= x * z
  BY Scaled
<1>2. (y + 1) * z = y * z + z
  OBVIOUS
<1> QED
  BY <1>1, <1>2

(* A quotient is at least any number whose multiple fits. *)
LEMMA QuotientAtLeast ==
  ASSUME NEW a \in Nat, NEW b \in Nat \ {0}, NEW q \in Nat, q * b <= a
  PROVE  q <= a \div b
<1> DEFINE d == a \div b
<1>1. d \in Nat /\ a < d * b + b
  BY Division
<1> HIDE DEF d
<1>2. (d + 1) * b = d * b + b
  BY <1>1
<1>3. d * b \in Int /\ q * b \in Int
  BY <1>1
<1> SUFFICES ASSUME d + 1 <= q PROVE FALSE
  BY <1>1 DEF d
<1>4. (d + 1) * b <= q * b
  BY <1>1, Scaled
<1> QED
  BY <1>1, <1>2, <1>3, <1>4

(* A share of a whole is between 0 and 100. *)
LEMMA PercentRange ==
  ASSUME NEW p \in Nat, NEW t \in Nat \ {0}
  PROVE  Percent(p, t) \in 0..100
<1>1. CASE p > t
  BY <1>1 DEF Percent
<1>2. CASE p <= t
  <2> DEFINE q == (100 * p) \div t
  <2>1. Percent(p, t) = q
    BY <1>2 DEF Percent
  <2>2. q \in Nat /\ q * t <= 100 * p
    BY Division
  <2> HIDE DEF q
  <2>3. q * t <= 100 * t
    BY <1>2, <2>2
  <2>4. q <= 100
    BY <2>2, <2>3, CommonFactor
  <2> QED
    BY <2>1, <2>2, <2>4
<1> QED
  BY <1>1, <1>2

(* Shares compare as the fractions do, although they are rounded down and
   cut off at 100. *)
LEMMA PercentMonotone ==
  ASSUME NEW pa \in Nat, NEW ta \in Nat \ {0}, NEW pb \in Nat, NEW tb \in Nat \ {0},
         pa * tb >= pb * ta
  PROVE  Percent(pa, ta) >= Percent(pb, tb)
<1>1. Percent(pa, ta) \in 0..100 /\ Percent(pb, tb) \in 0..100
  BY PercentRange
<1>2. CASE pa > ta
  <2>1. Percent(pa, ta) = 100
    BY <1>2 DEF Percent
  <2> QED
    BY <1>1, <2>1
<1>3. CASE pa <= ta /\ pb > tb
  <2>1. pa * tb <= ta * tb
    BY <1>3, Scaled
  <2>2. (tb + 1) * ta <= pb * ta
    BY <1>3, Scaled
  <2>3. (tb + 1) * ta = ta * tb + ta
    OBVIOUS
  <2>4. pa * tb \in Int /\ pb * ta \in Int /\ ta * tb \in Int
    OBVIOUS
  <2> QED
    BY <2>1, <2>2, <2>3, <2>4
<1>4. CASE pa <= ta /\ pb <= tb
  <2> DEFINE q == (100 * pb) \div tb
  <2>1. Percent(pa, ta) = (100 * pa) \div ta /\ Percent(pb, tb) = q
    BY <1>4 DEF Percent
  <2>2. q \in Nat /\ q * tb <= 100 * pb
    BY Division
  <2> HIDE DEF q
  <2>3. (q * tb) * ta <= (100 * pb) * ta
    BY <2>2, Scaled
  <2>4. (100 * pb) * ta = 100 * (pb * ta) /\ (100 * pa) * tb = 100 * (pa * tb)
    OBVIOUS
  <2>5. 100 * (pb * ta) <= 100 * (pa * tb)
    OBVIOUS
  <2>6. (q * tb) * ta = (q * ta) * tb
    BY <2>2
  <2>7. (100 * pb) * ta <= (100 * pa) * tb
    BY <2>4, <2>5
  <2>8. (q * ta) * tb \in Int /\ (100 * pb) * ta \in Int /\ (100 * pa) * tb \in Int
    BY <2>2
  <2>9. (q * ta) * tb <= (100 * pa) * tb
    <3>1. (q * ta) * tb <= (100 * pb) * ta
      BY <2>3, <2>6
    <3> DEFINE x == (q * ta) * tb
               y == (100 * pb) * ta
               z == (100 * pa) * tb
    <3>2. x \in Int /\ y \in Int /\ z \in Int /\ x <= y /\ y <= z
      BY <2>7, <2>8, <3>1
    <3> HIDE DEF x, y, z
    <3>3. x <= z
      BY <3>2
    <3> QED
      BY <3>3 DEF x, z
  <2>10. q * ta <= 100 * pa
    BY <2>2, <2>9, CommonFactor
  <2>11. q <= (100 * pa) \div ta
    BY <2>2, <2>10, QuotientAtLeast
  <2> QED
    BY <2>1, <2>2, <2>11, <1>1
<1> QED
  BY <1>2, <1>3, <1>4
-----------------------------------------------------------------------------
(* The factors of two states. *)

(* Both apply or neither does, and the first is worth no less. *)
Covers(x, y) ==
  \/ x = NotApplicable /\ y = NotApplicable
  \/ x \in Nat /\ y \in Nat /\ x >= y

LEMMA SharesCover ==
  ASSUME NEW S, IsFiniteSet(S), NEW A \in SUBSET S, NEW B \in SUBSET A
  PROVE  Covers(Share(Cardinality(A), Cardinality(S)), Share(Cardinality(B), Cardinality(S)))
<1>1. IsFiniteSet(A) /\ IsFiniteSet(B)
  BY FS_Subset
<1>2. Cardinality(S) \in Nat /\ Cardinality(A) \in Nat /\ Cardinality(B) \in Nat
  BY <1>1, FS_CardinalityType
<1>3. Cardinality(B) <= Cardinality(A)
  BY <1>1, FS_Subset
<1> DEFINE s == Cardinality(S)
           p == Cardinality(A)
           q == Cardinality(B)
<1>4. s \in Nat /\ p \in Nat /\ q \in Nat /\ q <= p
  BY <1>2, <1>3
<1> HIDE DEF s, p, q
<1>5. CASE s = 0
  BY <1>5 DEF Share, Covers, s, p, q
<1>6. CASE s # 0
  <2>1. s \in Nat \ {0}
    BY <1>4, <1>6
  <2>2. p * s >= q * s
    BY <1>4, <2>1, Scaled
  <2>3. Percent(p, s) >= Percent(q, s)
    BY <1>4, <2>1, <2>2, PercentMonotone
  <2>4. Percent(p, s) \in 0..100 /\ Percent(q, s) \in 0..100
    BY <1>4, <2>1, PercentRange
  <2>5. Share(p, s) = Percent(p, s) /\ Share(q, s) = Percent(q, s)
    BY <1>6 DEF Share
  <2>6. Covers(Share(p, s), Share(q, s))
    BY <2>3, <2>4, <2>5 DEF Covers
  <2> QED
    BY <2>6 DEF s, p, q
<1> QED
  BY <1>5, <1>6

(* The part of the provider's state that the headroom of a bidder reads. *)
Sized(state) ==
  \A k \in Kinds : /\ state.free[k] \in Int /\ state.total[k] \in Int
                   /\ state.free[k] > 0 => state.total[k] > 0

LEMMA HeadroomCovers ==
  ASSUME NEW c, NEW a, NEW b, NEW k \in Kinds,
         c.needs \in [Kinds -> Int], Sized(a), Sized(b), Fits(c, a), Fits(c, b),
         c.needs[k] > 0 =>
           (a.free[k] - c.needs[k]) * b.total[k] >= (b.free[k] - c.needs[k]) * a.total[k]
  PROVE  Covers(Headroom(c, a, k), Headroom(c, b, k))
<1>1. c.needs[k] \in Int
  OBVIOUS
<1>2. CASE c.needs[k] <= 0
  BY <1>2 DEF Headroom, Covers
<1>3. CASE c.needs[k] > 0
  <2>1. /\ a.free[k] \in Int /\ a.total[k] \in Int /\ b.free[k] \in Int /\ b.total[k] \in Int
        /\ a.free[k] >= c.needs[k] /\ b.free[k] >= c.needs[k]
    BY <1>3 DEF Sized, Fits
  <2>2. a.free[k] > 0 /\ b.free[k] > 0
    BY <1>1, <1>3, <2>1
  <2>3. a.total[k] > 0 /\ b.total[k] > 0
    BY <2>2 DEF Sized
  <2> DEFINE pa == a.free[k] - c.needs[k]
             ta == a.total[k]
             pb == b.free[k] - c.needs[k]
             tb == b.total[k]
  <2>4. Headroom(c, a, k) = Percent(pa, ta) /\ Headroom(c, b, k) = Percent(pb, tb)
    BY <1>1, <1>3, <2>1, <2>3 DEF Headroom
  <2>5. pa \in Nat /\ ta \in Nat \ {0} /\ pb \in Nat /\ tb \in Nat \ {0}
    BY <1>1, <2>1, <2>3
  <2>6. pa * tb >= pb * ta
    BY <1>3
  <2> HIDE DEF pa, ta, pb, tb
  <2>7. Percent(pa, ta) >= Percent(pb, tb)
    BY <2>5, <2>6, PercentMonotone
  <2>8. Percent(pa, ta) \in 0..100 /\ Percent(pb, tb) \in 0..100
    BY <2>5, PercentRange
  <2> QED
    BY <2>4, <2>7, <2>8 DEF Covers
<1> QED
  BY <1>1, <1>2, <1>3

LEMMA SoftPlacementCovers ==
  ASSUME NEW c, NEW a, NEW b, NEW ra, NEW rb, IsFiniteSet(c.rules),
         \A r \in c.rules : ruleMatchesNode(r, b, rb) => ruleMatchesNode(r, a, ra)
  PROVE  Covers(SoftPlacement(c, a, ra), SoftPlacement(c, b, rb))
<1> DEFINE S == {r \in c.rules : ~r.required}
           A == {r \in S : ruleMatchesNode(r, a, ra)}
           B == {r \in S : ruleMatchesNode(r, b, rb)}
<1>1. IsFiniteSet(S)
  <2>1. S \subseteq c.rules
    OBVIOUS
  <2> QED
    BY <2>1, FS_Subset
<1>2. A \subseteq S /\ B \subseteq A
  OBVIOUS
<1>3. /\ SoftPlacement(c, a, ra) = Share(Cardinality(A), Cardinality(S))
      /\ SoftPlacement(c, b, rb) = Share(Cardinality(B), Cardinality(S))
  BY DEF SoftPlacement
<1> HIDE DEF S, A, B
<1> QED
  BY <1>1, <1>2, <1>3, SharesCover

(* A near rule holds of a node where one of the capsules it names runs. *)
LEMMA NearRule ==
  ASSUME NEW r, NEW state, NEW runners, r.type = "capsule", r.mode = "near"
  PROVE  ruleMatchesNode(r, state, runners) <=> \E x \in r.names : state.node \in runners[x]
<1>1. ruleMatchesNode(r, state, runners) <=> matchCapsuleRule(r, state, runners)
  BY DEF ruleMatchesNode
<1>2. matchCapsuleRule(r, state, runners) <=> state.node \in UNION {runners[x] : x \in r.names}
  BY DEF matchCapsuleRule
<1>3. state.node \in UNION {runners[x] : x \in r.names} <=> \E x \in r.names : state.node \in runners[x]
  OBVIOUS
<1> QED
  BY <1>1, <1>2, <1>3

LEMMA AffinityCovers ==
  ASSUME NEW c, NEW a, NEW b, NEW ra, NEW rb, IsFiniteSet(c.rules),
         \A r \in c.rules : ruleMatchesNode(r, b, rb) => ruleMatchesNode(r, a, ra)
  PROVE  Covers(AffinityProximity(c, a, ra), AffinityProximity(c, b, rb))
<1> DEFINE S == {r \in c.rules : r.type = "capsule" /\ r.mode = "near"}
           A == {r \in S : \E x \in r.names : a.node \in ra[x]}
           B == {r \in S : \E x \in r.names : b.node \in rb[x]}
<1>1. IsFiniteSet(S)
  <2>1. S \subseteq c.rules
    OBVIOUS
  <2> QED
    BY <2>1, FS_Subset
<1>2. A \subseteq S
  OBVIOUS
<1>3. B \subseteq A
  <2> SUFFICES ASSUME NEW r \in B PROVE r \in A
    OBVIOUS
  <2>1. /\ r \in c.rules /\ r.type = "capsule" /\ r.mode = "near"
        /\ \E x \in r.names : b.node \in rb[x]
    OBVIOUS
  <2>2. ruleMatchesNode(r, b, rb)
    BY <2>1, NearRule
  <2>3. ruleMatchesNode(r, a, ra)
    BY <2>1, <2>2
  <2>4. \E x \in r.names : a.node \in ra[x]
    BY <2>1, <2>3, NearRule
  <2> QED
    BY <2>1, <2>4
<1>4. /\ AffinityProximity(c, a, ra) = Share(Cardinality(A), Cardinality(S))
      /\ AffinityProximity(c, b, rb) = Share(Cardinality(B), Cardinality(S))
  BY DEF AffinityProximity
<1> HIDE DEF S, A, B
<1> QED
  BY <1>1, <1>2, <1>3, <1>4, SharesCover

LEMMA LabelMatchCovers ==
  ASSUME NEW c, NEW a, NEW b, IsFiniteSet(c.labels), c.labels \cap b.labels \subseteq a.labels
  PROVE  Covers(LabelMatch(c, a), LabelMatch(c, b))
<1>1. c.labels \cap a.labels \subseteq c.labels
  OBVIOUS
<1>2. c.labels \cap b.labels \subseteq c.labels \cap a.labels
  OBVIOUS
<1> QED
  BY <1>1, <1>2, SharesCover DEF LabelMatch

-----------------------------------------------------------------------------
(* The score. *)

LEMMA AddFactorCovers ==
  ASSUME NEW x, NEW y, Covers(x, y), NEW w \in Nat
  PROVE  /\ addFactor(x, w).sum \in Nat /\ addFactor(y, w).sum \in Nat
         /\ addFactor(x, w).sum >= addFactor(y, w).sum
         /\ addFactor(x, w).max \in Nat
         /\ addFactor(x, w).max = addFactor(y, w).max
<1>1. CASE x = NotApplicable /\ y = NotApplicable
  BY <1>1 DEF addFactor
<1>2. CASE x \in Nat /\ y \in Nat /\ x >= y
  <2>1. x # NotApplicable /\ y # NotApplicable
    BY <1>2 DEF NotApplicable
  <2>2. /\ addFactor(x, w).sum = x * w /\ addFactor(y, w).sum = y * w
        /\ addFactor(x, w).max = w /\ addFactor(y, w).max = w
    BY <2>1 DEF addFactor
  <2>3. x * w \in Nat /\ y * w \in Nat /\ y * w <= x * w
    BY <1>2, Scaled
  <2> QED
    BY <2>2, <2>3
<1> QED
  BY <1>1, <1>2 DEF Covers

LEMMA WeightsType ==
  ASSUME NEW calc \in Calculators
  PROVE  \A x \in WeightNames : calc.weights[x] \in Nat
<1>1. DefaultWeights \in [WeightNames -> Nat]
  BY DEF DefaultWeights, WeightNames, FactorNames
<1>2. CASE calc = NodeCalculator
  BY <1>1, <1>2 DEF NodeCalculator
<1>3. ASSUME NEW w \in Overrides, calc = ClusterCalculator(w)
      PROVE  \A x \in WeightNames : calc.weights[x] \in Nat
  <2>1. w \in [WeightNames -> Nat]
    BY MetricsAssumption
  <2> QED
    BY <1>1, <1>3, <2>1 DEF ClusterCalculator, Merge
<1> QED
  BY <1>2, <1>3 DEF Calculators

(* Nine terms, each at least its counterpart. *)
LEMMA TotalMonotone ==
  ASSUME NEW g, NEW h,
         \A x \in FactorNames : g[x] \in Nat /\ h[x] \in Nat /\ g[x] >= h[x]
  PROVE  Total(g) \in Nat /\ Total(h) \in Nat /\ Total(g) >= Total(h)
BY DEF Total, FactorNames

LEMMA TotalEqual ==
  ASSUME NEW g, NEW h, \A x \in FactorNames : g[x] = h[x]
  PROVE  Total(g) = Total(h)
BY DEF Total, FactorNames

(* States that cover each other factor by factor have the same maximum, and
   the first has the higher sum. *)
LEMMA CalculateCovers ==
  ASSUME NEW calc \in Calculators, NEW c, NEW a, NEW ra, NEW b, NEW rb,
         a.running = 0, b.running = 0,
         \A x \in FactorNames : Covers(Factors(calc, c, a, ra)[x], Factors(calc, c, b, rb)[x])
  PROVE  AtLeast(Calculate(calc, c, a, ra), Calculate(calc, c, b, rb))
<1> DEFINE fa == Factors(calc, c, a, ra)
           fb == Factors(calc, c, b, rb)
           w == calc.weights
           sa == [x \in FactorNames |-> addFactor(fa[x], w[x]).sum]
           sb == [x \in FactorNames |-> addFactor(fb[x], w[x]).sum]
           ma == [x \in FactorNames |-> addFactor(fa[x], w[x]).max]
           mb == [x \in FactorNames |-> addFactor(fb[x], w[x]).max]
           u == Calculate(calc, c, a, ra)
           v == Calculate(calc, c, b, rb)
<1>0. w["load"] \in Nat /\ \A x \in FactorNames : w[x] \in Nat
  BY WeightsType DEF WeightNames
<1>1. /\ u = [sum |-> Total(sa) - (100 - LoadPenalty(a)) * w["load"],
              max |-> Total(ma) + w["load"]]
      /\ v = [sum |-> Total(sb) - (100 - LoadPenalty(b)) * w["load"],
              max |-> Total(mb) + w["load"]]
  BY DEF Calculate
<1> HIDE DEF w
<1>2. (100 - LoadPenalty(a)) * w["load"] = 0 /\ (100 - LoadPenalty(b)) * w["load"] = 0
  <2>1. Percent(0, SoftCap) = 0
    BY DEF Percent, SoftCap
  <2>2. 100 - LoadPenalty(a) = 0 /\ 100 - LoadPenalty(b) = 0
    BY <2>1 DEF LoadPenalty
  <2> QED
    BY <1>0, <2>2
<1>3. \A x \in FactorNames :
        /\ sa[x] \in Nat /\ sb[x] \in Nat /\ sa[x] >= sb[x]
        /\ ma[x] \in Nat /\ ma[x] = mb[x]
  <2> TAKE x \in FactorNames
  <2>1. Covers(fa[x], fb[x]) /\ w[x] \in Nat
    BY <1>0
  <2> HIDE DEF fa, fb
  <2> QED
    BY <2>1, AddFactorCovers
<1> HIDE DEF fa, fb, sa, sb, ma, mb, u, v
<1>4. Total(sa) \in Nat /\ Total(sb) \in Nat /\ Total(sa) >= Total(sb)
  BY <1>3, TotalMonotone
<1>5. Total(ma) \in Nat
  <2>1. \A x \in FactorNames : ma[x] \in Nat /\ ma[x] >= ma[x]
    BY <1>3
  <2> QED
    BY <2>1, TotalMonotone
<1>6. Total(ma) = Total(mb)
  BY <1>3, TotalEqual
<1>7. /\ u.sum = Total(sa) /\ v.sum = Total(sb)
      /\ u.max = Total(ma) + w["load"] /\ v.max = Total(ma) + w["load"]
  BY <1>1, <1>2, <1>4, <1>6
<1>8. u.sum \in Nat /\ v.sum \in Nat /\ v.sum <= u.sum /\ u.max \in Nat /\ v.max = u.max
  BY <1>0, <1>4, <1>5, <1>7
<1>9. v.sum * u.max <= u.sum * u.max
  BY <1>8, Scaled
<1>10. ~(u.sum < 0) /\ ~(v.sum < 0)
  BY <1>8
<1>11. AtLeast(u, v) <=> u.sum * v.max >= v.sum * u.max
  BY <1>10 DEF AtLeast
<1>12. AtLeast(u, v)
  BY <1>8, <1>9, <1>11
<1> QED
  BY <1>12 DEF u, v

(* The provider's part. *)

LEMMA FreeCPU ==
  ASSUME NEW cores \in Nat, NEW used \in 0..100
  PROVE  computeFreeCPU(cores, used) \in Int /\ (computeFreeCPU(cores, used) > 0 => cores > 0)
<1>1. CASE cores = 0
  BY <1>1 DEF computeFreeCPU
<1>2. CASE cores > 0
  <2>1. cores * (100 - used) \in Nat
    OBVIOUS
  <2>2. (cores * (100 - used)) \div 100 \in Nat
    BY <2>1, Division
  <2> QED
    BY <1>2, <2>2 DEF computeFreeCPU
<1> QED
  BY <1>1, <1>2

(* Where something is free there is a total it is a share of: a sample shows
   nothing free of what the host has not, and before the first sample the
   total is what is free. *)
LEMMA StateSized ==
  ASSUME MTypeOK, NEW n \in Nodes, entry[n] # Absent
  PROVE  Sized(buildState(n))
<1> DEFINE st == buildState(n)
<1>0. st.free = FreeOf(n) /\ st.total = TotalOf(n)
  BY DEF buildState
<1>1. CASE LocalLatest(n) = Absent
  <2>1. FreeOf(n) = TotalOf(n)
    BY <1>1 DEF FreeOf
  <2>2. \A k \in Kinds : TotalOf(n)[k] \in Int
    <3> DEFINE caps == entry[n].capabilities
    <3>0. caps \in {Advertised[n], Absent}
      <4>1. entry[n] \in OwnRow(n)
        BY DEF MTypeOK
      <4> QED
        BY <4>1 DEF OwnRow
    <3>1. CASE caps = Absent
      BY <1>1, <3>1 DEF TotalOf, Nothing
    <3>2. CASE caps # Absent
      <4>1. caps \in [cpu : Int, memory : Int, diskGB : Int]
        BY <3>0, <3>2, MetricsAssumption
      <4>3. TotalOf(n) = [cpu |-> caps.cpu, memory |-> caps.memory, disk |-> caps.diskGB * GB]
        BY <1>1, <3>2 DEF TotalOf
      <4> HIDE DEF caps
      <4>2. caps.cpu \in Int /\ caps.memory \in Int /\ caps.diskGB * GB \in Int
        BY <4>1 DEF GB
      <4> QED
        BY <4>2, <4>3 DEF Kinds
    <3> QED
      BY <3>1, <3>2
  <2> QED
    BY <1>0, <2>1, <2>2 DEF Sized
<1>2. CASE LocalLatest(n) # Absent
  <2> DEFINE s == LocalLatest(n)
  <2>1. s \in Samples
    <3>1. history[n] \in Seq(Samples)
      BY DEF MTypeOK
    <3>2. history[n] # <<>> /\ s = history[n][Len(history[n])]
      BY <1>2 DEF LocalLatest
    <3>3. Len(history[n]) \in 1..Len(history[n])
      BY <3>1, <3>2
    <3> QED
      BY <3>1, <3>2, <3>3
  <2>2. s \in Sampler
    BY <2>1, MetricsAssumption
  <2>3. s.cpu \in 0..100 /\ s.memory \in Nat /\ s.disk \in Nat
    BY <2>2 DEF Sampler
  <2>4. TotalOf(n) = Capacity[n] /\ Capacity[n] \in [Kinds -> Nat]
    BY <1>2, MetricsAssumption DEF TotalOf
  <2>5. /\ FreeOf(n)["cpu"] = computeFreeCPU(Capacity[n]["cpu"], s.cpu)
        /\ FreeOf(n)["memory"] = s.memory /\ FreeOf(n)["disk"] = s.disk
    BY <1>2 DEF FreeOf
  <2>6. /\ Capacity[n]["cpu"] \in Nat /\ Capacity[n]["memory"] \in Nat
        /\ Capacity[n]["disk"] \in Nat
    BY <2>4 DEF Kinds
  <2>7. /\ Capacity[n]["memory"] = 0 => s.memory = 0
        /\ Capacity[n]["disk"] = 0 => s.disk = 0
    <3>1. \A k \in {"memory", "disk"} :
            Capacity[n][k] = 0 => \A x \in Samples : x[k] = 0
      BY MetricsAssumption, Zenon
    <3> HIDE DEF s
    <3> QED
      BY <2>1, <3>1
  <2> HIDE DEF s
  <2>8. \A k \in Kinds : /\ FreeOf(n)[k] \in Int /\ TotalOf(n)[k] \in Int
                         /\ FreeOf(n)[k] > 0 => TotalOf(n)[k] > 0
    <3>1. /\ FreeOf(n)["cpu"] \in Int /\ TotalOf(n)["cpu"] \in Int
          /\ FreeOf(n)["cpu"] > 0 => TotalOf(n)["cpu"] > 0
      <4>1. PICK cores \in Nat : cores = Capacity[n]["cpu"]
        BY <2>6
      <4>2. PICK used \in 0..100 : used = s.cpu
        BY <2>3
      <4>3. PICK f : f = computeFreeCPU(cores, used)
        OBVIOUS
      <4>4. f \in Int /\ (f > 0 => cores > 0)
        BY <4>3, FreeCPU
      <4>5. FreeOf(n)["cpu"] = f /\ TotalOf(n)["cpu"] = cores
        BY <2>4, <2>5, <4>1, <4>2, <4>3
      <4> QED
        BY <4>4, <4>5
    <3>2. /\ FreeOf(n)["memory"] \in Int /\ TotalOf(n)["memory"] \in Int
          /\ FreeOf(n)["memory"] > 0 => TotalOf(n)["memory"] > 0
      BY <2>3, <2>4, <2>5, <2>6, <2>7
    <3>3. /\ FreeOf(n)["disk"] \in Int /\ TotalOf(n)["disk"] \in Int
          /\ FreeOf(n)["disk"] > 0 => TotalOf(n)["disk"] > 0
      BY <2>3, <2>4, <2>5, <2>6, <2>7
    <3> QED
      BY <3>1, <3>2, <3>3 DEF Kinds
  <2> QED
    BY <1>0, <2>8 DEF Sized
<1> QED
  BY <1>1, <1>2

(* Two bidders of which one is no worse cover each other in every factor. *)
LEMMA FactorsCover ==
  ASSUME MTypeOK, NEW c \in Catalog, NEW calc, NEW ra, NEW rb,
         NEW n \in Nodes, NEW m \in Nodes, entry[n] # Absent, entry[m] # Absent,
         Fits(c, buildState(n)), Fits(c, buildState(m)),
         NoWorse(buildState(n), ra, buildState(m), rb, c)
  PROVE  \A x \in FactorNames : Covers(Factors(calc, c, buildState(n), ra)[x],
                                       Factors(calc, c, buildState(m), rb)[x])
<1>0. c.needs \in [Kinds -> Int] /\ IsFiniteSet(c.rules) /\ IsFiniteSet(c.labels)
  BY CatalogAssumption
<1>1. PICK a : a = buildState(n)
  OBVIOUS
<1>2. PICK b : b = buildState(m)
  OBVIOUS
<1>3. Sized(a) /\ Sized(b) /\ Fits(c, a) /\ Fits(c, b)
  BY <1>1, <1>2, StateSized
<1>4. /\ \A k \in Kinds : c.needs[k] > 0 =>
           (a.free[k] - c.needs[k]) * b.total[k] >= (b.free[k] - c.needs[k]) * a.total[k]
      /\ c.labels \cap b.labels \subseteq a.labels
      /\ a.datacenter = "" => b.datacenter = ""
      /\ \A r \in c.rules : ruleMatchesNode(r, b, rb) => ruleMatchesNode(r, a, ra)
  BY <1>1, <1>2 DEF NoWorse
<1>5. Covers(Diversity(c, a), Diversity(c, b))
  <2>1. CASE c.replicas < 2
    BY <2>1 DEF Covers, Diversity
  <2>2. CASE ~(c.replicas < 2) /\ a.datacenter = ""
    <3>1. Diversity(c, a) = 0 /\ Diversity(c, b) = 0
      BY <1>4, <2>2, Zenon DEF Diversity
    <3> QED
      BY <3>1 DEF Covers
  <2>3. CASE ~(c.replicas < 2) /\ a.datacenter # ""
    <3>1. Diversity(c, a) = 100 /\ (Diversity(c, b) = 0 \/ Diversity(c, b) = 100)
      BY <2>3, Zenon DEF Diversity
    <3> QED
      BY <3>1 DEF Covers
  <2> QED
    BY <2>1, <2>2, <2>3
<1>6. Covers(a.reliability, b.reliability)
  BY <1>1, <1>2 DEF buildState, SuccessRate, Covers
<1>7. \A k \in Kinds : Covers(Headroom(c, a, k), Headroom(c, b, k))
  BY <1>0, <1>3, <1>4, HeadroomCovers
<1>8. Covers(SoftPlacement(c, a, ra), SoftPlacement(c, b, rb))
  BY <1>0, <1>4, SoftPlacementCovers
<1>9. Covers(AffinityProximity(c, a, ra), AffinityProximity(c, b, rb))
  BY <1>0, <1>4, AffinityCovers
<1>10. Covers(LabelMatch(c, a), LabelMatch(c, b))
  BY <1>0, <1>4, LabelMatchCovers
<1>11. Covers(NotApplicable, NotApplicable)
  BY DEF Covers
<1>12. Covers(SnapshotLocality, SnapshotLocality)
  BY DEF Covers, SnapshotLocality
<1>13. Covers(IF calc.lookup THEN AffinityProximity(c, a, ra) ELSE NotApplicable,
              IF calc.lookup THEN AffinityProximity(c, b, rb) ELSE NotApplicable)
  BY <1>9, <1>11, Zenon
<1>14. \A x \in FactorNames : Covers(Factors(calc, c, a, ra)[x], Factors(calc, c, b, rb)[x])
  <2>1. /\ Covers(Headroom(c, a, "cpu"), Headroom(c, b, "cpu"))
        /\ Covers(Headroom(c, a, "memory"), Headroom(c, b, "memory"))
        /\ Covers(Headroom(c, a, "disk"), Headroom(c, b, "disk"))
    BY <1>7 DEF Kinds
  <2>2. PICK fa : fa = IF calc.lookup THEN AffinityProximity(c, a, ra) ELSE NotApplicable
    OBVIOUS
  <2>3. PICK fb : fb = IF calc.lookup THEN AffinityProximity(c, b, rb) ELSE NotApplicable
    OBVIOUS
  <2>4. Covers(fa, fb)
    BY <1>13, <2>2, <2>3, Zenon
  <2>5. /\ Factors(calc, c, a, ra) =
             [cpu |-> Headroom(c, a, "cpu"), memory |-> Headroom(c, a, "memory"),
              disk |-> Headroom(c, a, "disk"), soft |-> SoftPlacement(c, a, ra),
              affinity |-> fa, label |-> LabelMatch(c, a), reliability |-> a.reliability,
              diversity |-> Diversity(c, a), snapshot |-> SnapshotLocality]
        /\ Factors(calc, c, b, rb) =
             [cpu |-> Headroom(c, b, "cpu"), memory |-> Headroom(c, b, "memory"),
              disk |-> Headroom(c, b, "disk"), soft |-> SoftPlacement(c, b, rb),
              affinity |-> fb, label |-> LabelMatch(c, b), reliability |-> b.reliability,
              diversity |-> Diversity(c, b), snapshot |-> SnapshotLocality]
    BY <2>2, <2>3 DEF Factors
  <2> QED
    BY <1>5, <1>6, <1>8, <1>10, <1>12, <2>1, <2>4, <2>5 DEF FactorNames
<1> QED
  BY <1>1, <1>2, <1>14

LEMMA ScoresComparable == MTypeOK => BetterNodeScoresHigher
<1> SUFFICES ASSUME MTypeOK, NEW c \in Catalog, NEW sn \in Placements, NEW sm \in Placements,
                    NEW n \in Nodes, NEW m \in Nodes, entry[n] # Absent, entry[m] # Absent,
                    calculator[n] = calculator[m],
                    IsEligible(c, buildState(n), NodesRunning(calculator[n], sn)),
                    IsEligible(c, buildState(m), NodesRunning(calculator[n], sm)),
                    NoWorse(buildState(n), NodesRunning(calculator[n], sn),
                            buildState(m), NodesRunning(calculator[n], sm), c)
             PROVE  AtLeast(Calculate(calculator[n], c, buildState(n),
                                      NodesRunning(calculator[n], sn)),
                            Calculate(calculator[n], c, buildState(m),
                                      NodesRunning(calculator[n], sm)))
  BY DEF BetterNodeScoresHigher
<1>0. PICK ra : ra = NodesRunning(calculator[n], sn)
  OBVIOUS
<1>1. PICK rb : rb = NodesRunning(calculator[n], sm)
  OBVIOUS
<1>2. Fits(c, buildState(n)) /\ Fits(c, buildState(m))
  BY DEF IsEligible
<1>3. PICK calc \in Calculators : calc = calculator[n]
  BY DEF MTypeOK
<1>4. \A x \in FactorNames : Covers(Factors(calc, c, buildState(n), ra)[x],
                                    Factors(calc, c, buildState(m), rb)[x])
  BY <1>0, <1>1, <1>2, FactorsCover
<1>5. buildState(n).running = 0 /\ buildState(m).running = 0
  BY DEF buildState
<1>6. AtLeast(Calculate(calc, c, buildState(n), ra), Calculate(calc, c, buildState(m), rb))
  BY <1>4, <1>5, CalculateCovers
<1> QED
  BY <1>0, <1>1, <1>3, <1>6

(* In every state the metrics can reach, a bidder that is no worse than another
   with the same calculator does not score less, whatever weights are
   configured, whatever the capsules ask for and whatever each bidder knows of
   the replicas that run (IsEligible, Calculate, Provider.buildState). *)
THEOREM ScoresOrdered == MSpec => []BetterNodeScoresHigher
<1>1. MSpec => []MTypeOK
  BY MetricsTypeCorrect
<1>2. MTypeOK => BetterNodeScoresHigher
  BY ScoresComparable
<1> QED
  BY <1>1, <1>2, PTL

=============================================================================
