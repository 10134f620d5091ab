------------------------------ MODULE Scaling ------------------------------
(***************************************************************************)
(* The scaling monitor of one node (capsule/scaling) and the handler of    *)
(* its events (onScaleEvent of node/capsule_handler.go).                   *)
(*                                                                         *)
(* A rule is [name, trigger, conditions, action, cooldown]; a condition is *)
(* [metric, op, value]: units are parsed and not looked at.  An evaluation *)
(* works on a snapshot of the registered capsules; deletes, received       *)
(* capsules and the runtime's containers come in between.  Time is counted *)
(* in units of which the cooldowns are multiples.                          *)
(***************************************************************************)
EXTENDS Integers, Sequences, FiniteSets, FiniteSetsExt

CONSTANTS Capsules,
          Specs,     \* lists of rules a capsule's spec may have; a list that
                     \* does not parse is Malformed
          Malformed,
          SlotSets,  \* sets of replica slots a received capsule may have
          Usages,    \* [cpu, memory] a container may show
          MaxTime,   \* bound: time
          MaxFires,  \* bound: events of the monitor
          MaxDeletes,\* bound: deletes of each capsule
          Unset      \* no value

ASSUME ScalingAssumption ==
  /\ MaxTime \in Nat /\ MaxFires \in Nat /\ MaxDeletes \in Nat
  /\ Malformed \in Specs /\ Unset \notin Specs
  /\ \A S \in SlotSets : /\ S \subseteq Nat
                         /\ S # {} => \E m \in S : \A x \in S : x <= m

VARIABLES
  now,       \* the time
  slots,     \* slots[c]: replica slots the capsule manager knows, or Unset
  rules,     \* rules[c]: the registered rules, or Unset
  usage,     \* usage[c]: what the registered provider reads, or Unset
  cooldowns, \* cooldowns[c]: names of rules to the time they fired last
  batch,     \* capsules, with their rules, the evaluation has left
  pending,   \* the event on its way to the handler, or Unset
  asked,     \* the election asked for last, or Unset
  log,       \* every event: [capsule, rule, at, life]
  deleting,  \* capsules deleted and not yet unregistered
  life       \* life[c]: how many times the capsule was unregistered

svars == <<now, slots, rules, usage, cooldowns, batch, pending, asked, log, deleting, life>>

RuleLists == Specs \ {Malformed, <<>>}

RulesOf(l) == {l[i] : i \in DOMAIN l}

AllRules == UNION {RulesOf(l) : l \in RuleLists}

RuleNames == {r.name : r \in AllRules}

ASSUME RulesAssumption ==
  /\ RuleLists \subseteq Seq(AllRules)
  /\ \A r \in AllRules : r.cooldown \in Int

Idle == [cpu |-> 0, memory |-> 0]

Event == [capsule : Capsules, rule : AllRules, at : 0..MaxTime, life : 0..MaxDeletes]

(* Every variable has its type: no time a rule fired at is ahead of the    *)
(* clock (recordCooldown), what an evaluation has left and the event on    *)
(* its way are rules a spec had (Monitor.evaluate), and the slot asked for *)
(* is a number (nextReplicaSlot).                                          *)
STypeOK ==
  /\ now \in 0..MaxTime
  /\ slots \in [Capsules -> SlotSets \cup {{}, Unset}]
  /\ rules \in [Capsules -> RuleLists \cup {Unset}]
  /\ usage \in [Capsules -> Usages \cup {Idle, Unset}]
  /\ cooldowns \in [Capsules -> UNION {[D -> 0..now] : D \in SUBSET RuleNames}]
  /\ life \in [Capsules -> 0..MaxDeletes]
  /\ batch \subseteq [capsule : Capsules, rules : RuleLists]
  /\ pending = Unset \/ pending \in [capsule : Capsules, rule : AllRules]
  /\ asked = Unset \/ asked \in [capsule : Capsules, slot : Nat]
  /\ log \in Seq(Event) /\ Len(log) <= MaxFires
  /\ deleting \subseteq Capsules

NoCooldowns == [x \in {} |-> 0]

SInit ==
  /\ now = 0
  /\ slots = [c \in Capsules |-> Unset]
  /\ rules = [c \in Capsules |-> Unset]
  /\ usage = [c \in Capsules |-> Unset]
  /\ cooldowns = [c \in Capsules |-> NoCooldowns]
  /\ batch = {} /\ pending = Unset /\ asked = Unset /\ log = <<>>
  /\ life = [c \in Capsules |-> 0] /\ deleting = {}

----------------------------------------------------------------------------
(* Capsules and containers.                                                *)

(* A received capsule, new or updated.  registerScaling leaves what is     *)
(* registered when the spec has no rules or does not parse.                *)
registerScaling(c, spec) ==
  IF spec \in RuleLists THEN [rules EXCEPT ![c] = spec] ELSE rules

ReceiveCapsule(c) ==
  \E spec \in Specs, known \in SlotSets :
    /\ slots' = [slots EXCEPT ![c] = known]
    /\ rules' = registerScaling(c, spec)
    /\ UNCHANGED <<now, usage, cooldowns, batch, pending, asked, log, deleting, life>>

(* A capsule created here is in the manager and never registered.          *)
CreateCapsule(c) ==
  /\ slots[c] = Unset
  /\ slots' = [slots EXCEPT ![c] = {}]
  /\ UNCHANGED <<now, rules, usage, cooldowns, batch, pending, asked, log, deleting, life>>

(* Manager.Delete drops the capsule, then emits the event that makes the   *)
(* handler unregister it; the capsule may be received again in between.    *)
DeleteCapsule(c) ==
  /\ slots[c] # Unset /\ c \notin deleting
  /\ life[c] < MaxDeletes
  /\ slots' = [slots EXCEPT ![c] = Unset]
  /\ deleting' = deleting \cup {c}
  /\ UNCHANGED <<now, rules, usage, cooldowns, batch, pending, asked, log, life>>

Unregister(c) ==
  /\ c \in deleting
  /\ deleting' = deleting \ {c}
  /\ life' = [life EXCEPT ![c] = @ + 1]
  /\ rules' = [rules EXCEPT ![c] = Unset]
  /\ cooldowns' = [cooldowns EXCEPT ![c] = NoCooldowns]
  /\ UNCHANGED <<now, slots, usage, batch, pending, asked, log>>

(* The runtime registers a provider with its container, which reads zero   *)
(* until the first statistics come, and takes it away with it.             *)
RegisterStats(c) ==
  /\ usage' = [usage EXCEPT ![c] = Idle]
  /\ UNCHANGED <<now, slots, rules, cooldowns, batch, pending, asked, log, deleting, life>>

ReadStats(c) ==
  /\ usage[c] # Unset
  /\ \E u \in Usages : usage' = [usage EXCEPT ![c] = u]
  /\ UNCHANGED <<now, slots, rules, cooldowns, batch, pending, asked, log, deleting, life>>

UnregisterStats(c) ==
  /\ usage[c] # Unset
  /\ usage' = [usage EXCEPT ![c] = Unset]
  /\ UNCHANGED <<now, slots, rules, cooldowns, batch, pending, asked, log, deleting, life>>

Tick ==
  /\ now < MaxTime
  /\ now' = now + 1
  /\ UNCHANGED <<slots, rules, usage, cooldowns, batch, pending, asked, log, deleting, life>>

----------------------------------------------------------------------------
(* The evaluation.                                                         *)

(* A provider knows the metrics of Idle; a schedule is not evaluated.      *)
Known(cond) == cond.metric \in DOMAIN Idle

Scheduled(cond) == cond.metric = "schedule"

Holds(cond, u) ==
  LET v == u[cond.metric] IN
  CASE cond.op = ">"  -> v > cond.value
    [] cond.op = "<"  -> v < cond.value
    [] cond.op = "==" -> v = cond.value
    [] cond.op = ">=" -> v >= cond.value
    [] cond.op = "<=" -> v <= cond.value

evaluateRule(r, u) ==
  LET live == {x \in r.conditions : ~Scheduled(x)} IN
  CASE r.trigger = "all" -> \A x \in live : Known(x) /\ Holds(x, u)
    [] r.trigger = "any" -> \E x \in live : Known(x) /\ Holds(x, u)
    [] OTHER             -> FALSE

isInCooldown(c, r) ==
  /\ r.cooldown # 0
  /\ r.name \in DOMAIN cooldowns[c]
  /\ now < cooldowns[c][r.name] + r.cooldown

(* The rule that fires: the first that holds and is not cooling down.      *)
Fires(c, l) ==
  {i \in DOMAIN l : ~isInCooldown(c, l[i]) /\ evaluateRule(l[i], usage[c])}

(* Mutant: a rule that fires again keeps the time it fired first.          *)
recordCooldownOnce(c, r) ==
  cooldowns' = [cooldowns EXCEPT ![c] =
    [x \in DOMAIN @ \cup {r.name} |-> IF x \notin DOMAIN @ THEN now ELSE @[x]]]

recordCooldown(c, r) ==
  cooldowns' = [cooldowns EXCEPT ![c] =
    [x \in DOMAIN @ \cup {r.name} |-> IF x = r.name THEN now ELSE @[x]]]

(* A tick of the loop, which ends before the next begins.                  *)
Snapshot ==
  /\ batch = {} /\ pending = Unset
  /\ batch' = {[capsule |-> c, rules |-> rules[c]] : c \in {x \in Capsules : rules[x] # Unset}}
  /\ UNCHANGED <<now, slots, rules, usage, cooldowns, pending, asked, log, deleting, life>>

(* One capsule of the snapshot: Evaluate with the provider of this moment. *)
Evaluate ==
  /\ pending = Unset
  /\ Len(log) < MaxFires
  /\ \E b \in batch :
       LET c == b.capsule
           f == IF usage[c] = Unset THEN {} ELSE Fires(c, b.rules)
           r == b.rules[Min(f)]
       IN /\ batch' = batch \ {b}
          /\ IF f = {}
             THEN UNCHANGED <<cooldowns, pending, log>>
             ELSE /\ recordCooldown(c, r)
                  /\ pending' = [capsule |-> c, rule |-> r]
                  /\ log' = Append(log, [capsule |-> c, rule |-> r, at |-> now,
                                         life |-> life[c]])
  /\ UNCHANGED <<now, slots, rules, usage, asked, deleting, life>>

nextReplicaSlot(known) == IF known = {} THEN 0 ELSE Max(known) + 1

(* Scaling down and to zero only publish an event nobody reads.            *)
onScaleEvent ==
  /\ pending # Unset
  /\ asked' = IF pending.rule.action = "scale_up" /\ slots[pending.capsule] # Unset
              THEN [capsule |-> pending.capsule,
                    slot |-> nextReplicaSlot(slots[pending.capsule])]
              ELSE asked
  /\ pending' = Unset
  /\ UNCHANGED <<now, slots, rules, usage, cooldowns, batch, log, deleting, life>>

SNext ==
  \/ \E c \in Capsules : ReceiveCapsule(c)
  \/ \E c \in Capsules : CreateCapsule(c)
  \/ \E c \in Capsules : DeleteCapsule(c)
  \/ \E c \in Capsules : Unregister(c)
  \/ \E c \in Capsules : RegisterStats(c)
  \/ \E c \in Capsules : ReadStats(c)
  \/ \E c \in Capsules : UnregisterStats(c)
  \/ Tick
  \/ Snapshot
  \/ Evaluate
  \/ onScaleEvent

SSpec == SInit /\ [][SNext]_svars

----------------------------------------------------------------------------
(* Until a capsule is unregistered, a rule of it fires again only after    *)
(* its cooldown, whatever updates, container restarts, deletes under way   *)
(* and evaluations of an old snapshot come in between (isInCooldown and    *)
(* recordCooldown, Monitor.Register, Unregister and evaluate).             *)
CooldownRespected ==
  \A i, j \in DOMAIN log :
    /\ i < j
    /\ log[i].capsule = log[j].capsule /\ log[i].life = log[j].life
    /\ log[i].rule.name = log[j].rule.name
    => log[j].at >= log[i].at + log[j].rule.cooldown

=============================================================================
