------------------------------ MODULE Gravity ------------------------------
(***************************************************************************)
(* What a node is worth to a capsule (election/gravity): the filter that   *)
(* disqualifies a node and the score of one that passes.                   *)
(*                                                                         *)
(* A capsule is a record of its name, what it needs of each resource, its  *)
(* labels, its placement rules and its number of replicas; a node state    *)
(* has what the provider puts together (module Metrics).  runners[c] is    *)
(* the set of nodes that the bidder knows to host the capsule named c, and *)
(* is empty for a calculator without a lookup.  A contribution in [0, 1]   *)
(* is counted in hundredths, a weight in tenths; a score is the pair of    *)
(* the weighted sum and its maximum, which the code divides.               *)
(***************************************************************************)
EXTENDS Integers, FiniteSets

Kinds == {"cpu", "memory", "disk"}

NotApplicable == -1

(* The rules of a capsule are a set of records; a rule with no names       *)
(* matches any name.                                                       *)
Named(rule, x) == rule.names = {} \/ x \in rule.names

labelsMatchAll(candidate, required) == required \subseteq candidate

(* Affinity to other capsules.  Without runners, and so without a lookup,  *)
(* a near rule fails and an away rule holds; labels are not compared, only *)
(* the node itself is.                                                     *)
matchCapsuleRule(rule, state, runners) ==
  LET targets == UNION {runners[c] : c \in rule.names} IN
  CASE rule.mode = "near" -> state.node \in targets
    [] rule.mode = "away" -> state.node \notin targets
    [] OTHER              -> FALSE

(* Labels of clusters and datacenters are not known to nodes, so that a    *)
(* rule asking for one fails.                                              *)
ruleMatchesNode(rule, state, runners) ==
  CASE rule.type = "node"       -> /\ Named(rule, state.node)
                                   /\ labelsMatchAll(state.labels, rule.labels)
    [] rule.type = "cluster"    -> Named(rule, state.cluster) /\ rule.labels = {}
    [] rule.type = "datacenter" -> Named(rule, state.datacenter) /\ rule.labels = {}
    [] rule.type = "capsule"    -> matchCapsuleRule(rule, state, runners)
    [] OTHER                    -> FALSE

Fits(c, state) ==
  \A k \in Kinds : c.needs[k] > 0 => state.free[k] >= c.needs[k]

(* Mutant: resources are left to the score.                                *)
IsEligibleWithoutResources(c, state, runners) ==
  /\ state.node \notin runners[c.name]
  /\ state.status = "active"
  /\ \A rule \in {r \in c.rules : r.required} : ruleMatchesNode(rule, state, runners)

IsEligible(c, state, runners) ==
  /\ state.node \notin runners[c.name]
  /\ state.status = "active"
  /\ Fits(c, state)
  /\ \A rule \in {r \in c.rules : r.required} : ruleMatchesNode(rule, state, runners)

----------------------------------------------------------------------------
(* The factors.                                                            *)

Percent(part, whole) ==
  IF part < 0 THEN 0 ELSE IF part > whole THEN 100 ELSE (100 * part) \div whole

Share(part, whole) == IF whole = 0 THEN NotApplicable ELSE Percent(part, whole)

(* What would stay free of the resource, as a share of all of it.          *)
Headroom(c, state, k) ==
  IF c.needs[k] <= 0 \/ state.total[k] <= 0
  THEN NotApplicable
  ELSE Percent(state.free[k] - c.needs[k], state.total[k])

SoftPlacement(c, state, runners) ==
  LET soft == {r \in c.rules : ~r.required} IN
  Share(Cardinality({r \in soft : ruleMatchesNode(r, state, runners)}), Cardinality(soft))

AffinityProximity(c, state, runners) ==
  LET near == {r \in c.rules : r.type = "capsule" /\ r.mode = "near"} IN
  Share(Cardinality({r \in near : \E x \in r.names : state.node \in runners[x]}),
        Cardinality(near))

LabelMatch(c, state) ==
  Share(Cardinality(c.labels \cap state.labels), Cardinality(c.labels))

Diversity(c, state) ==
  IF c.replicas < 2 THEN NotApplicable
  ELSE IF state.datacenter = "" THEN 0 ELSE 100

(* factorLoadPenalty saturates at 50 running capsules.                     *)
SoftCap == 50

LoadPenalty(state) == 100 - Percent(state.running, SoftCap)

(* factorSnapshotLocality needs a lookup, and the node wires none.         *)
SnapshotLocality == NotApplicable

(* The weights are DefaultWeights, of the factors and of the load penalty. *)
FactorNames == {"cpu", "memory", "disk", "soft", "affinity", "label", "reliability",
                "diversity", "snapshot"}
WeightNames == FactorNames \cup {"load"}

DefaultWeights ==
  [cpu |-> 10, memory |-> 10, disk |-> 5, soft |-> 3, affinity |-> 8, label |-> 2,
   reliability |-> 4, diversity |-> 2, snapshot |-> 6, load |-> 5]

(* An override replaces the weights that it sets, which are those not zero. *)
Merge(w, override) ==
  [x \in WeightNames |-> IF override[x] # 0 THEN override[x] ELSE w[x]]

(* The calculator of the node looks up who runs a capsule; one that a      *)
(* cluster's configuration of weights installs has no lookup.              *)
NodeCalculator == [weights |-> DefaultWeights, lookup |-> TRUE]
ClusterCalculator(override) ==
  [weights |-> Merge(DefaultWeights, override), lookup |-> FALSE]

(* What calculator calc is told of the runners.                            *)
NodesRunning(calc, runners) ==
  [c \in DOMAIN runners |-> IF calc.lookup THEN runners[c] ELSE {}]

Factors(calc, c, state, runners) ==
  [cpu |-> Headroom(c, state, "cpu"), memory |-> Headroom(c, state, "memory"),
   disk |-> Headroom(c, state, "disk"), soft |-> SoftPlacement(c, state, runners),
   affinity |-> IF calc.lookup THEN AffinityProximity(c, state, runners) ELSE NotApplicable,
   label |-> LabelMatch(c, state),
   reliability |-> state.reliability, diversity |-> Diversity(c, state),
   snapshot |-> SnapshotLocality]

(* A factor that does not apply adds nothing, to the maximum neither.      *)
addFactor(value, weight) ==
  IF value = NotApplicable
  THEN [sum |-> 0, max |-> 0]
  ELSE [sum |-> value * weight, max |-> weight]

Total(g) == g["cpu"] + g["memory"] + g["disk"] + g["soft"] + g["affinity"] + g["label"]
              + g["reliability"] + g["diversity"] + g["snapshot"]

(* The load penalty is subtracted, and its weight counts in the maximum.   *)
Calculate(calc, c, state, runners) ==
  LET f     == Factors(calc, c, state, runners)
      added == [x \in FactorNames |-> addFactor(f[x], calc.weights[x])]
  IN [sum |-> Total([x \in FactorNames |-> added[x].sum])
                - (100 - LoadPenalty(state)) * calc.weights["load"],
      max |-> Total([x \in FactorNames |-> added[x].max]) + calc.weights["load"]]

(* Whether score s is at least score t, both clamped at zero.              *)
AtLeast(s, t) ==
  LET Low(x) == IF x.sum < 0 THEN 0 ELSE x.sum IN
  Low(s) * t.max >= Low(t) * s.max

=============================================================================
