---------------------------- MODULE MCPlacement ----------------------------
(***************************************************************************)
(* Two nodes that sample and bid, and the scaling monitor of one of them.  *)
(* The two parts share no state: a behaviour takes steps of one of them.   *)
(***************************************************************************)
EXTENDS Metrics, Scaling, TLC

CONSTANTS n1, n2, c1

VARIABLE part

vars == <<mvars, svars, part>>

Init == MInit /\ SInit /\ part \in {"metrics", "scaling"}

Next ==
  \/ part = "metrics" /\ MNext /\ UNCHANGED <<svars, part>>
  \/ part = "scaling" /\ SNext /\ UNCHANGED <<mvars, part>>

Spec == Init /\ [][Next]_vars

----------------------------------------------------------------------------
MCCluster == [path |-> "root", datacenter |-> "dc"]

MCCapacity ==
  (n1 :> [cpu |-> 4, memory |-> 10, disk |-> 2048]) @@
  (n2 :> [cpu |-> 2, memory |-> 20, disk |-> 1024])

MCAdvertised == (n1 :> [cpu |-> 4, memory |-> 10, diskGB |-> 2]) @@ (n2 :> Absent)

MCOverrides == {[x \in WeightNames |-> IF x = "memory" THEN 30 ELSE 0]}

MCNodeLabels == (n1 :> {"ssd"}) @@ (n2 :> {})

MCSamples ==
  {[cpu |-> 30, memory |-> 8, disk |-> 1024], [cpu |-> 60, memory |-> 4, disk |-> 512]}

Rule(type, mode, required, names, labels) ==
  [type |-> type, mode |-> mode, required |-> required, names |-> names, labels |-> labels]

MCCatalog == {
  [name |-> "web", needs |-> [cpu |-> 1, memory |-> 4, disk |-> 0], labels |-> {"ssd"},
   replicas |-> 2,
   rules |-> {Rule("node", "", FALSE, {}, {"ssd"}),
              Rule("capsule", "near", FALSE, {"db"}, {}),
              Rule("cluster", "", TRUE, {"root"}, {})}],
  [name |-> "db", needs |-> [cpu |-> 0, memory |-> 2, disk |-> 512], labels |-> {},
   replicas |-> 1,
   rules |-> {Rule("capsule", "away", TRUE, {"web"}, {}),
              Rule("datacenter", "", FALSE, {"dc"}, {})}]}

MCPlacements == {
  ("web" :> {}) @@ ("db" :> {}),
  ("web" :> {}) @@ ("db" :> {n1}),
  ("web" :> {n2}) @@ ("db" :> {n1, n2})}

----------------------------------------------------------------------------
ScalingRule(name, trigger, conditions, action, cooldown) ==
  [name |-> name, trigger |-> trigger, conditions |-> conditions, action |-> action,
   cooldown |-> cooldown]

Cond(metric, op, value) == [metric |-> metric, op |-> op, value |-> value]

MCUp == ScalingRule("up", "any", {Cond("cpu", ">", 70), Cond("memory", ">=", 5),
                                  Cond("rps", ">", 10)}, "scale_up", 2)

MCDown == ScalingRule("down", "all", {Cond("cpu", "<", 20), Cond("schedule", "", 0)},
                      "scale_down", 1)

MCUpSoon == ScalingRule("up", "all", {Cond("cpu", "==", 90)}, "scale_up", 1)

MCSpecs == {Malformed, <<>>, <<MCUp, MCDown>>, <<MCUpSoon>>}

MCSlotSets == {{}, {0, 2}}

MCUsages == {Idle, [cpu |-> 90, memory |-> 1], [cpu |-> 50, memory |-> 5]}

=============================================================================
