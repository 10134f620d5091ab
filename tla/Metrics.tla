------------------------------ MODULE Metrics ------------------------------
(***************************************************************************)
(* Resource metrics of the nodes of one cluster (node/metrics): sampling   *)
(* into a rolling window, gossip of the samples, and the provider that     *)
(* puts together the state gravity scores.                                 *)
(*                                                                         *)
(* A sample is what gravity reads of one: CPU use in percent, free memory  *)
(* and free disk; load averages and network rates are written and gossiped *)
(* with it and never used.  A sample that cannot be taken changes nothing. *)
(* A gossiped sample is lost, late or out of order; one that is too old,   *)
(* not signed or from a node without a phonebook row is dropped on arrival *)
(* and counts as lost.  Join, leave and restart of a node are calls of one *)
(* thread.  The databases survive a restart.                               *)
(***************************************************************************)
EXTENDS Gravity, Sequences

CONSTANTS Nodes,
          Cluster,      \* [path, datacenter] of the cluster
          Capacity,     \* Capacity[n]: what n has of each resource
          Advertised,   \* Advertised[n]: [cpu, memory, diskGB] in its phonebook
                        \* row, or Absent
          NodeLabels,   \* NodeLabels[n]: the labels of n
          Samples,      \* what the hosts may show
          Statuses,     \* phonebook statuses a row of its own may have
          Overrides,    \* weights that configurations of the cluster set
          HistoryDepth, \* samples kept
          MaxInFlight,  \* bound: samples in flight
          Catalog,      \* capsules asked about
          Placements,   \* where the capsules of the catalog may be running
          Absent

(* What the sampler reads of the host: percent of CPU used, megabytes of   *)
(* memory available and of disk free.                                      *)
Sampler == [cpu : 0..100, memory : Nat, disk : Nat]

(* Nothing is free of a resource that the host has none of.                *)
ASSUME MetricsAssumption ==
  /\ Samples \subseteq Sampler
  /\ Statuses \subseteq {"active", "suspected", "quarantined", "failed"}
  /\ "active" \in Statuses /\ Overrides \subseteq [WeightNames -> Nat]
  /\ HistoryDepth \in Nat \ {0} /\ MaxInFlight \in Nat
  /\ Capacity \in [Nodes -> [Kinds -> Nat]]
  /\ \A n \in Nodes, k \in {"memory", "disk"} :
       Capacity[n][k] = 0 => \A s \in Samples : s[k] = 0
  /\ \A n \in Nodes :
       Advertised[n] = Absent \/ Advertised[n] \in [cpu : Int, memory : Int, diskGB : Int]

ASSUME CatalogAssumption ==
  \A c \in Catalog : /\ c.needs \in [Kinds -> Int]
                     /\ IsFiniteSet(c.rules) /\ IsFiniteSet(c.labels)

VARIABLES
  history,    \* history[n]: rows of local_history, oldest first
  peerLatest, \* peerLatest[n][m]: the row of m in peer_latest of n
  gossip,     \* samples in flight
  joined,     \* nodes that have the metrics topic, publisher and subscriber
  entry,      \* entry[n]: the row of n in its own phonebook, or Absent
  calculator  \* calculator[n]: what n scores itself with in the cluster

mvars == <<history, peerLatest, gossip, joined, entry, calculator>>

(* A row has the datacenter of the cluster's path or none, and the         *)
(* capabilities that the node advertises or none.                          *)
OwnRow(n) == [status : Statuses, datacenter : {Cluster.datacenter, ""},
            capabilities : {Advertised[n], Absent}]

Calculators == {NodeCalculator} \cup {ClusterCalculator(w) : w \in Overrides}

(* Every variable has its type, the window of samples keeps its bound      *)
(* through every insert and restart (InsertLocal), and the samples a node  *)
(* publishes never become a row of its own among its peers                 *)
(* (Publisher.Publish, Subscriber.handle, UpsertPeer).                     *)
MTypeOK ==
  /\ history \in [Nodes -> Seq(Samples)]
  /\ peerLatest \in [Nodes -> [Nodes -> Samples \cup {Absent}]]
  /\ gossip \subseteq [from : Nodes, to : Nodes, sample : Samples]
  /\ joined \subseteq Nodes
  /\ DOMAIN entry = Nodes /\ \A n \in Nodes : entry[n] \in OwnRow(n) \cup {Absent}
  /\ calculator \in [Nodes -> Calculators]
  /\ \A n \in Nodes : Len(history[n]) <= HistoryDepth /\ peerLatest[n][n] = Absent

MInit ==
  /\ history = [n \in Nodes |-> <<>>]
  /\ peerLatest = [n \in Nodes |-> [m \in Nodes |-> Absent]]
  /\ gossip = {}
  /\ joined = {}
  /\ entry = [n \in Nodes |-> Absent]
  /\ calculator = [n \in Nodes |-> NodeCalculator]

----------------------------------------------------------------------------
(* Mutant: the window is not trimmed.                                      *)
InsertLocalUntrimmed(rows, s) == Append(rows, s)

(* The window keeps the newest rows.                                       *)
InsertLocal(rows, s) ==
  LET all == Append(rows, s) IN
  IF Len(all) > HistoryDepth THEN Tail(all) ELSE all

LocalLatest(n) == IF history[n] = <<>> THEN Absent ELSE history[n][Len(history[n])]

(* The publisher has the topic of the cluster.                             *)
HasTopic(n) == n \in joined

(* The subscriber's loop reads the publisher's subscription.               *)
Listens(n) == n \in joined

Envelopes(n, s) == [from : {n}, to : Nodes \ {n}, sample : {s}]

Publish(n, s) == gossip' = gossip \cup Envelopes(n, s)

(* The row is inserted, or the insert fails; the sample is published where *)
(* the cluster is joined, or that fails.                                   *)
handleLocalSnapshot(n, s) ==
  /\ \/ history' = [history EXCEPT ![n] = InsertLocal(@, s)]
     \/ history' = history
  /\ \/ HasTopic(n) /\ Publish(n, s)
     \/ gossip' = gossip
  /\ Cardinality(gossip') <= MaxInFlight
  /\ UNCHANGED <<peerLatest, joined, entry, calculator>>

(* sampleOnce, with its callback.                                          *)
Sample(n) == \E s \in Samples : handleLocalSnapshot(n, s)

(* Whatever arrives last is the row.                                       *)
UpsertPeer(n, m, s) == peerLatest' = [peerLatest EXCEPT ![n][m] = s]

(* Subscriber.handle and its callback.                                     *)
ReceiveSample ==
  \E m \in gossip :
    /\ Listens(m.to)
    /\ UpsertPeer(m.to, m.from, m.sample)
    /\ gossip' = gossip \ {m}
    /\ UNCHANGED <<history, joined, entry, calculator>>

LoseSample ==
  /\ \E m \in gossip : gossip' = gossip \ {m}
  /\ UNCHANGED <<history, peerLatest, joined, entry, calculator>>

JoinMetrics(n) ==
  /\ joined' = joined \cup {n}
  /\ UNCHANGED <<history, peerLatest, gossip, entry, calculator>>

(* applyClusterElectionConfig of a cluster whose configuration has weights; *)
(* no call takes the calculator away again.                                *)
SetClusterCalculator(n) ==
  /\ \E w \in Overrides : calculator' = [calculator EXCEPT ![n] = ClusterCalculator(w)]
  /\ UNCHANGED <<history, peerLatest, gossip, joined, entry>>

LeaveMetrics(n) ==
  /\ n \in joined
  /\ joined' = joined \ {n}
  /\ UNCHANGED <<history, peerLatest, gossip, entry, calculator>>

(* Stop, and a new process on the same database.                           *)
RestartMetrics(n) ==
  /\ joined' = joined \ {n}
  /\ calculator' = [calculator EXCEPT ![n] = NodeCalculator]
  /\ UNCHANGED <<history, peerLatest, gossip, entry>>

Writes(n, row) ==
  /\ entry' = [entry EXCEPT ![n] = row]
  /\ UNCHANGED <<history, peerLatest, gossip, joined, calculator>>

(* addOrUpdateEntry of the node's own row, after an authentication: the    *)
(* capabilities are those of the event, and the first node of a cluster    *)
(* announces itself without any.                                           *)
NoteOwnRow(n) ==
  \E caps \in {Advertised[n], Absent} :
    Writes(n, [status |-> "active", datacenter |-> Cluster.datacenter, capabilities |-> caps])

(* processMember of the node's own row, as a peer has it: the answer has   *)
(* no datacenter of the row, and Update or Add writes the empty one.       *)
SyncOwnRow(n) ==
  \E status \in Statuses, caps \in {Advertised[n], Absent} :
    Writes(n, [status |-> status, datacenter |-> "", capabilities |-> caps])

(* What other nodes gossip of n reaches n too (Health): its row changes    *)
(* its status, or goes.                                                    *)
JudgeOwnRow(n) ==
  /\ entry[n] # Absent
  /\ \/ \E status \in Statuses : Writes(n, [entry[n] EXCEPT !.status = status])
     \/ Writes(n, Absent)

MNext ==
  \/ \E n \in Nodes : Sample(n)
  \/ ReceiveSample
  \/ LoseSample
  \/ \E n \in Nodes : JoinMetrics(n)
  \/ \E n \in Nodes : LeaveMetrics(n)
  \/ \E n \in Nodes : RestartMetrics(n)
  \/ \E n \in Nodes : SetClusterCalculator(n)
  \/ \E n \in Nodes : NoteOwnRow(n)
  \/ \E n \in Nodes : SyncOwnRow(n)
  \/ \E n \in Nodes : JudgeOwnRow(n)

MSpec == MInit /\ [][MNext]_mvars

----------------------------------------------------------------------------
(* The provider.                                                           *)

computeFreeCPU(cores, used) ==
  IF used <= 0 THEN cores
  ELSE IF used >= 100 THEN 0
  ELSE (cores * (100 - used)) \div 100

GB == 1024

Nothing == [k \in Kinds |-> 0]

(* Free resources as the last sample has them; without one, all that the   *)
(* phonebook row advertises.                                               *)
TotalOf(n) ==
  IF LocalLatest(n) # Absent THEN Capacity[n]
  ELSE LET caps == entry[n].capabilities IN
       IF caps = Absent THEN Nothing
       ELSE [cpu |-> caps.cpu, memory |-> caps.memory, disk |-> caps.diskGB * GB]

FreeOf(n) ==
  LET s == LocalLatest(n) IN
  IF s = Absent THEN TotalOf(n)
  ELSE [cpu |-> computeFreeCPU(Capacity[n].cpu, s.cpu), memory |-> s.memory, disk |-> s.disk]

(* Labels are metadata of the advertised capabilities.                     *)
LabelsOf(n) == IF entry[n].capabilities = Absent THEN {} ELSE NodeLabels[n]

(* No counter of running capsules is wired, so that every node looks empty *)
(* to the load penalty.  A node never connects to itself, and every write  *)
(* of its row resets the success rate, which stays 0.  Without a row of    *)
(* its own LocalNode fails, and the node does not bid.                     *)
SuccessRate == 0

buildState(n) ==
  [node |-> n, cluster |-> Cluster.path, datacenter |-> entry[n].datacenter,
   labels |-> LabelsOf(n),
   status |-> entry[n].status, reliability |-> SuccessRate,
   total |-> TotalOf(n), free |-> FreeOf(n), running |-> 0]

----------------------------------------------------------------------------
(* State a is no worse for the capsule than state b in anything asked for, *)
(* where their nodes know the runners ra and rb.                           *)
NoWorse(a, ra, b, rb, c) ==
  /\ \A k \in Kinds : c.needs[k] > 0 =>
       (a.free[k] - c.needs[k]) * b.total[k] >= (b.free[k] - c.needs[k]) * a.total[k]
  /\ a.reliability >= b.reliability
  /\ a.running <= b.running
  /\ a.datacenter = "" => b.datacenter = ""
  /\ c.labels \cap b.labels \subseteq a.labels
  /\ \A r \in c.rules : ruleMatchesNode(r, b, rb) => ruleMatchesNode(r, a, ra)

(* Scores that two nodes compute apart are compared with each other in an  *)
(* election: a node that bids, and that its last sample, its phonebook row *)
(* or, before the first sample, its advertised capabilities make no worse  *)
(* than another bidder with the same calculator, does not score less,      *)
(* whatever either of them knows of the replicas that run.  Every bidder's *)
(* score has to be divided by the same maximum for that (Calculate,        *)
(* IsEligible and the factors that do not apply; Provider.buildState).     *)
BetterNodeScoresHigher ==
  \A n, m \in {x \in Nodes : entry[x] # Absent} :
    n # m /\ calculator[n] = calculator[m] =>
      LET calc == calculator[n]
          a    == buildState(n)
          b    == buildState(m) IN
      \A c \in Catalog, sn, sm \in Placements :
        LET ra == NodesRunning(calc, sn)
            rb == NodesRunning(calc, sm) IN
        /\ IsEligible(c, a, ra) /\ IsEligible(c, b, rb)
        /\ NoWorse(a, ra, b, rb, c)
        => AtLeast(Calculate(calc, c, a, ra), Calculate(calc, c, b, rb))

=============================================================================
