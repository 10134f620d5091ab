# A TLA+ verification of falak

falak is a peer-to-peer orchestrator: nodes join clusters, gossip *capsules*
(container workloads), elect which node runs each replica and run it with
Podman.  There is no leader and no shared store.  Every node decides for itself
from its own SQLite tables, its own timers and the gossip that reaches it, so
correctness is a matter of interleavings inside a node and of message timing
between nodes.  These modules model that part of the program.

## 1. The system

| Part | State it keeps | Operations | Interacts with |
|---|---|---|---|
| Capsule lifecycle (`capsule/lifecycle.go`) | the machine's state | `Fire`, `CanFire`, the transition handler | the capsule manager, which persists what a transition decides |
| Capsule manager, store (`capsule/manager.go`, `store.go`) | `capsules` cache of shared pointers, the SQLite table, `lifecycles` map | `Create`, `Update`, `Delete`, `Receive`, `Fire*`, `AssignReplica`, `SyncStatus`, `OpenStore` | API calls, the orbit reader, event subscribers and the runtime call it on goroutines of their own |
| Election manager (`election/manager.go`) | `inflight` rounds, `localClaims`, topics | `HandleRequest`, `runElection`, `waitForRemoteVerdict`, `report`, `Stop`, `JoinCluster`, `LeaveCluster`, `ForgetCapsule` | one round per capsule slot and node; claims and failures on a gossip topic |
| Election topic (`election/topic.go`) | listeners, late-subscriber buffer | listen, publish, dispatch, sweep, `Stop` | GossipSub, rounds |
| Delay strategy, gravity (`election/delay`, `election/gravity`) | none | `Decide`, `IsEligible`, the score factors | election rounds |
| Capsule and election handlers (`node/capsule_handler.go`, `election_handler.go`) | subscriptions | announce, request elections, record winners, react to node failures and crashes | bus, manager, election, orbit |
| Event bus (`node/internal/events/bus.go`) | input channel, subscriber channels, `closed`, drop counter | `Publish`, `Subscribe`, `SubscribeAll`, `Unsubscribe`, dispatch, `Close` | every handler of the node |
| Health (`node/health`) | a score and a status per peer (phonebook), quarantine timers | direct, indirect and confirmation pings, score gossip, quarantine check and probe loops | phonebook, GossipSub, the bus |
| Phonebook and sync (`node/phonebook`, `node/sync`) | peer entries in SQLite, the time of the last sync | add, update, remove, pull and merge | authentication, health, election |
| Authentication (`node/auth`) | sessions, cluster and node keys, seen nonces | handshake, renewal, re-authentication, revocation | the phonebook, through bus events |
| Runtime handler (`runtime/handler.go`, `node/runtime_handler.go`) | running containers, watchers, snapshot tickers | start, restore, watch, capture, stop, rolling update | capsule manager, Podman, snapshots |
| Orbits (`capsule/orbit`) | joined topics, dedup of announcements | announce, subscribe, sign, verify | capsule handler |
| Placement, scaling, momentum (`capsule/placement`, `scaling`, `momentum`) | cooldowns, momentum per capsule | evaluate rules, scale, boost, decay | capsule handler, metrics |
| Metrics, snapshots (`node/metrics`, `snapshot`) | peer metrics, snapshot index | collect, expire, discover, transfer | gravity, scaling, runtime |
| Node, API, configuration (`node/node.go`, `api`, `config`, `cmd`) | the wiring | start, stop, join; request decoding | everything |

What is hard in it: manager methods that take three locks one after the other
and share the capsule object; rounds of different nodes and of different slots
that race through timers, gossip and one claim map; gossip that is lost,
late or answered by a node that knows less; bounded channels that drop; Close
and Stop racing everything; a process that dies between two writes.

`PROJECT.json` lists each of these hazards at its line, with the properties that
would catch it going wrong, or with the reason why none does yet.

### Properties that make each part correct

* **Manager and store**: memory and disk agree on every capsule nobody is
  writing; nothing that began before a Delete brings the capsule back; the
  stored status is the machine's state; each stored capsule has its machine.
* **Election**: every request is resolved; at most one node wins a slot; a slot
  somebody bid for gets a host; a node takes one replica of a capsule; a
  claim is never left behind.
* **Event bus**: order, exact accounting of drops, no panic while it is open,
  a slow subscriber delays neither the dispatcher nor `Close`.
* **Health**: no threshold is jumped over; quarantine always has a timer, and ends
  unless the score crosses into it again and again.
* **Handlers and orbits**: an announcement or withdrawal acts once however often
  gossip brings it, in whatever order; when a node dies its replicas find hosts
  that live, and everybody records them; no capsule is left electing.  (That a
  deleted capsule is forgotten everywhere does not hold: section 5.)
* **Runtime**: a replica that no longer runs is reported; a rolling update leaves
  no moment without a running container.
* **Phonebook and sync**: revocations spread to everyone who talks to somebody
  that has them; the syncer removes a peer only after failures in a row that it
  met itself.
* **Authentication**: whoever was admitted is known to its voucher, unless the
  voucher lost the record since; a rejected node is refused; `Join` returns.
* **Gravity, metrics, scaling**: scores that equal calculators compute on
  different nodes are comparable; a rule does not fire again within its cooldown.

## 2. The modules

| Module | Models | Uses |
|---|---|---|
| `Lifecycle` | the transition table | |
| `CapsuleManager` | manager and store of one node | `Lifecycle` |
| `Election` | the rounds of all nodes for the slots of one capsule | `SlotAssignment` |
| `SlotAssignment` | what an election promises, without nodes' rounds, messages and time | |
| `EventBus` | the bus of one node | |
| `Health` | what the nodes of a cluster believe about one peer | |
| `CapsuleFlow` | one capsule on all nodes: orbit, capsule and election handlers, runtime bridge | `Lifecycle` |
| `RuntimeHandler` | the containers and snapshots of one replica on one node | |
| `Sync` | the phonebooks of a cluster and the syncer | |
| `Auth` | joining, leaving, re-authentication and revocation in one cluster | |
| `Gravity` | eligibility and score, as operators | |
| `Metrics` | samples, their gossip and the provider that feeds gravity | `Gravity` |
| `Scaling` | the scaling monitor of one node and the handler of its events | |
| `CapsuleManagerProofs`, `ElectionProofs`, `EventBusProofs`, `HealthProofs`, `CapsuleFlowProofs`, `SyncProofs`, `AuthProofs` | theorems about the module each is named after | that module, TLAPS |
| `NodeProofs` | theorems about `Scaling`, `RuntimeHandler` and `Metrics`, three parts of one node that share no state | these modules, TLAPS |
| `MC*` | instances for TLC; `MCPlacement` puts `Metrics` and `Scaling` side by side | |

Modules compose by abstraction: `CapsuleFlow` takes a manager method as one step,
which `CapsuleManager` breaks up, an election as its outcome, which `Election`
produces, and a container as running or not, which `RuntimeHandler` explains.
`Sync` takes a handshake as one step, `Admit`, which `Auth` breaks up.  `Election`
takes a score as an input, which `Metrics` and `Gravity` compute.

### Lifecycle, CapsuleManager

`heap` holds the contents of `*Capsule` objects.  `cache` maps IDs to objects as
`Store.capsules` does, because `Store.Get` hands out the cached pointer and
methods change the object in place before they persist it.  `db` is the table,
`mach` the `lifecycles` map.  A method is the sequence of the sections it runs
under one lock; `thr[t]` says at which section thread `t` stands and what it
holds.  For instance `Delete` (row and cache) is followed by `DeleteDrop` (the
machine), `SyncStatus` by `SyncPut` and `Install`, `Receive` by `ReceivePut` or
`ReceiveCreate`.  A row write may fail when `DbMayFail`; `failed` remembers for
which capsule.  `Restart` kills every thread and rebuilds memory from the rows,
as `OpenStore` and `NewManager` do.  `cur` in a thread's position tells whether
the machine whose handler it runs is still the installed one.  A row from the mesh
may have a status that is not `Valid()` ("unknown"): it is stored as it is, and a
new machine then starts at Announced.

### Election, SlotAssignment

`round[n][s]` is the round of node `n` for slot `s`: `wait` for `PublishAt`,
`publish` (the claim is taken and not yet sent), `tiebreak`, `verdict` (the node
does not bid), or an outcome.  Each case of each `select` in `runElection` and
`waitForRemoteVerdict` is an action, so that when several are ready TLC tries
each, as Go does.  `Request` is `HandleRequest` with the head of `runElection`;
`ReportWon/Lost/Failed` are `report`.  `net` and `inbox` are the topic: a
message is in `net` until the topic's loop hands it on, then in the listener's
channel or, without a listener, in the buffer that `Sweep` empties.
`replicas[n]` is what the capsule store of `n` says after `handleElectionWon`
and `handleElectionLost`, and feeds the self-anti-affinity rule of
`IsEligible`.  The rule needs the calculator's lookup, which the calculator of a
cluster with weights of its own does not have; `Lookups` are the nodes that have
one.

Time is a clock common to all nodes.  A timer may be late by `Slack`, a message
by `Delta`; `Tick` waits until nothing that is due is left.  Faults are switched
by the constant `Faults`: lost messages, publish errors, `Stop`, `LeaveCluster`
(which closes channels that rounds still read: `ChannelClosed`, `NilRival`),
crashes, deletion of the capsule.

`SlotAssignment` is the abstract specification: a slot is given to one node
and stays there, a node takes one slot.  `ImplementsPlacement` maps a slot's
owner to the node that reported a win.

### EventBus

`Publish` is two steps, the check of `closed` under the mutex and the `select`
that sends after it is released.  `hand` is the event that the dispatcher took
and has not fanned out.  `Close` sets the flag, cancels and closes the input in
one step (one lock section), waits for the dispatcher, and shuts the
subscriber channels.  Operations on closed channels are `panic`, which ends the
process.  `sent`, `fanned`, `due`, `taken` and `last` are history for the
properties.

### Health

`score`, `status` and `member` are the phonebook entry that each node has for
one peer, the target.  A ping is two steps (`ProbeStart` then `OnProbeSuccess`
or `OnDirectPingFail`; `OnPingRequest` then `IndirectSuccess` or
`IndirectFail`), so an answer may be stale when it is recorded.  Scores are
counted in units of `ScoreIncrement`.  `timer[n]` is off, running or due:
`Elapse` makes a running timer due, `QuarantineTimeout` acts on a due one, and
every crossing of the threshold from below starts it again, as `checkThresholds`
does.  `Resize` changes the band that scales the thresholds. `Rumours` are
messages from nodes that are not modelled: with all of them allowed, one node is
checked against a cluster of any size.

### CapsuleFlow

`row[n]` and `mach[n]` are the stored capsule and the machine of node `n`.
`chan[<<m, n>>]` is the set of orbit messages of `m` that `n` has not read: they
arrive in any order, and `Redeliver` brings any message again.  A message has an
age, so that the age limit of the announcer and the cache of the deduplicator
are both there.  `queue[n]` has one queue per event type, because each
subscriber is a goroutine with a channel of its own.  The election request,
each verdict, a crash and a node failure are one action each, with all that the
handler does.  Create is two steps (`CreateEmit`, `CreateAnnounce`), and so is
Update: between `Update`, which stores, and `UpdateEmit`, which announces, the
object may leave the store (`Release`), and `upd[n]` then keeps the contents that
the call still holds.  A round is reduced to its outcome: nodes whose rounds are
open together agree on a winner, and a verdict that finds no round open is
buffered, then forgotten.  `Detect` is the health monitor's report of a death,
`FalseAlarm` its report of a node that lives; assumed is that a death is reported
after the messages of the dead node were read.

### RuntimeHandler

`job[i]` is the thread of the i-th win: look for a snapshot, ask peers, fetch,
restore or create and start, report, install a watcher, and for a cold start
checkpoint, record and restart.  `watch` are the watchers with their probes and
statistics streams, `roll` and `stop` the threads of `RollingUpdate` and
`StopContainer`.  A call to Podman is a step that works or fails.  Podman is
modelled from the way `runtime/podman` uses it: create refuses a name that
exists, start works on any container that does not run, checkpoint stops the
container.  `snap` and `file` are the rows and the files of the snapshot store,
apart because they are written apart: a record may fail when the file is there.

### Sync, Auth

In `Sync` an entry is its count of connection failures in a row; the status
copied with it matters to `Health` only, and a node's row about itself to
`Metrics`.  A node has two goroutines that sync (`Threads`): the periodic loop and
`handleSyncRequest`, which runs beside it.  `task[t]` is the one sync of such a
goroutine, database call by database call: `dial`, then either `check` and `remove`
(`recordConnectionFailure` records, reads, removes, with no lock around the
three) or `rows` and `resp` (the peer reads its rows, later its revocations).
What a delta request is answered with depends on two clocks and on the moment
the peer read each of them, so the model answers with any part of the peer's
rows; a full request gets them all, in one page, because the server never sets
`NextCursor` for one.  `MonitorRemoves` is the removal by the health monitor.
`streak` counts, for the rows in `Watched`, the failures in a row, and `seen` what
that count was when a goroutine decided to remove; both are history.

In `Auth` a client has one handshake at a time; each handler on either side is
an action, with the pending verdicts of the voucher between them.  The
phonebook is written by a subscriber (`adds`, then `book`); its event may be
dropped by a full bus (`DropEvent`), and syncer and health monitor remove rows
(`Remove`).  `lost` remembers who lost a record in either way and has stored none
since.  `LeaveCluster` is one
step.  Publishing without a topic is a nil dereference, so the node is gone.
Revocation lists are on disk and survive.

### Gravity, Metrics, Scaling

Contributions are hundredths, weights tenths, and a score is the pair of weighted
sum and maximum, so that the division of the code is a cross-multiplication.
A calculator is its weights and whether it has a lookup: the node's own has the
default weights and one, that of a cluster with overridden weights has none, so
that affinity does not apply and self-anti-affinity is skipped.  `Metrics` has the
rolling window, the peer table and the fallback to advertised capabilities; its
gossip is lost, late or out of order.  `entry[n]` is the row of `n` in its own
phonebook, from which the provider takes datacenter, status and capabilities:
authentication writes it (`NoteOwnRow`), a sync writes it without its datacenter
(`SyncOwnRow`), and what others gossip about `n` changes or removes it
(`JudgeOwnRow`).  In `Scaling` an
evaluation works off the snapshot it took; `log` is the history of events and
`life` counts how often a capsule was unregistered, because that forgets the
cooldowns.

## 3. Runs

| Run | Instance | Shows |
|---|---|---|
| `manager_concurrent` | 1 capsule, 2 threads, 3 objects, gossiped copies (one with an invalid status), database errors, restarts | `TypeOK`, `Durable`, `NoResurrection` |
| `manager_fire` | the same without state from the mesh | `StatusIsMachineState` |
| `election_close` | 3 nodes, 1 slot, different scores, node 1 perhaps ineligible, requests and timers up to a tick apart | `UniqueWinner`, `SomeWinner`, `RoundsResolve` |
| `election_replicas` | 3 nodes, 2 slots | the election implements `SlotAssignment` |
| `election_faults` | 2 nodes, 2 slots, every fault | `TypeOK`, `ClaimBacked`, `OneSlotUnlessFailed` |
| `event_bus` | 2 publishers, 2 channels, 3 events, capacities 2 and 1 | order, drops, panics, progress |
| `health` | 1 node hearing anything, 2 outages, 1 change of band | no missed threshold; quarantine has a timer, and ends unless crossed into for ever |
| `capsule_flow` | 2 nodes; 1 replica, 1 disturbance of six kinds and deletion; or 2 replicas, 1 disturbance other than an update, no deletion | `TypeOK`, `AppliedOnce`, `OrphanIsReplaced`, `NoStuckElecting` |
| `runtime` | 1 replica, 2 wins, updates or stops, 1 local restart, 2 probe retries, 1 fault, 1 image, 1 peer | `TypeOK`, `DeathIsReported`, `ZeroDowntime` |
| `sync` | 3 nodes, one of which syncs with both goroutines and two answer, 2 cuts, revocations or removals by the monitor, removal at 2 failures | `TypeOK`, `NoEarlyRemoval`, `RevocationsSpread` |
| `auth` | 2 members and a newcomer, 1 join or stale session, 1 leave, revocation, crash, refusal, lost broadcast, dropped event or removed row | `TypeOK`, `AdmissionIsRecorded`, `RejectedIsRefused`, `JoinReturns` |
| `placement` | 2 unequal nodes with the node's calculator or the cluster's, 2 capsules with rules, 3 placements; 1 capsule with 4 lists of scaling rules | `MTypeOK`, `BetterNodeScoresHigher`, `CooldownRespected` |

All of them pass.

**Bounds.**  Two threads are enough for every race of two methods, three objects
for the cached one and one that each thread received.  Different capsules share
only locks that are held within a step, so one capsule is enough.  In
`election_close` the wait per score point equals the message delay and timers
may be as late as that, so claims cross on the wire in both directions; three
nodes make one claim meet a better and a worse one. `election_faults` shrinks
the windows to one tick so that all six faults fit. `Timeout`, `Tiebreak` and
`Delta` keep the order of the defaults (message delay < tiebreak window <
timeout).  `MaxTime` is beyond the last deadline of a round.  Node 1 has a
lookup and the others none, in `election_*` and in `capsule_flow`, so that the
nodes with and without self-anti-affinity meet.  In `event_bus` the capacities
are below the number of events, so both channels fill up.  In `health` the bands
have thresholds 1, 2 and 2, 3 and scores saturate at 3, the highest threshold.
In `capsule_flow` one disturbance at a time meets every stage of the capsule, a
late message (`delay` ages it) and a deletion, which is not counted; two nodes
are a winner and a loser, and each is the survivor of the other's death.  Two
replicas make the rounds of one node race for its one claim; updates and
deletion with them would take the run past a few minutes.  In `runtime` two
operations are a win with a second win, an update or a stop on top of it, and
one fault is the failure of any one call, a crash or a lost probe;
`MaxPerCapsule` is 0 so that eviction has something to do at once.  `sync`
watches the row that one node has for the one that may be cut off; both
goroutines of that node count in it and a third node has the row to give.
Removal is at 2 so that one failure is not enough.  `RevocationsSpread` is about
each pair of nodes that talk, and one node that asks is one side of every such
pair; syncs of other nodes at the same time multiply the states and add no
writer to its phonebook.  In `auth` the newcomer, its voucher and a member that
judges it are all there is to a handshake; one operation falls between any two
of its steps.  In `placement` the two parts share no state, so a behaviour takes
steps of one of them (`part`); one sample is kept and one is under way, because
only the last one counts; time 3 is one more than the longer cooldown, and a
delete with a new registration falls inside it. CHECK_DEADLOCK is off where
every round may be over, the bus closed, or a bounded counter used up.

**Fairness.**  `Election`: weak fairness of the steps of rounds, deliveries and
the clock together, that is, of Go's scheduler and timers; no request, fault or
handler is fair.  `EventBus`: of the dispatcher goroutine and of the wait in
`Close`, while the process is alive; no publisher or subscriber is fair.
`Health`: of each node's probe loop, message loop and check loop (tickers, and a
random choice of peer every period), of the passing of a quarantine timeout and
of the subscriber that writes the fresh entry of a peer; outages, rumours and
quarantine probes are not fair. `Sync`: weak fairness of the steps of each
goroutine once it has dialled, which works or fails; strong fairness of each
periodic loop's dialling of each peer, because a round starts at a random
candidate. `Auth`: of the goroutines of client and voucher, with the timer of
the confirmation wait; no message is ever sure to arrive.

Every property of a passing run has a mutant in `PROJECT.json`: a plausible
slip in the code, under which TLC finds the property violated.

## 4. Proofs

Checked by TLAPS for every value of the constants that satisfies the named
assumptions of the modules (types of the bounds, `Nil` and the other markers
distinct from what they mark, finitely many channels on the bus, thresholds in
order) and, where a theorem states one, a condition of its own.  A property at
rest ("when every event is handled ...") or about one step is never inductive;
for each there is an invariant that says how a behaviour gets there.  Those
of the election's timing (`Race`, `Decisive`) were checked with TLC on small
instances first.

**CapsuleManagerProofs.**  `Durable` is not inductive, because nothing in it
ties an object to a capsule: a thread could change an object that another
capsule shares.  The invariant `Inv` adds `Owned` (cached and held objects
carry the ID they are cached or held for), `Positions` (what a thread holds at
each step) and `Agree` (where memory and disk differ, a failed write or a thread
about to persist that very object explains it).  `Invariance` proves it, one
step per action, over lemmas for the four shapes of a step (mutate, persist,
create, return) and for `Restart`.  `TypeCorrect`, `DurableAlways` and the
action property `NoResurrectionAlways` follow.

`StatusFollowsMachine` has the condition of the run `manager_fire`: `MeshRows`
and `Mirrored` are empty, that is, only calls of this node touch its capsules.
(With rows from the mesh `Receive` puts a status into the store that the machine
does not have.)  Its invariant `Machines` says that a stored status differs from
the machine's state only while a thread runs the handler of the installed
machine and holds that very state, that a machine runs one handler at a time,
and that nobody fires between `Store.Create` and the installation of the machine.

**ElectionProofs.**  `OneSlotUnlessFailed` needs to know what `localClaims`
means: `Exclusive` says that a node that is not spoiled has its claim set while
it holds a slot or has won one, and does not do both, so `tryClaimCapsule`
refuses it a second slot.  `ElectionInvariant` proves this for every cluster,
slot count, timing and combination of faults; `ElectionTypeCorrect`,
`ClaimBackedAlways` and `OneSlotAlways` follow.

What the nodes decide together depends on time, and is false without bounds
(section 5).  The bounds are stated as formulas over the constants:

* `Timely`: nodes stay up and messages arrive (a publish may fail, the capsule
  may be deleted), each node asks once, 2 `Delta` < `Tiebreak`,
  `LastRequest` + `Delta` < `Tiebreak`, `LastRequest` < `BufferTTL`, and two
  nodes have no score in common or timers are punctual (`Slack` = 0).
  `election_close` and `election_replicas` satisfy it.
* `Contested`: `Timely`, no faults, one slot, no score in common, a node that is
  sure to bid, and a deadline later than the latest publication by more than
  `Delta`.  `election_close` satisfies it.

`UniqueWinnerAlways` (under `Timely`) rests on `Race`: a claim sent and not yet
read is recent; of two nodes of which one is in its tiebreak window, the
other still has its claim to read, or has read it and is not beaten, and did not
publish long after it; once a slot is won nobody competes for it.  When a window
ends, any rival would have read the claim and lost, or be the better one, whose
own claim would have arrived.  `PlacementRefined` then shows every step to be a
`Win` of `SlotAssignment` or a stutter, along behaviours in which no
host is spoiled (`CleanWins`: a failed round or a deletion gives up the claim
that keeps a host from winning again, the third row of section 5).
`SomeWinnerAlways` (under `Contested`) rests on `Decisive`: every claim under way,
and every round of a keen node, is upheld by a node that competes with at least
that score or has won; a node that only listens has a claim to read once one is
out; and a store names its own node only where it won.  A verdict wait that
reaches its deadline then shows that a keen node never asked, so that the slot
is not settled.

**EventBusProofs.**  `SubscribersInOrder` needs the whole pipeline in order:
input, the dispatcher's hand, what was fanned out, each channel (`Ordered`).
`PanicsAfterClose` needs the sequence of `Close` (`Closing`).  `DropsCounted` needs
that the set of deliveries owed and not made is finite (`Balanced`).

**HealthProofs.**  `NoThresholdMissed` and `QuarantineTimed` are inductive
together, a phonebook at a time, with every restart of a timer by gossip;
`QuarantineTimed` needs no condition on the band,
`NoThresholdMissed` is about a cluster that stays in its band.

**CapsuleFlowProofs.**  For any cluster, number of replicas and set of
disturbances.  `NeverAppliedTwice`: a message that was acted on is remembered or
too old to be accepted (`Remembered`).  `ElectingEnds`: a machine in Electing
has an open round, a verdict or, after an update, a request that will take it
out (`Busy`).  `OrphansReplaced`: for each node and slot a host is recorded
whose death, if it died, is still to be reported or handled, or the slot is
asked for, open or decided here (`Followed`), and nothing still to be recorded
names a node whose death was reported (`Living`).  The object that an Update
still holds after it left the store has to fit too, since it is announced later:
it has a host, if any, only in slots of the capsule (`HeldOK`, `HeldFit`).

**SyncProofs.**  `RemovedOnlyWhenUnreachable` is an action property, for any
cluster, threshold and set of goroutines.  An entry counts at most as many
failures as there were in a row (`Counts`): a merged row starts at 0, a row
of another phonebook never brings its count with it, and a success of either
goroutine sets both back.  A goroutine that is about to remove has seen that
count at the threshold (`Decisions`), whatever the other one did since.

**AuthProofs.**  `AdmissionRecorded` follows the client from the moment it is
vouched for (`Recorded`): the record is stored, on its way, or in `lost`, and only
`DropEvent` and `Remove` by that voucher put it there.  `RejectionRefuses` needs
that a tracker says yes only after a confirmation (`Confirmed`).

**NodeProofs, Scaling.**  `CooldownKept` compares two events of the log, the code
one event with a map that unregistration empties; `Memory` ties the two: what
fired in this life of the capsule is in the map, with a time no earlier.  The
theorems are about `SSpec`, the scaling part alone; in the run `placement` the
metrics part shares no state with it.  The types of that part (`STypeOK`) are
proved (`ScalingTypeCorrect`) and not among the invariants of the run.

**NodeProofs, RuntimeHandler.**  For any tags, peers, numbers of operations,
faults, restarts and probe retries.  `DeathIsReported` speaks of a moment when
nothing is under way, so the invariant `RInv` says who answers for the replica
until then.  `Attended`: unless a failure was reported, some thread has not yet
reported, a rolling update is between the cancel of the old watcher and the new
one, or a watcher has something to do or polls on, not cancelled.  `Restarting`
and `Probing` close the gaps: a watcher about to restart has a restart left, and
one that is not cancelled has probes left, since the last probe cancels it.  A
watcher that polls an exited container is not settled, and with a health check
neither is one whose container does not run; without one it may poll a container
that never exits, which is the exception in `DeathIsReported`.  The exception
is exact: the case of a container reported as checkpointed came out of the proof.
For `ZeroDowntime` (`RollingUpdateServes`), `Undisturbed` says, for every step of
the only win and of the update, which of the two containers runs, as long as no
call failed and nothing was stopped; it needs the rows and files of the
snapshots at each step of the win (`SnapshotOf`), because a checkpoint stops the
container and only a cold start makes one.  TLC checked
`RInv` on two instances before it was proved.

**NodeProofs, Metrics and Gravity.**  The types are inductive with `Elsewhere`:
no sample in flight is addressed to its sender.  `ScoresOrdered` follows from
the types alone, with two assumptions about the environment: a host with none of
a resource shows none of it free, and a capsule has finitely many rules and
labels.  The weights are any natural numbers, and the calculators are equal.  A
bidder fits, so what it needs is free and is a share of a positive total; hence
the same factors apply to both bidders, and both scores have the same maximum.
Each factor is then monotone (`Covers`): shares compare as the fractions do
although they are rounded down and cut off (`PercentMonotone`), and placement,
affinity and labels by the cardinality of subsets.  Without the filter on
resources the first step fails, and so does the property: that is its mutant.

**Model-checked only.**  Liveness (`RoundsResolve`, `AcceptedAreFannedOut`,
`CloseReturns`, `QuarantineEnds`, `RevocationsSpread`,
`JoinReturns`), which is beyond the prover.  Every other property of a run is
stated by a theorem, `UniqueWinner`, `SomeWinner`, the refinement of
`SlotAssignment` and `StatusIsMachineState` under the conditions named above.

## 5. Where the code and its comments part

The runs state what holds.  Eleven statements that a comment or a test of the
repository makes do not, in the model or, as far as reading shows, in the
code.  Each has a configuration, kept beside the runs, with which TLC prints the
behaviour (`tlc -config <cfg> <module>`):

| Configuration, module | Statement | What happens |
|---|---|---|
| `MCManagerMachineRace`, `MCCapsuleManager` | `OneMachinePerCapsule`: "lifecycles holds one state machine per capsule" (`capsule/manager.go:53`) | `Receive` runs between the two halves of `Delete`; the rest of `Delete` drops the machine that `Receive` installed |
| `MCElectionEqual`, `MCElection` | `UniqueWinner` with equal scores: "deterministic tiebreak" (`election/manager.go:643-645`) | `isBetter` compares the time the rival published with the earlier time planned here; both nodes find themselves better and win |
| `MCElectionGreedy`, `MCElection` | `OneSlotPerNode`: the guard "prevents the best-fit node from winning every replica" (`election/manager.go:494-496`) | `report(Failed)` of one slot's round releases the claim that another slot's round holds |
| `MCElectionLeave`, `MCElection` | `RoundsResolve` with `LeaveCluster`: "Every ElectionRequested resolves to exactly one Outcome" (`election/elector.go:182-183`) | the topic closes the channel, the round reads nil and dereferences it |
| `MCHealthDead`, `MCHealth` | `DeadIsRemoved`: "suspected peers need continued probing to either recover or reach quarantine" (`node/health/monitor.go:352-353`) | a responder that no longer knows the dead peer answers with score 0, which listeners set |
| `MCHealthRestart`, `MCHealth` | `QuarantineAlwaysEnds`: peers are marked as failed "if they've been quarantined longer than the effective QuarantineTimeout" (`node/health/score.go:295-296`) | gossip lowers the score and the status stays; each time the score rises over the threshold again, the timer starts anew |
| `MCSyncReached`, `MCSync` | `NoRemovalOfReached`: "removing unreachable peer from phonebook" (`node/sync/syncer.go:904`) | the other goroutine reaches the peer between the `Get` that judges and the `Remove` |
| `MCSyncForgotten`, `MCSync` | `UnreachableIsRemoved`: peers are probed to "either recover back to active or reach the removal threshold" (`node/sync/syncer.go:695-697`) | each sync with a peer that still has the row writes it anew, with no failures |
| `MCFlowDeleted`, `MCCapsuleFlow` | `DeletedIsForgotten`: "Withdraw from orbit so other nodes remove it" (`node/capsule_handler.go:752`) | `Update` announces after it has stored, with no lock held; a Delete withdraws in between, and the late announcement makes the capsule again on the other node (a withdrawal that overtakes an announcement does the same) |
| `MCFlowCreated`, `MCCapsuleFlow` | `StartElectionIsValid`: received capsules "start their lifecycle at the already-Announced state" (`capsule/manager.go:226-231`) | `Create` emits its event, and so announces, before `Announce` fires; the copy carries status created |
| `MCRuntimeCheckpoint`, `MCRuntimeHandler` | `CheckpointIsNoCrash`: the watcher acts when "the container exits unexpectedly" (`runtime/handler.go`) | the watcher's poll falls between checkpoint and restart |

The properties of the runs are stated so that they say what is left:
`OneSlotUnlessFailed` excepts nodes whose round failed, `OrphanIsReplaced`
behaviours in which a node left the cluster and slots of which a round failed (a
node that ignores a worse claim and then steps aside for its other slot fails
that round and never records the host), `NoStuckElecting` a node that receives
an update announced during an election and leaves before its own request is
dispatched, `QuarantineEnds` a target whose score crosses the threshold for ever,
`NoEarlyRemoval` the removals by the health monitor, which gossiped scores alone
may bring about, `AdmissionIsRecorded` a voucher that dropped the event or removed
the row, `BetterNodeScoresHigher` bidders with different calculators,
`RejectedIsRefused` newcomers that somebody confirmed before the rejection came.

Noticed while modelling, and not stated as properties: members need not spread
by deltas, because `lastSync` is kept per cluster and not per peer (q syncs with
z, n with p, p with z, n with q, and so on: n has always just synced when its
peer learns of z), and because `SyncTime` is taken after the rows were read
(`node/sync/syncer.go:588, 640`); bidders in a cluster where only some nodes
have overridden weights divide by different maxima; the calculator of such a
cluster gets no lookup although a comment says "Reuse the same lookup"
(`node/node.go:805-809`), so self-anti-affinity is skipped there; a sync clears
the datacenter of a node's own row, and with it the diversity factor
(`node/sync/syncer.go:498-504, 538-539`, `node/phonebook/sqlite.go:219-229`); a
node never connects to itself, so its own success rate is always 0; a container
that dies is offered to an election only its own node runs, in which that node
may not bid; a report of a node's death that comes after the slot was placed
again elects it once more; a rolling update leaves the container under its
"-new" name, where the next stop does not look for it; `EvictOverCap` removes
rows that are in use (`snapshot/store.go:243-250`); the originator of a capsule
never registers its scaling rules; a rule whose conditions are all schedules
always holds; a received capsule without rules leaves the old ones registered.

## 6. Not modelled

* Message contents, signatures, encoding and SQL, logging and metrics of the
  modelled parts.  Generated protobuf code.
* The 16-message capacity of an election listener; the model may lose any
  message instead (`Lose`).
* Clocks of different nodes: the election's clock is global.  A skew shifts
  the published time of a claim, which `isBetter` compares.
* In `Health`: message age and signatures, the session refresher, `Stop`, and
  the syncer, which writes `Quarantined` without a timer.
* In `CapsuleFlow`: a node that died and comes back with the rows of its database
  (`node/node.go:1344`); Delete and Receive as several steps (an announcement or
  withdrawal of theirs that is late is a message that arrives late); events lost
  by a full bus, and death reports that overtake the messages of the dead node.
* In `Sync`: a node's row about itself (`Metrics` has it), lists of more than one
  page, and the choice among candidates, of which any may come next.
* In `Auth`: cryptography, certificate renewal, nonces, the session refresher.
* In `Metrics`: `JoinCluster` and `LeaveCluster` running at the same time.
* `capsule/placement` and `capsule/momentum`, which no other package of the
  program imports; the placement rules that count are gravity's.
* Podman, libp2p, the API, configuration and command line: I/O and wiring.

## 7. Plan

Done: manager and store, election, event bus, health, capsule flow with orbits,
runtime and snapshots, sync, authentication, gravity, metrics and scaling.
Next:

1. Proofs: `ElectionProofs` with several slots in `SomeWinnerAlways`, where a
   node that steps aside for its own other slot needs a rival that does not.
2. The entry of a peer in `Health` and in `Sync` as one record, with the syncer's
   quarantine and the tracker's timer together.
3. In `CapsuleFlow`, death reports that overtake the messages of the dead node, and
   a node that restarts with its rows.
4. The times of the delta sync, so that conditions can be stated under which
   members do spread.

The list of runs stays at a dozen: a new component replaces the narrower runs,
or joins an existing instance.
