----------------------------- MODULE CapsuleFlow -----------------------------
(***************************************************************************)
(* One capsule on the nodes of one cluster, as node/capsule_handler.go     *)
(* moves it: announcements and withdrawals travel through the orbit        *)
(* (capsule/orbit), manager events become election requests, the verdicts  *)
(* of the elections are recorded by the subscribers, and the runtime       *)
(* bridge (node/runtime_handler.go) starts the replica that was won.       *)
(*                                                                         *)
(* The methods of the capsule manager are atomic here (CapsuleManager has  *)
(* their interleavings), but for an Update, which announces when it has    *)
(* stored, and for the end of a Create.  An election round is reduced to   *)
(* its outcome (Election has its protocol): the nodes whose rounds are     *)
(* open together agree on one winner; a claim or a failure that finds no   *)
(* round open is buffered for a while.  Orbit messages arrive in any       *)
(* order.  A node that died does not come back with the rows of its        *)
(* database.                                                               *)
(***************************************************************************)
EXTENDS Lifecycle, Naturals, SequencesExt

CONSTANTS Nodes,       \* node IDs
          MaxReplicas, \* bound: replicas a capsule asks for
          Creators,    \* nodes the capsule may be created on
          Lookups,     \* nodes whose gravity calculator has a capsule lookup
          Disturb,     \* Disturb[k]: what may happen to a capsule of k replicas
          MaxDisturb,  \* bound: how many of those happen
          Deletable,   \* bound: replicas of a capsule that may be deleted
          Stored,      \* in place of an object: the one in the store
          Nil

Disturbances == {"update", "leave", "crash", "death", "delay", "alarm"}

ASSUME FlowAssumption ==
  /\ Creators \subseteq Nodes /\ Lookups \subseteq Nodes /\ Nil \notin Nodes
  /\ Nodes \cap {"new", "made", "failure"} = {}
  /\ MaxReplicas \in Nat \ {0} /\ MaxDisturb \in Nat
  /\ Disturb \in [1 .. MaxReplicas -> SUBSET Disturbances]

Slots == 0 .. MaxReplicas - 1

VARIABLES
  count,   \* initialReplicaCount of the capsule
  row,     \* row[n]: the stored capsule of n, Nil when absent
  mach,    \* mach[n]: the state of its lifecycle machine
  joined,  \* nodes subscribed to the orbit and to the election topic
  sent,    \* every orbit message published so far
  chan,    \* chan[<<m, n>>]: messages of m that n has not read
  upd,     \* upd[n]: the object a call of Update on n is about to announce:
           \* Stored, or its contents when it left the store
  seen,    \* seen[n]: the deduplicator of n
  queue,   \* queue[n][k]: events of type k the subscriber on n has not handled
  el,      \* el[n][s]: the round of n for slot s
  heard,   \* heard[n][s]: what the topic of n buffers for s
  claimed, \* nodes with a local claim
  run,     \* <<n, s>>: the runtime of n has a container for s
  life,    \* "new", the node whose Create is between its halves, or "made"
  alive,   \* nodes whose process lives
  failedOn,\* failedOn[n]: dead nodes that the health monitor of n has reported
  done,    \* the disturbances there were
  won,     \* history: slots that some node has won
  failed,  \* history: slots of which some round has failed
  applied, \* history: applied[n], the messages n has acted on
  hist     \* history: "twice", "dropped", "deleted"

vars == <<count, row, mach, joined, sent, chan, seen, queue, el, heard, claimed,
          run, life, upd, alive, failedOn, done, won, failed, applied,
          hist>>

Kinds == {"req", "won", "rt", "lost", "fail", "node", "crash"}
Capsule == [st : Statuses, rep : [Slots -> Nodes \cup {Nil}]]
Message == [kind : {"announcement"}, from : Nodes, row : Capsule, age : 0 .. 2]
           \cup [kind : {"withdrawal"}, from : Nodes, row : {Nil}, age : 0 .. 2]

ASSUME NilAssumption == /\ Nil \notin Capsule \cup Statuses
                        /\ Stored \notin Capsule \cup {Nil}

(* A round is closed, bids, stands aside and waits for a verdict, or has
   heard of a failure; one that hears of its winner ends at once. *)
RoundStates == {"none", "bid", "aside", "failure"}

TypeOK ==
  /\ row \in [Nodes -> Capsule \cup {Nil}]
  /\ mach \in [Nodes -> Statuses \cup {Nil}]
  /\ \A n \in Nodes : row[n] = Nil <=> mach[n] = Nil
  /\ joined \subseteq alive /\ alive \subseteq Nodes
  /\ sent \in Seq(Message)
  /\ chan \in [Nodes \X Nodes -> SUBSET DOMAIN sent]
  /\ upd \in [Nodes -> Capsule \cup {Stored, Nil}]
  /\ \A n \in Nodes : /\ upd[n] = Stored => row[n] # Nil
                      /\ upd[n] # Nil => "update" \in done
  /\ seen \in [Nodes -> SUBSET DOMAIN sent]
  /\ queue \in [Nodes -> [Kinds -> Seq(Slots \X Nodes)]]
  /\ el \in [Nodes -> [Slots -> RoundStates]]
  /\ heard \in [Nodes -> [Slots -> Nodes \cup {Nil, "failure"}]]
  /\ claimed \subseteq Nodes
  /\ run \subseteq Nodes \X Slots
  /\ life \in {"new", "made"} \cup Nodes
  /\ failedOn \in [Nodes -> SUBSET Nodes]
  /\ done \subseteq Disturb[count]
  /\ count \in 1 .. MaxReplicas /\ won \subseteq Slots /\ failed \subseteq Slots
  /\ applied \in [Nodes -> SUBSET DOMAIN sent]
  /\ hist \subseteq {"twice", "dropped", "deleted"}

NoRounds == [s \in Slots |-> "none"]
NoEvents == [k \in Kinds |-> <<>>]

Init ==
  /\ count \in 1 .. MaxReplicas
  /\ row = [n \in Nodes |-> Nil] /\ mach = [n \in Nodes |-> Nil]
  /\ joined = Nodes /\ alive = Nodes
  /\ sent = <<>> /\ chan = [p \in Nodes \X Nodes |-> {}]
  /\ seen = [n \in Nodes |-> {}] /\ upd = [n \in Nodes |-> Nil]
  /\ queue = [n \in Nodes |-> NoEvents]
  /\ el = [n \in Nodes |-> NoRounds]
  /\ heard = [n \in Nodes |-> [s \in Slots |-> Nil]]
  /\ claimed = {} /\ run = {} /\ life = "new"
  /\ failedOn = [n \in Nodes |-> {}]
  /\ done = {}
  /\ won = {} /\ failed = {} /\ applied = [n \in Nodes |-> {}] /\ hist = {}

(* Disturbance k happens, once at most. *)
Disturbed(k) ==
  /\ k \in Disturb[count] \ done /\ Cardinality(done) < MaxDisturb
  /\ done' = done \cup {k} /\ UNCHANGED count

-----------------------------------------------------------------------------
(* manager.Fire on n: a trigger that the machine refuses changes nothing.
   Several triggers are fired one after the other until one is refused. *)
FireState(s, trigger) ==
  IF \E u \in Statuses : Permit(s, trigger, u)
  THEN CHOOSE u \in Statuses : Permit(s, trigger, u) ELSE s

Put(n, s) ==
  IF row[n] = Nil THEN UNCHANGED <<row, mach>>
  ELSE /\ row' = [row EXCEPT ![n].st = s]
       /\ mach' = [mach EXCEPT ![n] = s]

Fire(n, trigger) ==
  IF row[n] # Nil /\ FireState(mach[n], trigger) # mach[n]
  THEN Put(n, FireState(mach[n], trigger)) ELSE UNCHANGED <<row, mach>>

(* eventBus.Publish: the subscriber's channel gets the event. *)
Post(q, n, k, e) == [q EXCEPT ![n][k] = Append(@, e)]

(* The slots that requestInitialElections asks for. *)
InitialSlots == 0 .. count - 1

(* requestElection for each slot of S. *)
RequestElections(q, n, S) ==
  [q EXCEPT ![n]["req"] = @ \o SetToSeq({<<s, n>> : s \in S})]

(* Announcer.Announce and Withdraw through orbit.Manager.Publish, which
   fails when the orbit is not joined; the handler only logs that.  ch and h
   are the channels and the history before it. *)
Broadcast(n, kind, r, ch, h) ==
  IF n \in joined
  THEN /\ sent' = Append(sent, [kind |-> kind, from |-> n, row |-> r, age |-> 0])
       /\ chan' = [p \in Nodes \X Nodes |->
                     IF p[1] = n /\ p[2] \in joined \ {n}
                     THEN ch[p] \cup {Len(sent) + 1} ELSE ch[p]]
       /\ hist' = h
  ELSE /\ sent' = sent /\ chan' = ch /\ hist' = h \cup {"dropped"}

History == <<won, failed>>
Elections == <<el, heard, History>>
World == <<count, joined, alive, failedOn, done>>
Orbit == <<sent, chan, seen, applied, hist>>

-----------------------------------------------------------------------------
(* Create on n: the row and the machine, then EventCapsuleCreated (announce
   it and request the initial elections), and only then Announce. *)
CreateEmit(n) ==
  /\ life = "new" /\ n \in alive \cap Creators
  /\ life' = n
  /\ LET r == [st |-> "created", rep |-> [s \in Slots |-> Nil]] IN
     /\ row' = [row EXCEPT ![n] = r]
     /\ mach' = [mach EXCEPT ![n] = "created"]
     /\ Broadcast(n, "announcement", r, chan, hist)
     /\ queue' = RequestElections(queue, n, InitialSlots)
  /\ UNCHANGED <<seen, applied, Elections, claimed, run, upd, World>>

CreateAnnounce(n) ==
  /\ life = n /\ n \in alive
  /\ life' = "made"
  /\ Fire(n, "announce")
  /\ UNCHANGED <<Orbit, queue, Elections, claimed, run, upd, World>>

(* Update: the spec of the stored object is replaced, and then, with no lock
   held, the object announced as it is by then. *)
Update(n) ==
  /\ n \in alive /\ row[n] # Nil /\ upd[n] = Nil /\ Disturbed("update")
  /\ upd' = [upd EXCEPT ![n] = Stored]
  /\ UNCHANGED <<row, mach, Orbit, queue, Elections, claimed, run, life, joined,
                 alive, failedOn>>

UpdateEmit(n) ==
  /\ n \in alive /\ upd[n] # Nil
  /\ upd' = [upd EXCEPT ![n] = Nil]
  /\ Broadcast(n, "announcement", IF upd[n] = Stored THEN row[n] ELSE upd[n],
               chan, hist)
  /\ UNCHANGED <<row, mach, seen, applied, queue, Elections, claimed, run, life, World>>

(* The object of n's capsule leaves the store. *)
Release(n) == upd' = [upd EXCEPT ![n] = IF @ = Stored THEN row[n] ELSE @]

(* Delete that leaves the lifecycle machine. *)
DeleteKeepsMachine(n, ch, h) ==
  /\ row' = [row EXCEPT ![n] = Nil]
  /\ claimed' = claimed \ {n} /\ Release(n)
  /\ Broadcast(n, "withdrawal", Nil, ch, h)
  /\ UNCHANGED mach

(* manager.Delete and EventCapsuleDeleted: withdraw it from the orbit and
   forget the local claim. *)
DeleteHere(n, ch, h) ==
  /\ row' = [row EXCEPT ![n] = Nil]
  /\ mach' = [mach EXCEPT ![n] = Nil]
  /\ claimed' = claimed \ {n} /\ Release(n)
  /\ Broadcast(n, "withdrawal", Nil, ch, h)

Delete(n) ==
  /\ count \in Deletable /\ "deleted" \notin hist
  /\ n \in alive /\ row[n] # Nil
  /\ DeleteHere(n, chan, hist \cup {"deleted"})
  /\ UNCHANGED <<seen, applied, queue, Elections, run, life, World>>

-----------------------------------------------------------------------------
(* A message published more than MaxMessageAge ago is stale; the deduplicator
   forgets what it saw more than its maxAge ago, which is longer. *)
Stale(i) == sent[i].age >= 1
Forgettable(i) == sent[i].age >= 2

(* So much time passes that every message changes its class. *)
Delay ==
  /\ Disturbed("delay")
  /\ \E age \in 1 .. 2 :
       sent' = [i \in DOMAIN sent |->
                  [sent[i] EXCEPT !.age = IF @ < age THEN age ELSE @]]
  /\ UNCHANGED <<row, mach, chan, seen, applied, hist, queue, Elections, claimed,
                 run, life, upd, joined, alive, failedOn>>

(* dedupCleanupLoop. *)
DedupCleanup(n) ==
  /\ n \in joined /\ \E i \in seen[n] : Forgettable(i)
  /\ seen' = [seen EXCEPT ![n] = {i \in @ : ~Forgettable(i)}]
  /\ UNCHANGED <<row, mach, sent, chan, applied, hist, queue, Elections, claimed,
                 run, life, upd, World>>

(* Announcer.HandleMessage without its age check. *)
AcceptsAnyAge(n, i) == i \notin seen[n]

(* Announcer.HandleMessage: neither a duplicate nor stale. *)
Accepts(n, i) == i \notin seen[n] /\ ~Stale(i)

(* manager.Receive: a known capsule is replaced and keeps its machine, a new
   one gets a machine; both emit EventCapsuleReceived, which requests the
   initial elections. *)
Receive(n, r) ==
  /\ row' = [row EXCEPT ![n] = r]
  /\ mach' = [mach EXCEPT ![n] = IF row[n] = Nil THEN r.st ELSE @]
  /\ queue' = RequestElections(queue, n, InitialSlots)
  /\ Release(n)
  /\ UNCHANGED claimed

(* onOrbitMessage on n for message i, with the channels ch left to read. *)
OnOrbitMessage(n, i, ch) ==
  LET h == hist \cup (IF i \in applied[n] THEN {"twice"} ELSE {}) IN
  /\ seen' = [seen EXCEPT ![n] = @ \cup {i}]
  /\ \/ /\ Accepts(n, i)
        /\ applied' = [applied EXCEPT ![n] = @ \cup {i}]
        /\ \/ /\ sent[i].kind = "announcement"
              /\ Receive(n, sent[i].row)
              /\ sent' = sent /\ chan' = ch /\ hist' = h
           \/ /\ sent[i].kind = "withdrawal" /\ row[n] # Nil
              /\ DeleteHere(n, ch, h)
              /\ UNCHANGED queue
           \/ /\ sent[i].kind = "withdrawal" /\ row[n] = Nil    \* not found
              /\ sent' = sent /\ chan' = ch /\ hist' = h
              /\ UNCHANGED <<row, mach, upd, queue, claimed>>
     \/ /\ ~Accepts(n, i)
        /\ sent' = sent /\ chan' = ch
        /\ hist' = hist \cup (IF i \in applied[n] THEN {} ELSE {"dropped"})
        /\ UNCHANGED <<row, mach, upd, queue, claimed, applied>>
  /\ UNCHANGED <<Elections, run, life, World>>

(* messageLoop: n reads a message of m, and gossip keeps no order; or it
   brings one again. *)
Deliver(m, n) ==
  /\ n \in joined
  /\ \E i \in chan[<<m, n>>] :
       OnOrbitMessage(n, i, [chan EXCEPT ![<<m, n>>] = @ \ {i}])

Redeliver(n, i) ==
  /\ n \in joined /\ sent[i].from # n
  /\ i \in applied[n]
  /\ OnOrbitMessage(n, i, chan)

(* LeaveCluster drops the orbit, its unread messages, the deduplicator and
   the election topic with what it buffers; JoinOrbit starts afresh. *)
LeaveCluster(n) ==
  /\ n \in joined /\ Disturbed("leave")
  /\ joined' = joined \ {n}
  /\ chan' = [p \in Nodes \X Nodes |-> IF p[2] = n THEN {} ELSE chan[p]]
  /\ seen' = [seen EXCEPT ![n] = {}] /\ applied' = [applied EXCEPT ![n] = {}]
  /\ heard' = [heard EXCEPT ![n] = [s \in Slots |-> Nil]]
  /\ hist' = hist \cup {"dropped"}
  /\ UNCHANGED <<row, mach, sent, queue, el, History, claimed, run, life, upd, alive,
                 failedOn>>

JoinOrbit(n) ==
  /\ n \in alive \ joined
  /\ joined' = joined \cup {n}
  /\ UNCHANGED <<row, mach, Orbit, queue, Elections, claimed, run, life, upd, alive,
                 failedOn, done, count>>

-----------------------------------------------------------------------------
(* gravity.IsEligible's implicit rule, which a calculator without a lookup
   skips, and hasLocalClaim. *)
MayBid(n) ==
  n \notin claimed /\ (n \in Lookups => \A s \in Slots : row[n].rep[s] # n)

Closed(n, s) == el[n][s] = "none"
SetEl(n, s, v) == el' = [el EXCEPT ![n][s] = v]

(* ElectionHandler.dispatch and HandleRequest: the request is refused when
   the capsule is gone or the cluster was left, and collapses onto a round
   that is open.  A claim in the buffer ends a round that stands aside; one
   that bids loses to it or, with the better score, claims all the same.  A
   failure in the buffer ends both. *)
Dispatch(n) ==
  /\ n \in alive /\ queue[n]["req"] # <<>>
  /\ LET s == Head(queue[n]["req"])[1]
         q == [queue EXCEPT ![n]["req"] = Tail(@)]
         way == IF MayBid(n) THEN "bid" ELSE "aside" IN
     \/ /\ row[n] = Nil \/ n \notin joined \/ ~Closed(n, s)
        /\ queue' = q
        /\ UNCHANGED <<row, mach, el, heard>>
     \/ /\ row[n] # Nil /\ n \in joined /\ Closed(n, s)
        /\ Fire(n, "election_started")
        /\ heard' = [heard EXCEPT ![n][s] = Nil]
        /\ \/ heard[n][s] = Nil /\ SetEl(n, s, way) /\ queue' = q
           \/ heard[n][s] = "failure" /\ SetEl(n, s, "failure") /\ queue' = q
           \/ /\ heard[n][s] \in Nodes
              /\ queue' = Post(q, n, "lost", <<s, heard[n][s]>>)
              /\ UNCHANGED el
           \/ heard[n][s] \in Nodes /\ way = "bid" /\ SetEl(n, s, way) /\ queue' = q
  /\ UNCHANGED <<Orbit, claimed, run, History, life, upd, World>>

(* The round of n for s ends, and the others in the cluster hear of v, its
   winner or "failure".  A topic without an open round buffers it. *)
Hearing(n, s) == {m \in joined \ {n} : el[m][s] \in {"bid", "aside"}}
Tell(n, s, v) ==
  /\ el' = [m \in Nodes |->
              [el[m] EXCEPT ![s] = IF m = n THEN "none"
                                   ELSE IF m \notin Hearing(n, s) THEN @
                                   ELSE IF v = "failure" THEN v ELSE "none"]]
  /\ heard' = [m \in Nodes |-> IF m \in joined \ {n} /\ Closed(m, s)
                               THEN [heard[m] EXCEPT ![s] = v] ELSE heard[m]]

(* report(Won): WinElection, then ElectionWon for both subscribers; the other
   rounds report(Lost). *)
Win(n, s) ==
  /\ n \in joined /\ el[n][s] = "bid" /\ n \notin claimed
  /\ claimed' = claimed \cup {n}
  /\ Tell(n, s, n) /\ won' = won \cup {s}
  /\ Fire(n, "election_won")
  /\ queue' = [m \in Nodes |->
       IF m = n THEN [queue[m] EXCEPT !["won"] = Append(@, <<s, n>>),
                                      !["rt"] = Append(@, <<s, n>>)]
       ELSE IF m \in Hearing(n, s)
       THEN [queue[m] EXCEPT !["lost"] = Append(@, <<s, n>>)] ELSE queue[m]]
  /\ UNCHANGED <<Orbit, run, failed, life, upd, World>>

(* tryClaimCapsule found the claim taken by another slot of this node. *)
StepAside(n, s) ==
  /\ n \in alive /\ el[n][s] = "bid" /\ n \in claimed
  /\ SetEl(n, s, "aside")
  /\ UNCHANGED <<row, mach, Orbit, queue, heard, History, claimed, run, life, upd, World>>

(* report(Failed): the deadline comes while nobody bids, the topic was left,
   or a failure was heard.  The failure is gossiped. *)
FailRound(n, s) ==
  /\ n \in alive
  /\ \/ el[n][s] = "aside" /\ \A m \in alive : el[m][s] # "bid"
     \/ el[n][s] \in {"bid", "aside"} /\ n \notin joined
     \/ el[n][s] = "failure"
  /\ claimed' = claimed \ {n}
  /\ IF n \in joined THEN Tell(n, s, "failure")
     ELSE SetEl(n, s, "none") /\ UNCHANGED heard
  /\ Fire(n, "election_timeout")
  /\ queue' = Post(queue, n, "fail", <<s, n>>)
  /\ failed' = failed \cup {s}
  /\ UNCHANGED <<Orbit, run, won, life, upd, World>>

(* The buffer of the topic forgets after its TTL. *)
ExpireBuffer(n, s) ==
  /\ heard[n][s] # Nil
  /\ heard' = [heard EXCEPT ![n][s] = Nil]
  /\ UNCHANGED <<row, mach, Orbit, queue, el, History, claimed, run, life, upd, World>>

-----------------------------------------------------------------------------
(* A subscriber of n takes the next event of its type. *)
Takes(n, k) == n \in alive /\ queue[n][k] # <<>>
Slot(n, k) == Head(queue[n][k])[1]
Who(n, k) == Head(queue[n][k])[2]
Drop(n, k) == [queue EXCEPT ![n][k] = Tail(@)]
Calm == <<Orbit, Elections, claimed, life, upd, World>>

(* handleElectionWon: AssignReplica. *)
OnElectionWon(n) ==
  /\ Takes(n, "won")
  /\ queue' = Drop(n, "won")
  /\ row' = IF row[n] = Nil THEN row
            ELSE [row EXCEPT ![n].rep[Slot(n, "won")] = Who(n, "won")]
  /\ UNCHANGED <<mach, run, Calm>>

(* handleElectionLost without AssignReplica, and without SyncStatus. *)
OnElectionLostUnrecorded(n) ==
  /\ Takes(n, "lost")
  /\ queue' = Drop(n, "lost")
  /\ Put(n, "assigned")
  /\ UNCHANGED <<run, Calm>>

OnElectionLostUnsynced(n) ==
  /\ Takes(n, "lost")
  /\ queue' = Drop(n, "lost")
  /\ row' = IF row[n] = Nil THEN row
            ELSE [row EXCEPT ![n].rep[Slot(n, "lost")] = Who(n, "lost")]
  /\ UNCHANGED <<mach, run, Calm>>

(* handleElectionLost: SyncStatus(Assigned), then AssignReplica. *)
OnElectionLost(n) ==
  /\ Takes(n, "lost")
  /\ queue' = Drop(n, "lost")
  /\ IF row[n] = Nil THEN UNCHANGED <<row, mach>>
     ELSE /\ row' = [row EXCEPT ![n] =
                       [st |-> "assigned",
                        rep |-> [@.rep EXCEPT ![Slot(n, "lost")] = Who(n, "lost")]]]
          /\ mach' = [mach EXCEPT ![n] = "assigned"]
  /\ UNCHANGED <<run, Calm>>

(* handleElectionFailed: SyncStatus(Announced). *)
OnElectionFailed(n) ==
  /\ Takes(n, "fail")
  /\ queue' = Drop(n, "fail")
  /\ Put(n, "announced")
  /\ UNCHANGED <<run, Calm>>

(* onNodeFailed: an election for every replica recorded on the dead node. *)
OnNodeFailed(n) ==
  /\ Takes(n, "node")
  /\ queue' = IF row[n] = Nil THEN Drop(n, "node")
              ELSE RequestElections(Drop(n, "node"), n,
                                    {s \in Slots : row[n].rep[s] = Who(n, "node")})
  /\ UNCHANGED <<row, mach, run, Calm>>

(* handleContainerCrash: the same for the replicas recorded on n itself. *)
OnContainerCrash(n) ==
  /\ Takes(n, "crash")
  /\ queue' = IF row[n] = Nil THEN Drop(n, "crash")
              ELSE RequestElections(Drop(n, "crash"), n,
                                    {s \in Slots : row[n].rep[s] = n})
  /\ UNCHANGED <<row, mach, run, Calm>>

(* RuntimeBridge: the container runs, and StartExecution and MarkRunning are
   fired; or it does not start, and ExecutionFailed is fired and published. *)
RuntimeStart(n) ==
  /\ Takes(n, "rt")
  /\ LET s == Slot(n, "rt") IN
     \/ /\ row[n] # Nil
        /\ run' = run \cup {<<n, s>>}
        /\ queue' = Drop(n, "rt")
        /\ IF mach[n] = "assigned" THEN Put(n, "running") ELSE UNCHANGED <<row, mach>>
        /\ UNCHANGED <<done, count>>
     \/ /\ IF row[n] = Nil THEN UNCHANGED <<done, count>> ELSE Disturbed("crash")
        /\ queue' = Post(Drop(n, "rt"), n, "crash", <<s, n>>)
        /\ Fire(n, "execution_failed")
        /\ UNCHANGED run
  /\ UNCHANGED <<Orbit, Elections, claimed, life, upd, joined, alive, failedOn>>

ContainerDies(n, s) ==
  /\ <<n, s>> \in run /\ n \in alive /\ Disturbed("crash")
  /\ run' = run \ {<<n, s>>}
  /\ queue' = Post(queue, n, "crash", <<s, n>>)
  /\ Fire(n, "execution_failed")
  /\ UNCHANGED <<Orbit, Elections, claimed, life, upd, joined, alive, failedOn>>

-----------------------------------------------------------------------------
(* The process of n dies. *)
Die(n) ==
  /\ n \in alive /\ Disturbed("death")
  /\ alive' = alive \ {n} /\ joined' = joined \ {n} /\ claimed' = claimed \ {n}
  /\ run' = {x \in run : x[1] # n}
  /\ row' = [row EXCEPT ![n] = Nil] /\ mach' = [mach EXCEPT ![n] = Nil]
  /\ queue' = [queue EXCEPT ![n] = NoEvents]
  /\ el' = [el EXCEPT ![n] = NoRounds]
  /\ heard' = [heard EXCEPT ![n] = [s \in Slots |-> Nil]]
  /\ chan' = [p \in Nodes \X Nodes |-> IF p[2] = n THEN {} ELSE chan[p]]
  /\ seen' = [seen EXCEPT ![n] = {}] /\ applied' = [applied EXCEPT ![n] = {}]
  /\ upd' = [upd EXCEPT ![n] = Nil]
  /\ hist' = hist \cup {"dropped"}
  /\ UNCHANGED <<sent, History, life, failedOn>>

(* NodeFailed: the health monitor of n reports f.  It does so long after the
   bus has delivered what f last did and the buffers have expired. *)
Detect(n, f) ==
  /\ n \in alive /\ f \notin alive /\ f \notin failedOn[n]
  /\ \A s \in Slots : heard[n][s] = Nil
  /\ queue[n]["lost"] = <<>> /\ chan[<<f, n>>] = {}
  /\ failedOn' = [failedOn EXCEPT ![n] = @ \cup {f}]
  /\ queue' = Post(queue, n, "node", <<CHOOSE s \in Slots : TRUE, f>>)
  /\ UNCHANGED <<row, mach, Orbit, Elections, claimed, run, life, upd, joined, alive,
                 done, count>>

(* The same about a node that lives, whose score the gossip or lost pings have
   spoilt (Health). *)
FalseAlarm(n, f) ==
  /\ n \in alive /\ f \in alive \ {n} /\ Disturbed("alarm")
  /\ queue' = Post(queue, n, "node", <<CHOOSE s \in Slots : TRUE, f>>)
  /\ UNCHANGED <<row, mach, Orbit, Elections, claimed, run, life, upd, joined, alive,
                 failedOn>>

-----------------------------------------------------------------------------
Handle(n) ==
  \/ Dispatch(n) \/ OnElectionWon(n) \/ OnElectionLost(n) \/ OnElectionFailed(n)
  \/ OnNodeFailed(n) \/ OnContainerCrash(n) \/ RuntimeStart(n) \/ CreateAnnounce(n)

Elect(n, s) ==
  Win(n, s) \/ StepAside(n, s) \/ FailRound(n, s) \/ ExpireBuffer(n, s)

Next ==
  \/ \E n \in Nodes :
       \/ Handle(n)
       \/ CreateEmit(n) \/ Update(n) \/ UpdateEmit(n) \/ Delete(n)
       \/ LeaveCluster(n) \/ JoinOrbit(n) \/ DedupCleanup(n) \/ Die(n)
       \/ \E s \in Slots : Elect(n, s) \/ ContainerDies(n, s)
       \/ \E m \in Nodes : Deliver(m, n) \/ Detect(n, m) \/ FalseAlarm(n, m)
       \/ \E i \in DOMAIN sent : Redeliver(n, i)
  \/ Delay

Spec == Init /\ [][Next]_vars

-----------------------------------------------------------------------------
(* The deduplicator remembers a message for longer than the announcer accepts
   it (subscription.go:66, announcement.go:223), so a message that gossip
   brings again, at any moment, is acted on once while the node stays in the
   orbit. *)
AppliedOnce == "twice" \notin hist

(* No orbit message is still to be read. *)
OrbitQuiet == \A p \in Nodes \X Nodes : chan[p] = {}

(* Nothing is left to do: no call is under way, every event is handled, every
   round over, every message read, every death reported. *)
Settled ==
  /\ OrbitQuiet
  /\ \A n \in alive : /\ upd[n] = Nil /\ queue[n] = NoEvents /\ el[n] = NoRounds
                      /\ Nodes \ alive \subseteq failedOn[n]

(* Losers record the winner "so this node can detect future orphaning if the
   winner fails" (capsule_handler.go:445-446): when the survivors have dealt
   with a death, every node that has the capsule records a living host for
   every slot that was ever won and of which no round failed.  (A node that
   left the cluster refuses its requests, and then it does not.) *)
OrphanIsReplaced ==
  Settled /\ "leave" \notin done =>
    \A n \in alive, s \in won \ failed : row[n] # Nil => row[n].rep[s] \in alive

(* Losers "would stay in the Electing state forever" without SyncStatus
   (capsule_handler.go:418-420): no machine is left in Electing when the
   rounds are over.  One is when a node receives an update that was announced
   during an election and leaves the cluster before its own request for that
   election is dispatched. *)
NoStuckElecting ==
  Settled /\ ~({"update", "leave"} \subseteq done) => \A n \in alive : mach[n] # "electing"

(* "remote nodes that receive the capsule via gossip start their lifecycle at
   the already-Announced state", which makes StartElection "always valid on
   every node" (capsule/manager.go:226-231): no machine of a node that
   received the capsule is at Created when a round starts there. *)
StartElectionIsValid ==
  [][\A n \in Nodes \ Creators, s \in Slots :
       el[n][s] = "none" /\ el'[n][s] # "none" => mach[n] # "created"]_vars

(* "Withdraw from orbit so other nodes remove it" (capsule_handler.go:752):
   when all is over and no message was rejected or missed, no node has a
   deleted capsule. *)
DeletedIsForgotten ==
  Settled /\ "deleted" \in hist /\ "dropped" \notin hist =>
    \A n \in Nodes : row[n] = Nil
=============================================================================
