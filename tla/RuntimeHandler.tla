---------------------------- MODULE RuntimeHandler ----------------------------
(***************************************************************************)
(* The containers of one replica on one node: runtime/handler.go starts a  *)
(* replica that the node has won, from a snapshot or cold, watches it,     *)
(* probes it, checkpoints it, replaces it and stops it, against the calls  *)
(* of runtime/podman; snapshot/ keeps, finds and fetches the snapshots.    *)
(* Every goroutine of the handler is a thread here, and every call it      *)
(* makes into the container engine or the snapshot store is one step.      *)
(***************************************************************************)
EXTENDS Naturals, Sequences, FiniteSets

CONSTANTS Tags,            \* image digests; the snapshots are kept by them
          Peers,           \* other nodes that may hold snapshots
          Shapes,          \* how peers keep them: {"dir", "file"} or less
          CheckpointState, \* what Inspect reports of a checkpointed container
          RestartLimit,    \* FailurePolicy.RestartLimit
          Retries,         \* HealthCheck.Retries, 0 without a health check
          MaxPerCapsule,   \* the cap given to EvictOverCap
          MaxOps,          \* bound: wins, updates and stops of the replica
          MaxFaults,       \* bound: failed calls, crashes, lost probes
          Nil

ASSUME RuntimeAssumption ==
  /\ {RestartLimit, Retries, MaxPerCapsule, MaxOps, MaxFaults} \subseteq Nat
  /\ CheckpointState \in {"exited", "checkpointed"}
  /\ Shapes \subseteq {"dir", "file"}

(* The container of the replica, and the one a rolling update makes. *)
Names == {"cur", "new"}
ContainerStates == {"none", "created", "running", "exited", "failed", "checkpointed"}

VARIABLES
  cont,    \* cont[c]: the container c of the engine
  watch,   \* the watchers there have been, with their probes and stats
  running, \* running[c]: the watcher whose cancel is registered, 0 for none
  stats,   \* the watcher that registered the stats provider, 0 for none
  job,     \* the threads of startContainer and captureSnapshot, by win
  roll,    \* the thread of RollingUpdate
  stop,    \* the thread of StopContainer
  up,      \* the handler's context is not cancelled
  snap,    \* the rows of the snapshot store, oldest first
  file,    \* file[t]: what lies at the path of snapshot t
  remote,  \* remote[p][t]: how peer p keeps snapshot t, Nil if it does not
  index,   \* <<p, t>>: gossip said that p holds t
  ops,     \* wins, updates and stops so far
  faults,  \* faults so far
  report   \* history: the last outcome reported to the lifecycle

vars == <<cont, watch, running, stats, job, roll, stop, up, snap, file,
          remote, index, ops, faults, report>>

Threads == <<job, roll, stop>>
Snapshots == <<snap, file, remote, index>>
Watchers == <<watch, running, stats>>

Watcher == [c : Names, live : BOOLEAN, pc : {"poll", "restart", "report", "done"},
            left : 0 .. RestartLimit, probes : 0 .. Retries, stream : BOOLEAN]
JobSteps == {"spec", "find", "query", "fetch", "fetchAny", "restore", "use", "image", "create",
             "start", "remove", "mark", "watch", "checkpoint", "record",
             "restart", "done"}
Job == [pc : JobSteps, tag : Tags, cold : BOOLEAN, from : Peers \cup {Nil},
        tried : SUBSET Peers, out : {Nil, "running", "failed"}]
Row == [tag : Tags, inUse : BOOLEAN, old : BOOLEAN]

TypeOK ==
  /\ cont \in [Names -> ContainerStates]
  /\ watch \in Seq(Watcher)
  /\ running \in [Names -> 0 .. Len(watch)] /\ stats \in 0 .. Len(watch)
  /\ \A c \in Names : running[c] # 0 => watch[running[c]].c = c
  /\ job \in Seq(Job)
  /\ roll \in {"idle", "image", "create", "start", "remove", "wait", "undoStop",
               "undoRemove", "cancel", "stopOld", "removeOld", "mark", "watch", "done"}
  /\ stop \in {"idle", "stop", "remove", "mark", "done", "error"}
  /\ up \in BOOLEAN
  /\ snap \in Seq(Row)
  /\ \A i, j \in DOMAIN snap : snap[i].tag = snap[j].tag => i = j
  /\ file \in [Tags -> {"none", "file", "part", "dir"}]
  /\ remote \in [Peers -> [Tags -> Shapes \cup {Nil}]]
  /\ index \subseteq Peers \X Tags
  /\ ops \in 0 .. MaxOps /\ faults \in 0 .. MaxFaults
  /\ report \in {Nil, "running", "failed", "stopped"}

Init ==
  /\ cont = [c \in Names |-> "none"]
  /\ watch = <<>> /\ running = [c \in Names |-> 0] /\ stats = 0
  /\ job = <<>> /\ roll = "idle" /\ stop = "idle" /\ up = TRUE
  /\ snap = <<>> /\ file = [t \in Tags |-> "none"]
  /\ remote \in [Peers -> [Tags -> Shapes \cup {Nil}]]
  /\ index \in SUBSET {pt \in Peers \X Tags : remote[pt[1]][pt[2]] # Nil}
  /\ ops = 0 /\ faults = 0 /\ report = Nil

-----------------------------------------------------------------------------
(* A call into the engine works, or fails: because the context is cancelled
   or, within the bound, for a reason of its own. *)
Works == up /\ UNCHANGED faults
Fault == faults < MaxFaults /\ faults' = faults + 1
Fails == \/ ~up /\ UNCHANGED faults
         \/ up /\ Fault

CreateOK(c) == cont[c] = "none"     \* the name must be free
PresentOK(c) == cont[c] # "none"    \* Start, Stop and Remove want a container
Set(c, s) == cont' = [cont EXCEPT ![c] = s]

(* The outcome of the call a thread stands at: done(s) when it works and its
   precondition holds, otherwise the thread goes on at the failure step. *)
Call(pre, onDone, onFail) ==
  \/ Works /\ pre /\ onDone
  \/ Works /\ ~pre /\ onFail /\ UNCHANGED cont
  \/ Fails /\ onFail /\ UNCHANGED cont

Notify(r) == report' = r

Step(i, pc) == job' = [job EXCEPT ![i].pc = pc]
At(i, pc) == i \in DOMAIN job /\ job[i].pc = pc
Outcome(i, r) == job' = [job EXCEPT ![i].pc = "done", ![i].out = r]

(* MarkFailed, and the end of the thread of win i. *)
GiveUp(i) == Outcome(i, "failed") /\ Notify("failed")

-----------------------------------------------------------------------------
(* The snapshot store: Get, Put, SetInUse, TouchAccess, Delete. *)
Rows(t) == {i \in DOMAIN snap : snap[i].tag = t}
HasLocal(t) == Rows(t) # {}
Fresh(t) == [tag |-> t, inUse |-> FALSE, old |-> FALSE]

(* A DELETE leaves the rows at the positions K, in their order: position j
   of what is left was position f[j]. *)
InOrder(K) == {f \in [1 .. Cardinality(K) -> K] :
                 \A i, j \in DOMAIN f : i < j => f[i] < f[j]}
Left(f) == [j \in DOMAIN f |-> snap[f[j]]]

PutDuplicate(t) == snap' = Append(snap, Fresh(t))
Put(t) == \E f \in InOrder(DOMAIN snap \ Rows(t)) : snap' = Append(Left(f), Fresh(t))
UseRow(t) == snap' = [i \in DOMAIN snap |->
                        IF snap[i].tag = t THEN [Fresh(t) EXCEPT !.inUse = TRUE]
                        ELSE snap[i]]

(* EvictExpired drops the rows past their TTL that are not in use; the files
   are the caller's to delete. *)
EvictExpired ==
  /\ \E i \in DOMAIN snap : snap[i].old /\ ~snap[i].inUse
  /\ \E f \in InOrder({i \in DOMAIN snap : snap[i].inUse \/ ~snap[i].old}) :
       snap' = Left(f)
  /\ UNCHANGED <<cont, Watchers, Threads, up, file, remote, index, ops, faults, report>>

(* EvictOverCap keeps the newest rows.  The loop counts every row it keeps,
   and its inner test lets a row in use through to the delete once the cap
   is reached. *)
EvictOverCap ==
  /\ Len(snap) > MaxPerCapsule
  /\ snap' = SubSeq(snap, Len(snap) - MaxPerCapsule + 1, Len(snap))
  /\ UNCHANGED <<cont, Watchers, Threads, up, file, remote, index, ops, faults, report>>

(* Time passes: a row not touched since is past its TTL. *)
Age ==
  /\ \E i \in DOMAIN snap : ~snap[i].old
  /\ snap' = [i \in DOMAIN snap |-> [snap[i] EXCEPT !.old = TRUE]]
  /\ UNCHANGED <<cont, Watchers, Threads, up, file, remote, index, ops, faults, report>>

(* A peer drops a snapshot; the index of this node is not told. *)
PeerEvicts(p, t) ==
  /\ remote[p][t] # Nil
  /\ remote' = [remote EXCEPT ![p][t] = Nil]
  /\ UNCHANGED <<cont, Watchers, Threads, up, snap, file, index, ops, faults, report>>

(* consumeGossip: a peer that has a snapshot announced it. *)
ConsumeGossip(p, t) ==
  /\ up /\ remote[p][t] # Nil /\ <<p, t>> \notin index
  /\ index' = index \cup {<<p, t>>}
  /\ UNCHANGED <<cont, Watchers, Threads, up, snap, file, remote, ops, faults, report>>

-----------------------------------------------------------------------------
(* HandleElectionWon starts a thread for the win; the replica runs image t. *)
HandleElectionWon(t) ==
  /\ up /\ ops < MaxOps
  /\ ops' = ops + 1
  /\ job' = Append(job, [pc |-> "spec", tag |-> t, cold |-> FALSE, from |-> Nil,
                         tried |-> {}, out |-> Nil])
  /\ UNCHANGED <<cont, Watchers, roll, stop, up, Snapshots, faults, report>>

(* startContainer: the spec is looked up and the start mode chosen. *)
StartContainer(i) ==
  /\ At(i, "spec")
  /\ \/ UNCHANGED <<faults, report>>
        /\ Step(i, IF HasLocal(job[i].tag) THEN "restore" ELSE "find")
     \/ Fault /\ GiveUp(i)
  /\ UNCHANGED <<cont, Watchers, roll, stop, up, Snapshots, ops>>

(* Pull: the holders of the index are tried first, then the first peer that
   answers a query; without one the start is cold.  A fetch makes the
   directory of the snapshot before it reads the files into it. *)
PeerHas(p, t) == remote[p][t] # Nil
Candidates(i) == {p \in Peers : <<p, job[i].tag>> \in index} \ job[i].tried

OpenPull(i, p, next, else) ==
  /\ IF up /\ PeerHas(p, job[i].tag) /\ file[job[i].tag] # "file"
     THEN /\ job' = [job EXCEPT ![i].pc = next, ![i].from = p,
                                ![i].tried = @ \cup {p}]
          /\ file' = [file EXCEPT ![job[i].tag] = "part"]
     ELSE /\ job' = [job EXCEPT ![i].pc = else, ![i].tried = @ \cup {p}]
          /\ UNCHANGED file
  /\ UNCHANGED <<cont, Watchers, roll, stop, up, snap, remote, index, ops, faults, report>>

PullHolder(i) ==
  /\ At(i, "find")
  /\ \E p \in Candidates(i) : OpenPull(i, p, "fetch", "find")

HoldersTried(i) ==
  /\ At(i, "find") /\ Candidates(i) = {}
  /\ Step(i, "query")
  /\ UNCHANGED <<cont, Watchers, roll, stop, up, Snapshots, ops, faults, report>>

QueryFirstResponder(i) ==
  /\ At(i, "query")
  /\ \/ \E p \in Peers : /\ up /\ PeerHas(p, job[i].tag)
                         /\ OpenPull(i, p, "fetchAny", "image")
     \/ /\ Fails \/ (Works /\ \A p \in Peers : ~PeerHas(p, job[i].tag))
        /\ Step(i, "image")
        /\ UNCHANGED <<cont, Watchers, roll, stop, up, Snapshots, ops, report>>

(* A snapshot that is a single file travels under the name "." and cannot be
   created inside the directory. *)
Arrives(p, t) == remote[p][t] = "dir"

(* The files arrive, the checksum of what arrived is compared, the row is
   written; the files are whole unless another fetch of them is under way.
   A failed fetch removes the directory; the next holder is tried or, after
   the query, the start is cold. *)
Fetching(i) == At(i, "fetch") \/ At(i, "fetchAny")
Alone(i) == \A j \in DOMAIN job : Fetching(j) /\ job[j].tag = job[i].tag => j = i

FetchSnapshot(i) ==
  LET t == job[i].tag IN
  /\ Fetching(i)
  /\ \/ /\ Works /\ Arrives(job[i].from, t)
        /\ file' = [file EXCEPT ![t] = IF @ = "part" /\ Alone(i) THEN "dir" ELSE "part"]
        /\ Put(t)
        /\ job' = [job EXCEPT ![i].pc = "restore", ![i].from = Nil]
     \/ /\ Fails \/ (Works /\ ~Arrives(job[i].from, t))
        /\ file' = [file EXCEPT ![t] = "none"]
        /\ job' = [job EXCEPT ![i].pc = IF @ = "fetch" THEN "find" ELSE "image",
                              ![i].from = Nil]
        /\ UNCHANGED snap
  /\ UNCHANGED <<cont, Watchers, roll, stop, up, remote, index, ops, report>>

-----------------------------------------------------------------------------
(* The engine imports a snapshot that is complete. *)
Restorable(t) == file[t] \in {"file", "dir"}

(* restoreFromSnapshot: a restore that fails falls back to a cold start; one
   that works is recorded in the store (MarkInUse, TouchAccess). *)
RestoreFromSnapshot(i) ==
  /\ At(i, "restore")
  /\ Call(CreateOK("cur") /\ Restorable(job[i].tag),
          Set("cur", "running") /\ Step(i, "use"), Step(i, "image"))
  /\ UNCHANGED <<Watchers, roll, stop, up, Snapshots, ops, report>>

UseSnapshot(i) ==
  /\ At(i, "use")
  /\ UseRow(job[i].tag) /\ Step(i, "mark")
  /\ UNCHANGED <<cont, Watchers, roll, stop, up, file, remote, index, ops, faults, report>>

(* coldStart: Pull, Create, Start, each of which may fail. *)
ColdPull(i) ==
  /\ At(i, "image")
  /\ \/ Works /\ Step(i, "create") /\ UNCHANGED report
     \/ Fails /\ GiveUp(i)
  /\ UNCHANGED <<cont, Watchers, roll, stop, up, Snapshots, ops>>

ColdCreate(i) ==
  /\ At(i, "create")
  /\ Call(CreateOK("cur"), Set("cur", "created") /\ Step(i, "start") /\ UNCHANGED report,
          GiveUp(i))
  /\ UNCHANGED <<Watchers, roll, stop, up, Snapshots, ops>>

ColdStart(i) ==
  /\ At(i, "start")
  /\ Call(PresentOK("cur"),
          /\ Set("cur", "running")
          /\ job' = [job EXCEPT ![i].pc = "mark", ![i].cold = TRUE],
          Step(i, "remove"))
  /\ UNCHANGED <<Watchers, roll, stop, up, Snapshots, ops, report>>

ColdRemove(i) ==
  /\ At(i, "remove")
  /\ GiveUp(i)
  /\ \/ Works /\ Set("cur", "none")
     \/ Fails /\ UNCHANGED cont
  /\ UNCHANGED <<Watchers, roll, stop, up, Snapshots, ops>>

-----------------------------------------------------------------------------
(* onContainerRunning for container c: the outcome is reported, then a new
   watcher takes the place of a registered one, with its health checker and
   its stats provider. *)
Cancel(ws, w) == IF w = 0 THEN ws ELSE [ws EXCEPT ![w].live = FALSE]

StartWatching(c) ==
  /\ watch' = Append(Cancel(watch, running[c]),
                     [c |-> c, live |-> up, pc |-> "poll", left |-> RestartLimit,
                      probes |-> 0, stream |-> TRUE])
  /\ running' = [running EXCEPT ![c] = Len(watch) + 1]
  /\ stats' = Len(watch) + 1

OnContainerRunning(i) ==
  /\ At(i, "mark")
  /\ job' = [job EXCEPT ![i].pc = "watch", ![i].out = "running"]
  /\ Notify("running")
  /\ UNCHANGED <<cont, Watchers, roll, stop, up, Snapshots, ops, faults>>

WatchContainer(i) ==
  /\ At(i, "watch")
  /\ StartWatching("cur")
  /\ Step(i, IF job[i].cold THEN "checkpoint" ELSE "done")
  /\ UNCHANGED <<cont, roll, stop, up, Snapshots, ops, faults, report>>

(* The stats goroutine ends with its context or with its stream, and takes
   the provider of the capsule away, whoever registered it. *)
StatsEnd(w) ==
  /\ w \in DOMAIN watch /\ watch[w].stream
  /\ ~watch[w].live \/ cont[watch[w].c] # "running"
  /\ watch' = [watch EXCEPT ![w].stream = FALSE]
  /\ stats' = 0
  /\ UNCHANGED <<cont, running, Threads, up, Snapshots, ops, faults, report>>

(* A probe fails when nothing runs, or is lost; after Retries of them in a
   row the failure is reported and the watcher cancelled.  The container and
   the registered cancel stay. *)
Probe(w) ==
  /\ w \in DOMAIN watch /\ watch[w].live /\ watch[w].probes < Retries
  /\ \/ /\ cont[watch[w].c] = "running" /\ watch[w].probes > 0
        /\ watch' = [watch EXCEPT ![w].probes = 0]
        /\ UNCHANGED <<faults, report>>
     \/ /\ IF cont[watch[w].c] = "running" THEN Fault ELSE UNCHANGED faults
        /\ watch' = [watch EXCEPT ![w].probes = @ + 1,
                                  ![w].live = watch[w].probes + 1 < Retries]
        /\ IF watch[w].probes + 1 < Retries THEN UNCHANGED report ELSE Notify("failed")
  /\ UNCHANGED <<cont, running, stats, Threads, up, Snapshots, ops>>

-----------------------------------------------------------------------------
(* watchContainer.  A tick inspects the container; an error is taken for a
   transient one.  A container that has exited is restarted locally while
   the limit allows it, otherwise given up. *)
Exited(c) == cont[c] \in {"exited", "failed"}

Polling(w, pc) == w \in DOMAIN watch /\ watch[w].pc = pc
To(w, pc) == watch' = [watch EXCEPT ![w].pc = pc]

WatchPoll(w) ==
  /\ Polling(w, "poll") /\ watch[w].live
  /\ Exited(watch[w].c)
  /\ To(w, IF watch[w].left > 0 THEN "restart" ELSE "report")
  /\ UNCHANGED <<cont, running, stats, Threads, up, Snapshots, ops, faults, report>>

WatchExit(w) ==
  /\ Polling(w, "poll") /\ ~watch[w].live
  /\ To(w, "done")
  /\ UNCHANGED <<cont, running, stats, Threads, up, Snapshots, ops, faults, report>>

WatchRestart(w) ==
  /\ Polling(w, "restart")
  /\ Call(PresentOK(watch[w].c) /\ watch[w].live,
          /\ Set(watch[w].c, "running")
          /\ watch' = [watch EXCEPT ![w].pc = "poll", ![w].left = @ - 1],
          watch' = [watch EXCEPT ![w].pc = "report", ![w].left = @ - 1])
  /\ UNCHANGED <<running, stats, Threads, up, Snapshots, ops, report>>

WatchReport(w) ==
  /\ Polling(w, "report")
  /\ To(w, "done")
  /\ running' = [running EXCEPT ![watch[w].c] = 0]
  /\ Notify("failed")
  /\ UNCHANGED <<cont, stats, Threads, up, Snapshots, ops, faults>>

-----------------------------------------------------------------------------
(* captureSnapshot, after a cold start.  The engine stops the container and
   writes the archive; when the archive cannot be written the container
   stays stopped and the thread ends without a report. *)
CaptureCheckpoint(i) ==
  LET t == job[i].tag IN
  /\ At(i, "checkpoint")
  /\ \/ /\ Works /\ cont["cur"] = "running" /\ file[t] \in {"none", "file"}
        /\ Set("cur", CheckpointState)
        /\ file' = [file EXCEPT ![t] = "file"]
        /\ Step(i, "record")
     \/ /\ Fails \/ (Works /\ cont["cur"] # "running")
        /\ Step(i, "done") /\ UNCHANGED <<cont, file>>
     \/ /\ cont["cur"] = "running"
        /\ (up /\ Fault) \/ (Works /\ file[t] \in {"part", "dir"})
        /\ Set("cur", CheckpointState)
        /\ Step(i, "done") /\ UNCHANGED file
  /\ UNCHANGED <<Watchers, roll, stop, up, snap, remote, index, ops, report>>

(* RecordSnapshot; when the store returns an error the thread goes on, and
   the archive lies there without a row. *)
CaptureRecord(i) ==
  /\ At(i, "record") /\ Step(i, "restart")
  /\ \/ Put(job[i].tag) /\ UNCHANGED faults
     \/ Fault /\ UNCHANGED snap
  /\ UNCHANGED <<cont, Watchers, roll, stop, up, file, remote, index, ops, report>>

(* The restart after the checkpoint; when it fails the watcher is cancelled
   and the failure reported.  The broadcast that follows a good one only
   reaches other nodes. *)
CaptureRestartSilently(i) ==
  /\ At(i, "restart") /\ Step(i, "done")
  /\ Call(PresentOK("cur"),
          Set("cur", "running") /\ UNCHANGED <<watch, running>>,
          /\ watch' = Cancel(watch, running["cur"])
          /\ running' = [running EXCEPT !["cur"] = 0])
  /\ UNCHANGED <<stats, roll, stop, up, Snapshots, ops, report>>

CaptureRestart(i) ==
  /\ At(i, "restart") /\ Step(i, "done")
  /\ Call(PresentOK("cur"),
          Set("cur", "running") /\ UNCHANGED <<watch, running, report>>,
          /\ watch' = Cancel(watch, running["cur"])
          /\ running' = [running EXCEPT !["cur"] = 0]
          /\ Notify("failed"))
  /\ UNCHANGED <<stats, roll, stop, up, Snapshots, ops>>

-----------------------------------------------------------------------------
(* RollingUpdate starts a second container, and takes the first one away
   when the second has been seen running; the new one keeps its own name. *)
RollBegin ==
  /\ up /\ ops < MaxOps /\ roll \in {"idle", "done"}
  /\ ops' = ops + 1 /\ roll' = "image"
  /\ UNCHANGED <<cont, Watchers, job, stop, up, Snapshots, faults, report>>

RollGoes(from, to) == roll = from /\ roll' = to

RollInPlace ==
  /\ \/ /\ Works /\ RollGoes("image", "create") /\ Set("cur", "none")
     \/ /\ Fails /\ RollGoes("image", "done") /\ UNCHANGED cont
     \/ Call(CreateOK("new"), Set("new", "created") /\ RollGoes("create", "start"),
             RollGoes("create", "done"))
     \/ Call(PresentOK("new"), Set("new", "running") /\ RollGoes("start", "wait"),
             RollGoes("start", "remove"))
  /\ UNCHANGED <<Watchers, job, stop, up, Snapshots, ops, report>>

RollMake ==
  /\ \/ /\ Works /\ RollGoes("image", "create") /\ UNCHANGED cont
     \/ /\ Fails /\ RollGoes("image", "done") /\ UNCHANGED cont
     \/ Call(CreateOK("new"), Set("new", "created") /\ RollGoes("create", "start"),
             RollGoes("create", "done"))
     \/ Call(PresentOK("new"), Set("new", "running") /\ RollGoes("start", "wait"),
             RollGoes("start", "remove"))
  /\ UNCHANGED <<Watchers, job, stop, up, Snapshots, ops, report>>

(* The wait ends: the new container runs, or it is cleaned up with a context
   of its own; one that did not start was removed with the handler's. *)
RollVerdict ==
  /\ \/ /\ Works /\ cont["new"] = "running" /\ RollGoes("wait", "cancel")
     \/ /\ Fails \/ (Works /\ cont["new"] # "running")
        /\ RollGoes("wait", "undoStop")
  /\ UNCHANGED <<cont, Watchers, job, stop, up, Snapshots, ops, report>>

RollUndo ==
  /\ \/ /\ RollGoes("undoStop", "undoRemove")
        /\ \/ UNCHANGED faults /\ Set("new", IF PresentOK("new") THEN "exited" ELSE "none")
           \/ Fault /\ UNCHANGED cont
     \/ /\ RollGoes("undoRemove", "done")
        /\ \/ UNCHANGED faults /\ Set("new", "none")
           \/ Fault /\ UNCHANGED cont
     \/ /\ RollGoes("remove", "done")
        /\ \/ Works /\ Set("new", "none")
           \/ Fails /\ UNCHANGED cont
  /\ UNCHANGED <<Watchers, job, stop, up, Snapshots, ops, report>>

RollCancel ==
  /\ RollGoes("cancel", "stopOld")
  /\ watch' = Cancel(watch, running["cur"])
  /\ running' = [running EXCEPT !["cur"] = 0]
  /\ UNCHANGED <<cont, stats, job, stop, up, Snapshots, ops, faults, report>>

RollRetire ==
  /\ \/ /\ RollGoes("stopOld", "removeOld")
        /\ \/ Works /\ Set("cur", IF PresentOK("cur") THEN "exited" ELSE "none")
           \/ Fails /\ UNCHANGED cont
     \/ /\ RollGoes("removeOld", "mark")
        /\ \/ Works /\ Set("cur", "none")
           \/ Fails /\ UNCHANGED cont
  /\ UNCHANGED <<Watchers, job, stop, up, Snapshots, ops, report>>

RollRunning ==
  /\ RollGoes("mark", "watch") /\ Notify("running")
  /\ UNCHANGED <<cont, Watchers, job, stop, up, Snapshots, ops, faults>>

RollWatch ==
  /\ RollGoes("watch", "done") /\ StartWatching("new")
  /\ UNCHANGED <<cont, job, stop, up, Snapshots, ops, faults, report>>

-----------------------------------------------------------------------------
(* StopContainer cancels the watcher, then stops and removes; an error of
   Stop ends it there. *)
StopContainer ==
  /\ up /\ ops < MaxOps /\ stop \in {"idle", "done", "error"}
  /\ ops' = ops + 1 /\ stop' = "stop"
  /\ watch' = Cancel(watch, running["cur"])
  /\ running' = [running EXCEPT !["cur"] = 0]
  /\ UNCHANGED <<cont, stats, job, roll, up, Snapshots, faults, report>>

StopAndRemove ==
  /\ \/ /\ stop = "stop"
        /\ Call(PresentOK("cur"), Set("cur", "exited") /\ stop' = "remove", stop' = "error")
     \/ /\ stop = "remove" /\ stop' = "mark"
        /\ \/ Works /\ Set("cur", "none")
           \/ Fails /\ UNCHANGED cont
  /\ UNCHANGED <<Watchers, job, roll, up, Snapshots, ops, report>>

StopMark ==
  /\ stop = "mark" /\ stop' = "done" /\ Notify("stopped")
  /\ UNCHANGED <<cont, Watchers, job, roll, up, Snapshots, ops, faults>>

(* Handler.Stop cancels the context and with it every watcher. *)
HandlerStop ==
  /\ up /\ up' = FALSE
  /\ watch' = [w \in DOMAIN watch |-> [watch[w] EXCEPT !.live = FALSE]]
  /\ running' = [c \in Names |-> 0]
  /\ UNCHANGED <<cont, stats, Threads, Snapshots, ops, faults, report>>

(* A container dies. *)
Crash(c) ==
  /\ cont[c] = "running" /\ Fault
  /\ Set(c, "failed")
  /\ UNCHANGED <<Watchers, Threads, up, Snapshots, ops, report>>

-----------------------------------------------------------------------------
StartSteps(i) ==
  \/ StartContainer(i) \/ PullHolder(i) \/ HoldersTried(i) \/ QueryFirstResponder(i)
  \/ FetchSnapshot(i) \/ RestoreFromSnapshot(i) \/ UseSnapshot(i)
  \/ ColdPull(i) \/ ColdCreate(i) \/ ColdStart(i) \/ ColdRemove(i)
  \/ OnContainerRunning(i) \/ WatchContainer(i)
CaptureSteps(i) == CaptureCheckpoint(i) \/ CaptureRecord(i) \/ CaptureRestart(i)
WatchSteps(w) == \/ StatsEnd(w) \/ Probe(w) \/ WatchPoll(w) \/ WatchExit(w)
                 \/ WatchRestart(w) \/ WatchReport(w)
RollSteps == RollMake \/ RollVerdict \/ RollUndo \/ RollCancel \/ RollRetire
             \/ RollRunning \/ RollWatch
StoreSteps == \/ EvictExpired \/ EvictOverCap \/ Age
              \/ \E p \in Peers, t \in Tags : PeerEvicts(p, t) \/ ConsumeGossip(p, t)

Next ==
  \/ \E t \in Tags : HandleElectionWon(t)
  \/ \E i \in DOMAIN job : StartSteps(i) \/ CaptureSteps(i)
  \/ \E w \in DOMAIN watch : WatchSteps(w)
  \/ RollBegin \/ RollSteps
  \/ StopContainer \/ StopAndRemove \/ StopMark
  \/ HandlerStop \/ (\E c \in Names : Crash(c))
  \/ StoreSteps

Spec == Init /\ [][Next]_vars

-----------------------------------------------------------------------------
(* Nothing of the handler is under way: its threads have ended and no
   watcher and no probe has anything to act on. *)
Settled ==
  /\ \A i \in DOMAIN job : job[i].pc = "done"
  /\ roll \in {"idle", "done"} /\ stop \in {"idle", "done", "error"}
  /\ \A w \in DOMAIN watch :
       /\ \/ watch[w].pc = "done"
          \/ watch[w].pc = "poll" /\ watch[w].live /\ ~Exited(watch[w].c)
       /\ watch[w].live /\ watch[w].probes < Retries => cont[watch[w].c] = "running"

Serving == \E c \in Names : cont[c] = "running"

(* A replica that was won and has no running container has been reported as
   failed, or some thread still acts on it: a start that fails at any step, a
   crash, a restart that fails, a checkpoint that leaves it stopped.  Two
   things the code lets pass: StopContainer cancels the watcher before the
   call that may fail; and without a health check a watcher goes on polling a
   container that is gone, was made anew and not started, or is reported as
   checkpointed, for it acts on an exit only. *)
DeathIsReported ==
  Settled /\ up /\ stop = "idle" /\ job # <<>>
  => \/ Serving \/ report = "failed"
     \/ /\ Retries = 0
        /\ \E w \in DOMAIN watch : /\ watch[w].pc = "poll"
                                   /\ cont[watch[w].c] \in {"none", "created", "checkpointed"}

(* RollingUpdate is "zero-downtime": when no call fails and nothing crashes,
   a replica that was started by its only win, and whose first checkpoint is
   over, has a running container at every moment. *)
ZeroDowntime ==
  /\ up /\ faults = 0 /\ stop = "idle" /\ Len(job) = 1
  /\ job[1].pc = "done" /\ job[1].out = "running"
  => Serving

(* watchContainer acts when "the container exits unexpectedly"; the stop that
   belongs to a checkpoint is none, so with a single win and no fault no
   failure is reported. *)
CheckpointIsNoCrash == up /\ faults = 0 /\ ops = 1 => report # "failed"
=============================================================================
