--------------------------- MODULE CapsuleManager ---------------------------
(***************************************************************************)
(* One node's capsule.Manager over capsule.Store (capsule/manager.go,      *)
(* capsule/store.go).  Manager methods run on several goroutines: API      *)
(* calls, the orbit reader, the event subscribers and the runtime.  Each   *)
(* takes the store's lock, the manager's lock and the lifecycle map's lock *)
(* separately, so a method is a sequence of atomic steps and the steps of  *)
(* different threads interleave.                                           *)
(*                                                                         *)
(* Store.Get hands out the cached pointer: methods mutate the shared       *)
(* object in place and persist it with Store.Update afterwards.  Pointers  *)
(* are modelled by cells of a heap; Receive brings an object of its own.   *)
(***************************************************************************)
EXTENDS Lifecycle

CONSTANTS Capsules,   \* capsule IDs
          Threads,    \* goroutines that call the manager
          Objs,       \* heap cells for *Capsule objects
          Slots,      \* replica IDs
          Nodes,      \* node IDs a replica may be assigned to
          Specs,      \* capsule specs told apart
          MeshRows,   \* capsules that arrive by gossip
          Mirrored,   \* statuses that SyncStatus is called with
          DbMayFail,  \* TRUE: a SQLite write may return an error
          Nil

(* A capsule that arrives by gossip is stored with the status it came with,
   also one that is not Valid(). *)
Stored == Statuses \cup {"unknown"}

ASSUME ManagerAssumption ==
  /\ DbMayFail \in BOOLEAN
  /\ Nil \notin Capsules \cup Objs \cup Nodes \cup Statuses \cup {"unknown"}
  /\ Capsules # {} /\ Specs # {}

(* The fields of Capsule that the manager reads or writes.  Nil as the host
   of a slot means that Replicas has no entry for it. *)
Rows == [id : Capsules, status : Stored, spec : Specs,
         replicas : [Slots -> Nodes \cup {Nil}]]

ASSUME MeshAssumption ==
  MeshRows \subseteq Rows /\ Mirrored \subseteq Statuses /\ Nil \notin Rows

VARIABLES
  heap,    \* contents of the *Capsule objects
  cache,   \* Store.capsules: capsule ID -> object, Nil when absent
  db,      \* the capsules table: capsule ID -> row, Nil when absent
  mach,    \* Manager.lifecycles: the state of the machine, Nil when absent
  thr,     \* what each thread is doing
  born,    \* IDs that exist in the mesh: NewCapsuleID never returns them again
  failed   \* capsules whose last row update returned an error

vars == <<heap, cache, db, mach, thr, born, failed>>

(* A thread's position: the step it takes next, the capsule and the object
   its method works on, the status it is about to write or install, and
   whether the machine whose handler it runs is still the installed one. *)
Pos(pc, c, o, s, cur) ==
  [pc |-> pc, cap |-> c, obj |-> o, st |-> s, cur |-> cur]

Idle == Pos("idle", Nil, Nil, Nil, FALSE)

PutPcs == {"put", "sync_put"}
Pcs == {"idle", "mutate", "recv_put", "recv_create", "install",
        "create_install", "create_announce", "delete_drop"} \cup PutPcs

Blank == CHOOSE r \in Rows : TRUE

TypeOK ==
  /\ heap \in [Objs -> Rows]
  /\ cache \in [Capsules -> Objs \cup {Nil}]
  /\ db \in [Capsules -> Rows \cup {Nil}]
  /\ mach \in [Capsules -> Stored \cup {Nil}]
  /\ thr \in [Threads -> [pc : Pcs, cap : Capsules \cup {Nil},
                          obj : Objs \cup {Nil}, st : Statuses \cup {Nil},
                          cur : BOOLEAN]]
  /\ born \subseteq Capsules
  /\ failed \subseteq Capsules

Init ==
  /\ heap = [o \in Objs |-> Blank]
  /\ cache = [c \in Capsules |-> Nil]
  /\ db = [c \in Capsules |-> Nil]
  /\ mach = [c \in Capsules |-> Nil]
  /\ thr = [t \in Threads |-> Idle]
  /\ born = {}
  /\ failed = {}

-----------------------------------------------------------------------------
(* Objects something points to; the garbage collector frees the others. *)
Live(ca, th) == {o \in Objs : \/ \E c \in Capsules : ca[c] = o
                              \/ \E t \in Threads : th[t].obj = o}

(* heap' once the step has fixed cache' and thr': h on the live cells. *)
Collect(h, ca, th) == [o \in Objs |-> IF o \in Live(ca, th) THEN h[o] ELSE Blank]

(* An object with one field assigned. *)
WithStatus(row, s) == [id |-> row.id, status |-> s, spec |-> row.spec,
                       replicas |-> row.replicas]
WithSpec(row, sp) == [id |-> row.id, status |-> row.status, spec |-> sp,
                      replicas |-> row.replicas]
WithReplica(row, s, n) == [id |-> row.id, status |-> row.status,
                           spec |-> row.spec,
                           replicas |-> [row.replicas EXCEPT ![s] = n]]

DbOutcomes == IF DbMayFail THEN BOOLEAN ELSE {TRUE}

At(t, pc) == thr[t].pc = pc

Goto(t, rec) == thr' = [thr EXCEPT ![t] = rec]

(* Replacing or dropping the machine of c orphans a handler that the old
   machine still runs in some other thread. *)
Orphan(th, c) == [u \in Threads |-> IF th[u].cap = c
                                    THEN Pos(th[u].pc, c, th[u].obj, th[u].st, FALSE)
                                    ELSE th[u]]

-----------------------------------------------------------------------------
(* Store.Update as a bug might have it: without the existence check. *)
StoreUpdateUnchecked(t, o, next) ==
  LET c == thr[t].cap IN
  /\ db' = [db EXCEPT ![c] = heap[o]]
  /\ cache' = [cache EXCEPT ![c] = o]
  /\ failed' = failed \ {c}
  /\ Goto(t, next)

(* Store.Update that forgets to write the cached pointer's row. *)
StoreUpdateCacheOnly(t, o, next) ==
  LET c == thr[t].cap IN
  /\ cache[c] # Nil
  /\ cache' = [cache EXCEPT ![c] = o]
  /\ failed' = failed \ {c}
  /\ Goto(t, next)
  /\ UNCHANGED db

(* Store.Update(heap[o]) by thread t, then control at next.  The row must
   still be cached; the database is written first and the cache after it. *)
StoreUpdate(t, o, next) ==
  LET c == thr[t].cap IN
  \/ /\ cache[c] = Nil                       \* "not found"
     /\ Goto(t, Idle)
     /\ UNCHANGED <<cache, db, failed>>
  \/ /\ cache[c] # Nil
     /\ \E ok \in DbOutcomes :
          \/ /\ ok
             /\ db' = [db EXCEPT ![c] = heap[o]]
             /\ cache' = [cache EXCEPT ![c] = o]
             /\ failed' = failed \ {c}
             /\ Goto(t, next)
          \/ /\ ~ok
             /\ failed' = failed \cup {c}
             /\ Goto(t, Idle)
             /\ UNCHANGED <<cache, db>>

(* The Put step of Fire, Update and AssignReplica. *)
Put(t) ==
  /\ At(t, "put")
  /\ StoreUpdate(t, thr[t].obj, Idle)
  /\ heap' = Collect(heap, cache', thr')
  /\ UNCHANGED <<mach, born>>

-----------------------------------------------------------------------------
(* Create: a fresh ID, Store.Create, then the machine, then Announce. *)
CreateStore(t, c, sp) ==
  /\ At(t, "idle")
  /\ c \notin born
  /\ born' = born \cup {c}
  /\ \E o \in Objs \ Live(cache, thr) :
       LET row == [id |-> c, status |-> "created", spec |-> sp,
                   replicas |-> [s \in Slots |-> Nil]] IN
       \E ok \in DbOutcomes :
         \/ /\ ok
            /\ db' = [db EXCEPT ![c] = row]
            /\ cache' = [cache EXCEPT ![c] = o]
            /\ failed' = failed \ {c}
            /\ Goto(t, Pos("create_install", c, Nil, Nil, FALSE))
            /\ heap' = Collect([heap EXCEPT ![o] = row], cache', thr')
         \/ /\ ~ok
            /\ UNCHANGED <<db, cache, failed, thr, heap>>
  /\ UNCHANGED mach

(* Create that builds the machine from a status nobody has set. *)
CreateInstallUnset(t) ==
  /\ At(t, "create_install")
  /\ mach' = [mach EXCEPT ![thr[t].cap] = ""]
  /\ thr' = [Orphan(thr, thr[t].cap) EXCEPT
              ![t] = Pos("create_announce", thr[t].cap, Nil, Nil, FALSE)]
  /\ UNCHANGED <<heap, cache, db, born, failed>>

CreateInstall(t) ==
  /\ At(t, "create_install")
  /\ mach' = [mach EXCEPT ![thr[t].cap] = "created"]
  /\ thr' = [Orphan(thr, thr[t].cap) EXCEPT
              ![t] = Pos("create_announce", thr[t].cap, Nil, Nil, FALSE)]
  /\ UNCHANGED <<heap, cache, db, born, failed>>

-----------------------------------------------------------------------------
(* The machine of c is running a transition handler: with queued firing a
   second Fire on the same machine takes effect when the first is done. *)
Firing(c) == \E u \in Threads : thr[u].cap = c /\ thr[u].cur

(* The machine fires while another thread is in its handler: no queue. *)
MachineFireUnqueued(t, c, trigger) ==
  /\ mach[c] # Nil
  /\ \E s \in Statuses :
       /\ Permit(mach[c], trigger, s)
       /\ mach' = [mach EXCEPT ![c] = s]
       /\ Goto(t, Pos("mutate", c, Nil, s, TRUE))
  /\ UNCHANGED <<heap, cache, db, born, failed>>

(* lc.Fire(trigger) on the installed machine: its state moves, and the
   thread goes on in onLifecycleTransition with the new status. *)
MachineFire(t, c, trigger) ==
  /\ ~Firing(c)
  /\ mach[c] # Nil
  /\ \E s \in Statuses :
       /\ Permit(mach[c], trigger, s)
       /\ mach' = [mach EXCEPT ![c] = s]
       /\ Goto(t, Pos("mutate", c, Nil, s, TRUE))
  /\ UNCHANGED <<heap, cache, db, born, failed>>

(* Fire and its wrappers (Announce, StartElection, ... ScaleDown). *)
Fire(t, c, trigger) == At(t, "idle") /\ MachineFire(t, c, trigger)

(* The Announce at the end of Create; a refusal is only logged. *)
CreateAnnounce(t) ==
  /\ At(t, "create_announce")
  /\ LET c == thr[t].cap IN
     \/ MachineFire(t, c, "announce")
     \/ /\ ~Firing(c)
        /\ mach[c] = Nil \/ ~\E s \in Statuses : Permit(mach[c], "announce", s)
        /\ Goto(t, Idle)
        /\ UNCHANGED <<heap, cache, db, mach, born, failed>>

(* onLifecycleTransition: fetch the object and write its status. *)
TransitionMutate(t) ==
  /\ At(t, "mutate")
  /\ LET o == cache[thr[t].cap] IN
     \/ /\ o = Nil
        /\ Goto(t, Idle)
        /\ heap' = Collect(heap, cache, thr')
     \/ /\ o # Nil
        /\ Goto(t, Pos("put", thr[t].cap, o, thr[t].st, thr[t].cur))
        /\ heap' = Collect([heap EXCEPT ![o] = WithStatus(@, thr[t].st)], cache, thr')
  /\ UNCHANGED <<cache, db, mach, born, failed>>

-----------------------------------------------------------------------------
(* Update: the new spec is written into the shared object. *)
Update(t, c, sp) ==
  /\ At(t, "idle")
  /\ cache[c] # Nil
  /\ Goto(t, Pos("put", c, cache[c], Nil, FALSE))
  /\ heap' = Collect([heap EXCEPT ![cache[c]] = WithSpec(@, sp)], cache, thr')
  /\ UNCHANGED <<cache, db, mach, born, failed>>

(* AssignReplica: set or append the slot's entry. *)
AssignReplica(t, c, s, n) ==
  /\ At(t, "idle")
  /\ cache[c] # Nil
  /\ Goto(t, Pos("put", c, cache[c], Nil, FALSE))
  /\ heap' = Collect([heap EXCEPT ![cache[c]] = WithReplica(@, s, n)], cache, thr')
  /\ UNCHANGED <<cache, db, mach, born, failed>>

(* SyncStatus: the status is written without asking the machine, persisted,
   and a new machine is installed at it. *)
SyncStatus(t, c, s) ==
  /\ At(t, "idle")
  /\ cache[c] # Nil
  /\ Goto(t, Pos("sync_put", c, cache[c], s, FALSE))
  /\ heap' = Collect([heap EXCEPT ![cache[c]] = WithStatus(@, s)], cache, thr')
  /\ UNCHANGED <<cache, db, mach, born, failed>>

SyncPut(t) ==
  /\ At(t, "sync_put")
  /\ StoreUpdate(t, thr[t].obj,
                 Pos("install", thr[t].cap, Nil, thr[t].st, FALSE))
  /\ heap' = Collect(heap, cache', thr')
  /\ UNCHANGED <<mach, born>>

(* m.lifecycles[id] = m.newLifecycle(id, st), the end of SyncStatus and of
   the new-capsule branch of Receive. *)
Install(t) ==
  /\ At(t, "install")
  /\ mach' = [mach EXCEPT ![thr[t].cap] = thr[t].st]
  /\ thr' = [Orphan(thr, thr[t].cap) EXCEPT ![t] = Idle]
  /\ UNCHANGED <<heap, cache, db, born, failed>>

-----------------------------------------------------------------------------
(* Receive: the decoded capsule is an object of its own.  The existing-capsule
   branch only replaces the stored object; the other one creates the row and
   installs a machine, at Announced when the status is not Valid(). *)
Receive(t, row) ==
  /\ At(t, "idle")
  /\ born' = born \cup {row.id}
  /\ \E o \in Objs \ Live(cache, thr) :
       /\ Goto(t, Pos(IF cache[row.id] # Nil THEN "recv_put" ELSE "recv_create",
                      row.id, o,
                      IF row.status \in Statuses THEN row.status ELSE "announced",
                      FALSE))
       /\ heap' = Collect([heap EXCEPT ![o] = row], cache, thr')
  /\ UNCHANGED <<cache, db, mach, failed>>

ReceivePut(t) ==
  /\ At(t, "recv_put")
  /\ StoreUpdate(t, thr[t].obj, Idle)
  /\ heap' = Collect(heap, cache', thr')
  /\ UNCHANGED <<mach, born>>

ReceiveCreate(t) ==
  /\ At(t, "recv_create")
  /\ LET c == thr[t].cap IN
     \/ /\ cache[c] # Nil                    \* "already exists"
        /\ Goto(t, Idle)
        /\ UNCHANGED <<cache, db, failed>>
     \/ /\ cache[c] = Nil
        /\ \E ok \in DbOutcomes :
             \/ /\ ok
                /\ db' = [db EXCEPT ![c] = heap[thr[t].obj]]
                /\ cache' = [cache EXCEPT ![c] = thr[t].obj]
                /\ failed' = failed \ {c}
                /\ Goto(t, Pos("install", c, Nil, thr[t].st, FALSE))
             \/ /\ ~ok
                /\ Goto(t, Idle)
                /\ UNCHANGED <<cache, db, failed>>
  /\ heap' = Collect(heap, cache', thr')
  /\ UNCHANGED <<mach, born>>

-----------------------------------------------------------------------------
(* Delete: the row and the cached object go first, the machine after them. *)
Delete(t, c) ==
  /\ At(t, "idle")
  /\ cache[c] # Nil
  /\ db' = [db EXCEPT ![c] = Nil]           \* a failed DELETE changes nothing
  /\ cache' = [cache EXCEPT ![c] = Nil]
  /\ failed' = failed \ {c}
  /\ Goto(t, Pos("delete_drop", c, Nil, Nil, FALSE))
  /\ heap' = Collect(heap, cache', thr')
  /\ UNCHANGED <<mach, born>>

DeleteDrop(t) ==
  /\ At(t, "delete_drop")
  /\ mach' = [mach EXCEPT ![thr[t].cap] = Nil]
  /\ thr' = [Orphan(thr, thr[t].cap) EXCEPT ![t] = Idle]
  /\ UNCHANGED <<heap, cache, db, born, failed>>

-----------------------------------------------------------------------------
(* The process dies and is started again: OpenStore loads every row and
   NewManager builds a machine at the persisted status of each. *)
Restart ==
  /\ \E place \in [Capsules -> Objs] :
       /\ \A c, d \in Capsules : place[c] = place[d] => c = d
       /\ cache' = [c \in Capsules |-> IF db[c] = Nil THEN Nil ELSE place[c]]
       /\ heap' = [o \in Objs |->
                     IF \E c \in Capsules : cache'[c] = o
                     THEN db[CHOOSE c \in Capsules : cache'[c] = o] ELSE Blank]
  /\ mach' = [c \in Capsules |-> IF db[c] = Nil THEN Nil ELSE db[c].status]
  /\ thr' = [t \in Threads |-> Idle]
  /\ failed' = {}
  /\ UNCHANGED <<db, born>>

Step(t) ==
  \/ \E c \in Capsules, sp \in Specs : CreateStore(t, c, sp) \/ Update(t, c, sp)
  \/ \E c \in Capsules, trigger \in Triggers : Fire(t, c, trigger)
  \/ \E c \in Capsules, s \in Slots, n \in Nodes : AssignReplica(t, c, s, n)
  \/ \E c \in Capsules, s \in Mirrored : SyncStatus(t, c, s)
  \/ \E row \in MeshRows : Receive(t, row)
  \/ \E c \in Capsules : Delete(t, c)
  \/ CreateInstall(t) \/ CreateAnnounce(t) \/ TransitionMutate(t) \/ Put(t)
  \/ SyncPut(t) \/ Install(t) \/ ReceivePut(t) \/ ReceiveCreate(t)
  \/ DeleteDrop(t)

Next == (\E t \in Threads : Step(t)) \/ Restart

Spec == Init /\ [][Next]_vars

-----------------------------------------------------------------------------
(* A thread has changed the object of c and not yet persisted it. *)
Writing(c) == \E t \in Threads : thr[t].cap = c /\ thr[t].pc \in PutPcs

(* No method is working on c. *)
Quiet(c) == \A t \in Threads : thr[t].cap # c

(* Store writes SQLite first and the cache after it (store.go:186-191), and
   methods mutate the cached object before they persist it.  Whatever the
   threads do, memory and disk hold the same capsules, and the same contents
   for every capsule that no thread is about to persist and whose last write
   did not fail: a crash loses no completed operation. *)
Durable ==
  \A c \in Capsules :
    /\ cache[c] = Nil <=> db[c] = Nil
    /\ cache[c] # Nil /\ c \notin failed /\ ~Writing(c) => db[c] = heap[cache[c]]

(* Store.Update refuses a capsule that is not cached (store.go:179): a method
   that fetched its object before a Delete cannot bring the capsule back.
   A row appears only for a new ID or through the new-capsule branch of
   Receive. *)
NoResurrection ==
  [][\A c \in Capsules :
       db[c] = Nil /\ db'[c] # Nil =>
         \/ c \notin born
         \/ \E t \in Threads : thr[t].cap = c /\ thr[t].pc = "recv_create"]_vars

(* "lifecycles holds one state machine per capsule" (manager.go:53): when no
   method is working on a capsule it has a machine exactly if it is stored. *)
OneMachinePerCapsule ==
  \A c \in Capsules : Quiet(c) => (mach[c] = Nil <=> cache[c] = Nil)

(* The machine "drives status updates" (manager.go:54): when no method is
   working on a capsule its stored status is the state of its machine. *)
StatusIsMachineState ==
  \A c \in Capsules :
    Quiet(c) /\ cache[c] # Nil /\ mach[c] # Nil =>
      heap[cache[c]].status = mach[c]
=============================================================================
