------------------------ MODULE CapsuleManagerProofs ------------------------
(***************************************************************************)
(* CapsuleManager keeps memory and disk in agreement for every number of   *)
(* capsules, threads and objects.  The inductive invariant adds to Durable *)
(* what ties an object to its capsule: cached and held objects carry the   *)
(* ID they are cached or held for, so that a thread that changes an object *)
(* disturbs no other capsule, and it names the thread that still has to    *)
(* persist a changed object.  For nodes whose capsules no gossip touches a *)
(* second invariant, Machines, ties the stored status to the machine.      *)
(***************************************************************************)
EXTENDS CapsuleManager, TLAPS

(* Where each step of a method stands: what it holds. *)
Positions ==
  \A t \in Threads :
    /\ thr[t].pc # "idle" => thr[t].cap \in Capsules
    /\ thr[t].pc \in PutPcs \cup {"recv_put", "recv_create"} => thr[t].obj \in Objs
    /\ thr[t].pc \in {"mutate", "sync_put", "install", "recv_create"} =>
         thr[t].st \in Statuses

(* An object is cached and held, and a row is kept, only for the capsule whose
   ID it carries. *)
Owned ==
  /\ \A c \in Capsules : cache[c] \in Objs => heap[cache[c]].id = c
  /\ \A t \in Threads : thr[t].obj \in Objs => heap[thr[t].obj].id = thr[t].cap
  /\ \A c \in Capsules : db[c] \in Rows => db[c].id = c

(* Memory and disk agree, or a failed write or a pending one explains it. *)
Agree ==
  \A c \in Capsules :
    /\ cache[c] = Nil <=> db[c] = Nil
    /\ cache[c] \in Objs =>
         \/ c \in failed
         \/ db[c] = heap[cache[c]]
         \/ \E t \in Threads : thr[t].obj = cache[c] /\ thr[t].pc \in PutPcs

Inv == TypeOK /\ Positions /\ Owned /\ Agree

-----------------------------------------------------------------------------
(* A cell that stands for a row keeps its type. *)
LEMMA BlankIsRow == Blank \in Rows
<1>1. PICK c \in Capsules, sp \in Specs : TRUE  BY ManagerAssumption
<1>2. [id |-> c, status |-> "created", spec |-> sp,
       replicas |-> [s \in Slots |-> Nil]] \in Rows
  BY <1>1 DEF Rows, Stored, Statuses
<1> QED  BY <1>2 DEF Blank

(* Collect keeps the cells that the cache and the threads refer to. *)
LEMMA CollectKeeps ==
  ASSUME NEW h \in [Objs -> Rows], NEW ca, NEW th
  PROVE  /\ Collect(h, ca, th) \in [Objs -> Rows]
         /\ \A c \in Capsules : ca[c] \in Objs =>
              Collect(h, ca, th)[ca[c]] = h[ca[c]]
         /\ \A t \in Threads : th[t].obj \in Objs =>
              Collect(h, ca, th)[th[t].obj] = h[th[t].obj]
  BY BlankIsRow DEF Collect, Live

(* The initial state has no capsule and no activity. *)
LEMMA InitInv == Init => Inv
  BY BlankIsRow, ManagerAssumption, MeshAssumption
     DEF Init, Inv, TypeOK, Positions, Owned, Agree, Idle, Pos, Pcs, PutPcs

Position == [pc : Pcs, cap : Capsules \cup {Nil}, obj : Objs \cup {Nil},
             st : Statuses \cup {Nil}, cur : BOOLEAN]

(* A method changes the cached object in place and goes on to persist it. *)
LEMMA MutateInv ==
  ASSUME Inv, NEW t \in Threads, NEW c \in Capsules, cache[c] # Nil,
         thr[t].pc \notin PutPcs,
         NEW r \in Rows, r.id = c, NEW p \in Position,
         p.pc \in PutPcs, p.cap = c, p.obj = cache[c],
         p.pc = "sync_put" => p.st \in Statuses,
         thr' = [thr EXCEPT ![t] = p],
         heap' = Collect([heap EXCEPT ![cache[c]] = r], cache, thr'),
         UNCHANGED <<cache, db, mach, born, failed>>
  PROVE  Inv'
<1> USE ManagerAssumption
<1> DEFINE o == cache[c]
           h == [heap EXCEPT ![o] = r]
<1>1. o \in Objs /\ h \in [Objs -> Rows] /\ thr \in [Threads -> Position]
  BY DEF Inv, TypeOK, Position
<1>2. /\ heap' \in [Objs -> Rows]
      /\ \A d \in Capsules : cache[d] \in Objs => heap'[cache[d]] = h[cache[d]]
      /\ \A u \in Threads : thr'[u].obj \in Objs => heap'[thr'[u].obj] = h[thr'[u].obj]
  <2>1. heap' = Collect(h, cache, thr')  OBVIOUS
  <2> HIDE DEF h
  <2> QED  BY <1>1, <2>1, BlankIsRow DEF Collect, Live
<1>3. TypeOK'
  BY <1>1, <1>2 DEF Inv, TypeOK, Position
<1>4. Positions'
  BY <1>1 DEF Inv, Positions, Position, PutPcs
<1>5. Owned'
  <2>1. ASSUME NEW d \in Capsules, cache[d] \in Objs PROVE heap'[cache[d]].id = d
    <3>1. heap'[cache[d]] = h[cache[d]] /\ heap[cache[d]].id = d
      BY <2>1, <1>2 DEF Inv, Owned
    <3>2. CASE cache[d] = o
      BY <3>1, <3>2, <1>1 DEF Inv, TypeOK, Owned
    <3>3. CASE cache[d] # o
      BY <3>1, <3>3, <2>1, <1>1 DEF Inv, TypeOK
    <3> QED  BY <3>2, <3>3
  <2>2. ASSUME NEW u \in Threads, thr'[u].obj \in Objs
        PROVE  heap'[thr'[u].obj].id = thr'[u].cap
    <3>1. CASE u = t
      BY <3>1, <2>1, <1>1, <1>2
    <3>2. CASE u # t
      <4>1. thr'[u] = thr[u] /\ heap[thr[u].obj].id = thr[u].cap
        BY <3>2, <2>2, <1>1 DEF Inv, Owned
      <4>2. thr[u].obj = o => thr[u].cap = c
        BY <4>1, <1>1 DEF Inv, Owned
      <4> QED  BY <4>1, <4>2, <2>2, <1>1, <1>2 DEF Inv, TypeOK
    <3> QED  BY <3>1, <3>2
  <2>3. cache' = cache /\ \A d \in Capsules : db'[d] \in Rows => db'[d].id = d
    BY DEF Inv, Owned
  <2> QED  BY <2>1, <2>2, <2>3 DEF Owned
<1>6. Agree'
  <2> SUFFICES ASSUME NEW d \in Capsules
               PROVE  /\ cache'[d] = Nil <=> db'[d] = Nil
                      /\ cache'[d] \in Objs =>
                           \/ d \in failed'
                           \/ db'[d] = heap'[cache'[d]]
                           \/ \E u \in Threads : /\ thr'[u].obj = cache'[d]
                                                 /\ thr'[u].pc \in PutPcs
    BY DEF Agree
  <2>0. cache' = cache /\ db' = db /\ failed' = failed  OBVIOUS
  <2>1. CASE d = c
    BY <2>0, <2>1, <1>1 DEF Inv, Agree
  <2>2. CASE d # c
    <3>1. cache[d] \in Objs => cache[d] # o
      BY <2>2, <1>1 DEF Inv, Owned
    <3>2. cache[d] \in Objs => heap'[cache[d]] = heap[cache[d]]
      BY <3>1, <1>1, <1>2 DEF Inv, TypeOK
    <3>3. \A u \in Threads : thr[u].pc \in PutPcs => thr'[u] = thr[u]
      BY <1>1
    <3> QED  BY <2>0, <3>2, <3>3 DEF Inv, Agree
  <2> QED  BY <2>1, <2>2
<1> QED  BY <1>3, <1>4, <1>5, <1>6 DEF Inv

(* Store.Update ends a method, or takes SyncStatus to its last step. *)
LEMMA StoreUpdateInv ==
  ASSUME Inv, NEW t \in Threads, thr[t].pc \in PutPcs \cup {"recv_put"},
         NEW p \in Position, p.obj = Nil, p.pc \in {"idle", "install"},
         p.pc = "install" => p.cap \in Capsules /\ p.st \in Statuses,
         StoreUpdate(t, thr[t].obj, p),
         heap' = Collect(heap, cache', thr'), UNCHANGED <<mach, born>>
  PROVE  Inv'
<1> USE ManagerAssumption
<1> DEFINE c == thr[t].cap
           o == thr[t].obj
<1>1. /\ c \in Capsules /\ o \in Objs /\ heap[o].id = c
      /\ heap \in [Objs -> Rows] /\ thr \in [Threads -> Position]
      /\ Idle \in Position /\ Idle.obj = Nil /\ Idle.pc = "idle"
  BY DEF Inv, TypeOK, Positions, Owned, PutPcs, Position, Idle, Pos, Pcs
<1>2. PICK q \in {p, Idle} : thr' = [thr EXCEPT ![t] = q]
  BY DEF StoreUpdate, Goto
<1>a. \/ /\ cache' = cache /\ db' = db
         /\ \/ cache[c] = Nil /\ failed' = failed
            \/ failed' = failed \cup {c}
      \/ /\ db' = [db EXCEPT ![c] = heap[o]]
         /\ cache' = [cache EXCEPT ![c] = o]
         /\ failed' = failed \ {c}
  BY DEF StoreUpdate
<1>3. cache' \in [Capsules -> Objs \cup {Nil}] /\ db' \in [Capsules -> Rows \cup {Nil}]
      /\ failed' \subseteq Capsules
  BY <1>1, <1>a DEF Inv, TypeOK
<1>4. /\ heap' \in [Objs -> Rows]
      /\ \A d \in Capsules : cache'[d] \in Objs => heap'[cache'[d]] = heap[cache'[d]]
      /\ \A u \in Threads : thr'[u].obj \in Objs => heap'[thr'[u].obj] = heap[thr'[u].obj]
  BY <1>1, CollectKeeps
<1>5. TypeOK'
  BY <1>1, <1>2, <1>3, <1>4 DEF Inv, TypeOK, Position
<1>6. Positions'
  BY <1>1, <1>2 DEF Inv, Positions, Position, PutPcs
<1>7. Owned'
  <2>1. \A d \in Capsules : cache'[d] \in Objs => heap[cache'[d]].id = d
    BY <1>1, <1>a DEF Inv, TypeOK, Owned
  <2>2. \A u \in Threads : thr'[u].obj \in Objs => thr'[u] = thr[u]
    BY <1>1, <1>2
  <2>3. \A d \in Capsules : db'[d] \in Rows => db'[d].id = d
    BY <1>1, <1>a DEF Inv, TypeOK, Owned
  <2>4. \A u \in Threads : thr'[u].obj \in Objs => heap[thr'[u].obj].id = thr'[u].cap
    BY <2>2 DEF Inv, Owned
  <2> QED  BY <2>1, <2>3, <2>4, <1>4 DEF Owned
<1>8. Agree'
  <2>1. \A u \in Threads : u # t => thr'[u] = thr[u]
    BY <1>1, <1>2
  <2>2. CASE cache' = cache /\ db' = db /\ (c \in failed' \/ cache[c] = Nil)
             /\ \A d \in Capsules : d # c => (d \in failed' <=> d \in failed)
    <3> SUFFICES ASSUME NEW d \in Capsules, cache[d] \in Objs, d \notin failed'
                 PROVE  \/ db[d] = heap[cache[d]]
                        \/ \E u \in Threads : thr'[u].obj = cache[d] /\ thr'[u].pc \in PutPcs
      BY <2>2, <1>4 DEF Agree, Inv
    <3>1. d # c  BY <2>2
    <3>2. d \notin failed  BY <2>2, <3>1
    <3>3. \A u \in Threads : thr[u].obj = cache[d] => u # t
      BY <3>1, <1>1 DEF Inv, Owned
    <3> QED  BY <3>2, <3>3, <2>1 DEF Inv, Agree
  <2>3. CASE /\ db' = [db EXCEPT ![c] = heap[o]]
             /\ cache' = [cache EXCEPT ![c] = o]
             /\ failed' = failed \ {c}
    <3> SUFFICES ASSUME NEW d \in Capsules
                 PROVE  /\ cache'[d] = Nil <=> db'[d] = Nil
                        /\ cache'[d] \in Objs =>
                             \/ d \in failed'
                             \/ db'[d] = heap[cache'[d]]
                             \/ \E u \in Threads : thr'[u].obj = cache'[d] /\ thr'[u].pc \in PutPcs
      BY <1>4 DEF Agree
    <3>1. CASE d = c
      BY <3>1, <2>3, <1>1, MeshAssumption DEF Inv, TypeOK
    <3>2. CASE d # c
      <4>1. cache'[d] = cache[d] /\ db'[d] = db[d] /\ (d \in failed' <=> d \in failed)
        BY <3>2, <2>3 DEF Inv, TypeOK
      <4>2. \A u \in Threads : cache[d] \in Objs /\ thr[u].obj = cache[d] => u # t
        BY <3>2, <1>1 DEF Inv, Owned
      <4> QED  BY <4>1, <4>2, <2>1 DEF Inv, Agree
    <3> QED  BY <3>1, <3>2
  <2> QED  BY <2>2, <2>3, <1>1, <1>a DEF Inv, TypeOK
<1> QED  BY <1>5, <1>6, <1>7, <1>8 DEF Inv

(* Steps that leave the objects and the store alone: they move the machine
   and the thread's own position, and may orphan other threads' handlers. *)
LEMMA FrameInv ==
  ASSUME Inv, NEW t \in Threads, thr[t].pc \notin PutPcs, NEW p \in Position,
         p.obj = Nil, p.pc \in {"idle", "mutate", "create_announce"},
         p.pc # "idle" => p.cap \in Capsules,
         p.pc = "mutate" => p.st \in Statuses,
         thr' \in [Threads -> Position], thr'[t] = p,
         \A u \in Threads \ {t} :
           /\ thr'[u].pc = thr[u].pc /\ thr'[u].cap = thr[u].cap
           /\ thr'[u].obj = thr[u].obj /\ thr'[u].st = thr[u].st,
         mach' \in [Capsules -> Stored \cup {Nil}],
         UNCHANGED <<heap, cache, db, born, failed>>
  PROVE  Inv'
<1> USE ManagerAssumption
<1>1. TypeOK'
  BY DEF Inv, TypeOK, Position
<1>2. Positions'
  BY DEF Inv, Positions, PutPcs
<1>3. Owned'
  BY DEF Inv, Owned
<1>4. Agree'
  BY DEF Inv, Agree
<1> QED  BY <1>1, <1>2, <1>3, <1>4 DEF Inv

(* Orphan changes nothing but cur. *)
LEMMA OrphanKeeps ==
  ASSUME NEW th \in [Threads -> Position], NEW c \in Capsules
  PROVE  /\ Orphan(th, c) \in [Threads -> Position]
         /\ \A u \in Threads :
              /\ Orphan(th, c)[u].pc = th[u].pc /\ Orphan(th, c)[u].cap = th[u].cap
              /\ Orphan(th, c)[u].obj = th[u].obj /\ Orphan(th, c)[u].st = th[u].st
  BY DEF Orphan, Position, Pos

(* A machine that fires moves its own state and the thread's position. *)
LEMMA MachineFireInv ==
  ASSUME Inv, NEW t \in Threads, thr[t].pc \notin PutPcs,
         NEW c \in Capsules, NEW trigger, MachineFire(t, c, trigger)
  PROVE  Inv'
<1> USE ManagerAssumption
<1>1. PICK s \in Statuses :
        /\ mach' = [mach EXCEPT ![c] = s]
        /\ thr' = [thr EXCEPT ![t] = Pos("mutate", c, Nil, s, TRUE)]
  BY DEF MachineFire, Goto
<1>2. /\ Pos("mutate", c, Nil, s, TRUE) \in Position
      /\ thr \in [Threads -> Position]
      /\ mach' \in [Capsules -> Stored \cup {Nil}]
  BY <1>1 DEF Stored, Pos, Position, Pcs, Inv, TypeOK
<1>3. UNCHANGED <<heap, cache, db, born, failed>>
  BY DEF MachineFire
<1> DEFINE p == Pos("mutate", c, Nil, s, TRUE)
<1>4. /\ p.obj = Nil /\ p.pc = "mutate" /\ p.cap = c /\ p.st = s
      /\ thr' \in [Threads -> Position] /\ thr'[t] = p
      /\ \A u \in Threads \ {t} : thr'[u] = thr[u]
  BY <1>1, <1>2 DEF Pos
<1> HIDE DEF p
<1> QED  BY <1>1, <1>2, <1>3, <1>4, FrameInv

(* A row that enters the store: the object is new to the cache. *)
LEMMA CreateInv ==
  ASSUME Inv, NEW t \in Threads, NEW c \in Capsules, NEW o \in Objs,
         NEW row \in Rows, row.id = c, thr[t].pc \notin PutPcs,
         \A d \in Capsules \ {c} : cache[d] # o,
         \A u \in Threads \ {t} : thr[u].obj = o => heap[o] = row,
         NEW p \in Position, p.obj = Nil, p.cap = c,
         p.pc \in {"create_install", "install"},
         p.pc = "install" => p.st \in Statuses,
         db' = [db EXCEPT ![c] = row], cache' = [cache EXCEPT ![c] = o],
         failed' = failed \ {c}, thr' = [thr EXCEPT ![t] = p],
         heap' = Collect([heap EXCEPT ![o] = row], cache', thr'),
         born' \subseteq Capsules, mach' = mach
  PROVE  Inv'
<1> USE ManagerAssumption
<1> DEFINE h == [heap EXCEPT ![o] = row]
<1>1. /\ h \in [Objs -> Rows] /\ thr \in [Threads -> Position]
      /\ cache' \in [Capsules -> Objs \cup {Nil}]
      /\ db' \in [Capsules -> Rows \cup {Nil}] /\ failed' \subseteq Capsules
      /\ thr' \in [Threads -> Position]
  BY DEF Inv, TypeOK, Position
<1>2. /\ heap' \in [Objs -> Rows]
      /\ \A d \in Capsules : cache'[d] \in Objs => heap'[cache'[d]] = h[cache'[d]]
      /\ \A u \in Threads : thr'[u].obj \in Objs => heap'[thr'[u].obj] = h[thr'[u].obj]
  <2>1. heap' = Collect(h, cache', thr')  OBVIOUS
  <2> HIDE DEF h
  <2> QED  BY <1>1, <2>1, BlankIsRow DEF Collect, Live
<1>3. TypeOK'
  BY <1>1, <1>2 DEF Inv, TypeOK, Position
<1>4. Positions'
  BY <1>1 DEF Inv, Positions, PutPcs
<1>5. /\ \A u \in Threads : thr'[u].obj \in Objs => u # t /\ thr'[u] = thr[u]
      /\ \A u \in Threads : thr[u].pc \in PutPcs => thr'[u] = thr[u]
  BY <1>1
<1>6. /\ cache'[c] = o /\ db'[c] = row /\ h[o] = row
      /\ \A d \in Capsules \ {c} : cache'[d] = cache[d] /\ db'[d] = db[d] /\ cache[d] # o
                                /\ (d \in failed' <=> d \in failed)
      /\ \A x \in Objs \ {o} : h[x] = heap[x]
  BY DEF Inv, TypeOK
<1> HIDE DEF h
<1>7. Owned'
  <2>1. \A d \in Capsules : cache'[d] \in Objs => heap'[cache'[d]].id = d
    <3> SUFFICES ASSUME NEW d \in Capsules, cache'[d] \in Objs
                 PROVE  heap'[cache'[d]].id = d
      OBVIOUS
    <3>1. heap'[cache'[d]] = h[cache'[d]]  BY <1>2
    <3>2. CASE d = c  BY <3>1, <3>2, <1>6
    <3>3. CASE d # c
      <4>1. cache'[d] = cache[d] /\ cache[d] # o /\ heap[cache[d]].id = d
        BY <3>3, <1>6 DEF Inv, Owned
      <4> QED  BY <4>1, <3>1, <1>6
    <3> QED  BY <3>2, <3>3
  <2>2. \A u \in Threads : thr'[u].obj \in Objs => heap'[thr'[u].obj].id = thr'[u].cap
    <3> SUFFICES ASSUME NEW u \in Threads, thr'[u].obj \in Objs
                 PROVE  heap'[thr'[u].obj].id = thr'[u].cap
      OBVIOUS
    <3>1. /\ heap'[thr'[u].obj] = h[thr'[u].obj] /\ u # t /\ thr'[u] = thr[u]
          /\ heap[thr[u].obj].id = thr[u].cap
      BY <1>2, <1>5 DEF Inv, Owned
    <3>2. h[thr[u].obj] = heap[thr[u].obj]
      BY <3>1, <1>6
    <3> QED  BY <3>1, <3>2
  <2>3. \A d \in Capsules : db'[d] \in Rows => db'[d].id = d
    BY <1>6 DEF Inv, Owned
  <2> QED  BY <2>1, <2>2, <2>3 DEF Owned
<1>8. Agree'
  <2> SUFFICES ASSUME NEW d \in Capsules
               PROVE  /\ cache'[d] = Nil <=> db'[d] = Nil
                      /\ cache'[d] \in Objs =>
                           \/ d \in failed'
                           \/ db'[d] = heap'[cache'[d]]
                           \/ \E u \in Threads : /\ thr'[u].obj = cache'[d]
                                                 /\ thr'[u].pc \in PutPcs
    BY DEF Agree
  <2>1. CASE d = c
    <3>0. cache'[d] = o  BY <2>1, <1>6
    <3>1. heap'[cache'[d]] = row
      <4>1. heap'[cache'[d]] = h[cache'[d]]  BY <3>0, <1>2
      <4> QED  BY <4>1, <3>0, <1>6
    <3> QED  BY <2>1, <3>1, <1>6, MeshAssumption
  <2>2. CASE d # c
    <3>1. /\ cache'[d] = cache[d] /\ db'[d] = db[d] /\ cache[d] # o
          /\ (d \in failed' <=> d \in failed)
      BY <2>2, <1>6
    <3>2. ASSUME cache[d] \in Objs PROVE heap'[cache[d]] = heap[cache[d]]
      <4>1. heap'[cache'[d]] = h[cache'[d]]  BY <3>1, <3>2, <1>2
      <4> QED  BY <4>1, <3>1, <3>2, <1>6
    <3>3. \A u \in Threads : thr[u].pc \in PutPcs => thr'[u] = thr[u]
      BY <1>5
    <3>4. /\ cache[d] = Nil <=> db[d] = Nil
          /\ cache[d] \in Objs =>
               \/ d \in failed
               \/ db[d] = heap[cache[d]]
               \/ \E u \in Threads : thr[u].obj = cache[d] /\ thr[u].pc \in PutPcs
      BY DEF Inv, Agree
    <3> QED  BY <3>1, <3>2, <3>3, <3>4
  <2> QED  BY <2>1, <2>2
<1> QED  BY <1>3, <1>4, <1>7, <1>8 DEF Inv

(* A thread drops its object and returns; the store does not change. *)
LEMMA ReturnInv ==
  ASSUME Inv, NEW t \in Threads, thr[t].pc \notin PutPcs,
         thr' = [thr EXCEPT ![t] = Idle],
         heap' = Collect(heap, cache, thr'),
         UNCHANGED <<cache, db, mach, born, failed>>
  PROVE  Inv'
<1> USE ManagerAssumption
<1>1. /\ heap \in [Objs -> Rows] /\ thr \in [Threads -> Position]
      /\ Idle \in Position /\ Idle.obj = Nil /\ Idle.pc = "idle"
  BY DEF Inv, TypeOK, Position, Idle, Pos, Pcs
<1>2. /\ heap' \in [Objs -> Rows]
      /\ \A d \in Capsules : cache[d] \in Objs => heap'[cache[d]] = heap[cache[d]]
      /\ \A u \in Threads : thr'[u].obj \in Objs => heap'[thr'[u].obj] = heap[thr'[u].obj]
  BY <1>1, BlankIsRow DEF Collect, Live
<1>3. \A u \in Threads : thr'[u] = IF u = t THEN Idle ELSE thr[u]
  BY <1>1
<1>4. TypeOK'
  BY <1>1, <1>2 DEF Inv, TypeOK, Position
<1>5. Positions'
  BY <1>1, <1>3 DEF Inv, Positions, PutPcs
<1>6. Owned'
  BY <1>1, <1>2, <1>3 DEF Inv, Owned
<1>7. Agree'
  <2>1. cache' = cache /\ db' = db /\ failed' = failed  OBVIOUS
  <2>2. \A u \in Threads : thr[u].pc \in PutPcs => thr'[u] = thr[u]
    BY <1>3
  <2>3. \A d \in Capsules : cache'[d] \in Objs => heap'[cache'[d]] = heap[cache[d]]
    BY <1>2, <2>1
  <2>4. Agree  BY DEF Inv
  <2> SUFFICES ASSUME NEW d \in Capsules
               PROVE  /\ cache'[d] = Nil <=> db'[d] = Nil
                      /\ cache'[d] \in Objs =>
                           \/ d \in failed'
                           \/ db'[d] = heap'[cache'[d]]
                           \/ \E u \in Threads : /\ thr'[u].obj = cache'[d]
                                                 /\ thr'[u].pc \in PutPcs
    BY DEF Agree
  <2> QED  BY <2>1, <2>2, <2>3, <2>4 DEF Agree
<1> QED  BY <1>4, <1>5, <1>6, <1>7 DEF Inv

(* Each step of a method preserves the invariant. *)
LEMMA StepInv == ASSUME Inv, NEW t \in Threads, Step(t) PROVE Inv'
<1> USE ManagerAssumption
<1>0. /\ heap \in [Objs -> Rows] /\ cache \in [Capsules -> Objs \cup {Nil}]
      /\ thr \in [Threads -> Position] /\ "idle" \notin PutPcs
      /\ mach \in [Capsules -> Stored \cup {Nil}] /\ born \subseteq Capsules
      /\ Idle \in Position /\ Idle.obj = Nil /\ Idle.pc = "idle"
  BY DEF Inv, TypeOK, Position, PutPcs, Idle, Pos, Pcs
<1>1. ASSUME NEW c \in Capsules, NEW sp \in Specs, CreateStore(t, c, sp)
      PROVE  Inv'
  <2> DEFINE row == [id |-> c, status |-> "created", spec |-> sp,
                     replicas |-> [s \in Slots |-> Nil]]
             p == Pos("create_install", c, Nil, Nil, FALSE)
  <2>1. /\ row \in Rows /\ row.id = c /\ p \in Position /\ p.obj = Nil
        /\ p.cap = c /\ p.pc = "create_install"
    BY DEF Rows, Stored, Statuses, Pos, Position, Pcs
  <2>2. PICK o \in Objs \ Live(cache, thr) :
          \/ /\ db' = [db EXCEPT ![c] = row] /\ cache' = [cache EXCEPT ![c] = o]
             /\ failed' = failed \ {c} /\ thr' = [thr EXCEPT ![t] = p]
             /\ heap' = Collect([heap EXCEPT ![o] = row], cache', thr')
          \/ UNCHANGED <<db, cache, failed, thr, heap>>
    BY <1>1 DEF CreateStore, Goto
  <2>3. /\ thr[t].pc \notin PutPcs /\ born' \subseteq Capsules /\ mach' = mach
        /\ \A d \in Capsules : cache[d] # o
        /\ \A u \in Threads : thr[u].obj # o
    BY <1>1, <1>0, <2>2 DEF CreateStore, At, Live
  <2> HIDE DEF row, p
  <2>4. CASE UNCHANGED <<db, cache, failed, thr, heap>>
    BY <2>3, <2>4 DEF Inv, TypeOK, Positions, Owned, Agree
  <2> QED  BY <2>1, <2>2, <2>3, <2>4, CreateInv
<1>2. ASSUME NEW c \in Capsules, NEW sp \in Specs, Update(t, c, sp)
      PROVE  Inv'
  <2> DEFINE p == Pos("put", c, cache[c], Nil, FALSE)
             r == WithSpec(heap[cache[c]], sp)
  <2>1. /\ p \in Position /\ p.pc = "put" /\ p.cap = c /\ p.obj = cache[c]
        /\ "put" \in PutPcs
    BY <1>0 DEF Pos, Position, Pcs, PutPcs
  <2>2. cache[c] \in Objs /\ heap[cache[c]] \in Rows /\ heap[cache[c]].id = c
    BY <1>2, <1>0 DEF Update, Inv, Owned
  <2>3. r \in Rows /\ r.id = c
    BY <2>2 DEF WithSpec, Rows, Stored
  <2>4. /\ thr' = [thr EXCEPT ![t] = p] /\ thr[t].pc \notin PutPcs /\ cache[c] # Nil
        /\ heap' = Collect([heap EXCEPT ![cache[c]] = r], cache, thr')
        /\ UNCHANGED <<cache, db, mach, born, failed>>
    BY <1>2, <1>0 DEF Update, Goto, At
  <2> HIDE DEF p, r
  <2> QED  BY <2>1, <2>3, <2>4, MutateInv
<1>3. ASSUME NEW c \in Capsules, NEW s \in Slots, NEW n \in Nodes,
             AssignReplica(t, c, s, n)
      PROVE  Inv'
  <2> DEFINE p == Pos("put", c, cache[c], Nil, FALSE)
             r == WithReplica(heap[cache[c]], s, n)
  <2>1. /\ p \in Position /\ p.pc = "put" /\ p.cap = c /\ p.obj = cache[c]
        /\ "put" \in PutPcs
    BY <1>0 DEF Pos, Position, Pcs, PutPcs
  <2>2. cache[c] \in Objs /\ heap[cache[c]] \in Rows /\ heap[cache[c]].id = c
    BY <1>3, <1>0 DEF AssignReplica, Inv, Owned
  <2>3. r \in Rows /\ r.id = c
    BY <2>2 DEF WithReplica, Rows, Stored
  <2>4. /\ thr' = [thr EXCEPT ![t] = p] /\ thr[t].pc \notin PutPcs /\ cache[c] # Nil
        /\ heap' = Collect([heap EXCEPT ![cache[c]] = r], cache, thr')
        /\ UNCHANGED <<cache, db, mach, born, failed>>
    BY <1>3, <1>0 DEF AssignReplica, Goto, At
  <2> HIDE DEF p, r
  <2> QED  BY <2>1, <2>3, <2>4, MutateInv
<1>4. ASSUME NEW c \in Capsules, NEW s \in Mirrored, SyncStatus(t, c, s)
      PROVE  Inv'
  <2> DEFINE p == Pos("sync_put", c, cache[c], s, FALSE)
             r == WithStatus(heap[cache[c]], s)
  <2>1. /\ p \in Position /\ p.pc = "sync_put" /\ p.cap = c /\ p.obj = cache[c]
        /\ p.st = s /\ s \in Statuses /\ "sync_put" \in PutPcs
    BY <1>0, MeshAssumption DEF Pos, Position, Pcs, PutPcs
  <2>2. cache[c] \in Objs /\ heap[cache[c]] \in Rows /\ heap[cache[c]].id = c
    BY <1>4, <1>0 DEF SyncStatus, Inv, Owned
  <2>3. r \in Rows /\ r.id = c
    BY <2>1, <2>2 DEF WithStatus, Rows, Stored
  <2>4. /\ thr' = [thr EXCEPT ![t] = p] /\ thr[t].pc \notin PutPcs /\ cache[c] # Nil
        /\ heap' = Collect([heap EXCEPT ![cache[c]] = r], cache, thr')
        /\ UNCHANGED <<cache, db, mach, born, failed>>
    BY <1>4, <1>0 DEF SyncStatus, Goto, At
  <2> HIDE DEF p, r
  <2>5. p.pc \in PutPcs /\ (p.pc = "sync_put" => p.st \in Statuses)
    BY <2>1
  <2> QED  BY <2>1, <2>3, <2>4, <2>5, MutateInv
<1>5. ASSUME NEW c \in Capsules, NEW trigger \in Triggers, Fire(t, c, trigger)
      PROVE  Inv'
  BY <1>5, <1>0, MachineFireInv DEF Fire, At
<1>6. CASE CreateAnnounce(t)
  <2>1. thr[t].pc \notin PutPcs /\ thr[t].cap \in Capsules
    BY <1>6 DEF CreateAnnounce, At, PutPcs, Inv, Positions
  <2>2. CASE MachineFire(t, thr[t].cap, "announce")
    BY <2>1, <2>2, MachineFireInv
  <2>3. CASE Goto(t, Idle) /\ UNCHANGED <<heap, cache, db, mach, born, failed>>
    <3>1. /\ thr' \in [Threads -> Position] /\ thr'[t] = Idle
          /\ \A u \in Threads \ {t} : thr'[u] = thr[u]
      BY <2>3, <1>0 DEF Goto
    <3> QED  BY <1>0, <2>1, <2>3, <3>1, FrameInv
  <2> QED  BY <1>6, <2>2, <2>3 DEF CreateAnnounce
<1>7. CASE CreateInstall(t)
  <2> DEFINE c == thr[t].cap
             p == Pos("create_announce", c, Nil, Nil, FALSE)
             th == Orphan(thr, c)
  <2>1. c \in Capsules /\ thr[t].pc \notin PutPcs
    BY <1>7 DEF CreateInstall, At, PutPcs, Inv, Positions
  <2>2. p \in Position /\ p.obj = Nil /\ p.pc = "create_announce" /\ p.cap = c
    BY <2>1 DEF Pos, Position, Pcs
  <2>3. /\ th \in [Threads -> Position]
        /\ \A u \in Threads :
             /\ th[u].pc = thr[u].pc /\ th[u].cap = thr[u].cap
             /\ th[u].obj = thr[u].obj /\ th[u].st = thr[u].st
    BY <1>0, <2>1, OrphanKeeps
  <2>4. /\ thr' = [th EXCEPT ![t] = p] /\ mach' = [mach EXCEPT ![c] = "created"]
        /\ UNCHANGED <<heap, cache, db, born, failed>>
    BY <1>7 DEF CreateInstall
  <2> HIDE DEF c, p, th
  <2>5. /\ thr' \in [Threads -> Position] /\ thr'[t] = p
        /\ \A u \in Threads \ {t} : thr'[u] = th[u]
        /\ mach' \in [Capsules -> Stored \cup {Nil}]
    BY <1>0, <2>1, <2>2, <2>3, <2>4 DEF Statuses, Stored
  <2> QED  BY <2>1, <2>2, <2>3, <2>4, <2>5, FrameInv
<1>8. CASE Install(t) \/ DeleteDrop(t)
  <2> DEFINE c == thr[t].cap
             th == Orphan(thr, c)
  <2>1. c \in Capsules /\ thr[t].pc \notin PutPcs
    BY <1>8 DEF Install, DeleteDrop, At, PutPcs, Inv, Positions
  <2>2. /\ th \in [Threads -> Position]
        /\ \A u \in Threads :
             /\ th[u].pc = thr[u].pc /\ th[u].cap = thr[u].cap
             /\ th[u].obj = thr[u].obj /\ th[u].st = thr[u].st
    BY <1>0, <2>1, OrphanKeeps
  <2>3. /\ thr' = [th EXCEPT ![t] = Idle]
        /\ UNCHANGED <<heap, cache, db, born, failed>>
    BY <1>8 DEF Install, DeleteDrop
  <2>4. mach' \in [Capsules -> Stored \cup {Nil}]
    BY <1>8, <1>0 DEF Stored, Install, DeleteDrop, At, Inv, Positions
  <2> HIDE DEF c, th
  <2>5. /\ thr' \in [Threads -> Position] /\ thr'[t] = Idle
        /\ \A u \in Threads \ {t} : thr'[u] = th[u]
    BY <1>0, <2>2, <2>3
  <2> QED  BY <1>0, <2>1, <2>2, <2>3, <2>4, <2>5, FrameInv
<1>9. CASE TransitionMutate(t)
  <2> DEFINE c == thr[t].cap
             o == cache[c]
  <2>1. c \in Capsules /\ thr[t].st \in Statuses /\ thr[t].pc \notin PutPcs
    BY <1>9 DEF TransitionMutate, At, PutPcs, Inv, Positions
  <2>2. CASE o = Nil /\ Goto(t, Idle) /\ heap' = Collect(heap, cache, thr')
    BY <1>9, <2>1, <2>2, ReturnInv DEF TransitionMutate, Goto
  <2>3. CASE /\ o # Nil
             /\ Goto(t, Pos("put", c, o, thr[t].st, thr[t].cur))
             /\ heap' = Collect([heap EXCEPT ![o] = WithStatus(@, thr[t].st)], cache, thr')
    <3> DEFINE p == Pos("put", c, o, thr[t].st, thr[t].cur)
               r == WithStatus(heap[o], thr[t].st)
    <3>1. /\ p \in Position /\ p.pc = "put" /\ p.cap = c /\ p.obj = cache[c]
          /\ "put" \in PutPcs
      BY <1>0, <2>1 DEF Pos, Position, Pcs, PutPcs
    <3>2. o \in Objs /\ heap[o] \in Rows /\ heap[o].id = c
      BY <1>0, <2>1, <2>3 DEF Inv, Owned
    <3>3. r \in Rows /\ r.id = c
      BY <2>1, <3>2 DEF WithStatus, Rows, Stored
    <3>4. /\ thr' = [thr EXCEPT ![t] = p] /\ cache[c] # Nil
          /\ heap' = Collect([heap EXCEPT ![cache[c]] = r], cache, thr')
          /\ UNCHANGED <<cache, db, mach, born, failed>>
      BY <1>9, <2>3, <3>2 DEF TransitionMutate, Goto
    <3> HIDE DEF p, r, c, o
    <3> QED  BY <2>1, <3>1, <3>3, <3>4, MutateInv
  <2> QED  BY <1>9, <2>2, <2>3 DEF TransitionMutate
<1>10. CASE Put(t) \/ ReceivePut(t)
  BY <1>10, <1>0, StoreUpdateInv DEF Put, ReceivePut, At, PutPcs
<1>11. CASE SyncPut(t)
  <2> DEFINE p == Pos("install", thr[t].cap, Nil, thr[t].st, FALSE)
  <2>1. /\ p \in Position /\ p.obj = Nil /\ p.pc = "install"
        /\ p.cap \in Capsules /\ p.st \in Statuses
        /\ thr[t].pc \in PutPcs
    BY <1>11 DEF SyncPut, At, PutPcs, Inv, Positions, Pos, Position, Pcs
  <2>2. /\ StoreUpdate(t, thr[t].obj, p)
        /\ heap' = Collect(heap, cache', thr') /\ UNCHANGED <<mach, born>>
    BY <1>11 DEF SyncPut
  <2> HIDE DEF p
  <2> QED  BY <2>1, <2>2, StoreUpdateInv
<1>12. ASSUME NEW row \in MeshRows, Receive(t, row) PROVE Inv'
  <2>1. PICK o \in Objs \ Live(cache, thr), pc \in {"recv_put", "recv_create"},
             st \in Statuses :
          /\ thr' = [thr EXCEPT ![t] = Pos(pc, row.id, o, st, FALSE)]
          /\ heap' = Collect([heap EXCEPT ![o] = row], cache, thr')
    BY <1>12 DEF Receive, Goto, Statuses
  <2> DEFINE p == Pos(pc, row.id, o, st, FALSE)
             h == [heap EXCEPT ![o] = row]
  <2>2. /\ row \in Rows /\ row.id \in Capsules
        /\ p \in Position /\ p.pc = pc /\ p.cap = row.id /\ p.obj = o
        /\ p.st = st /\ h \in [Objs -> Rows]
        /\ pc \notin PutPcs /\ thr[t].pc \notin PutPcs
    BY <1>0, <1>12, MeshAssumption DEF Rows, Stored, Pos, Position, Pcs, PutPcs, Receive, At
  <2>3. UNCHANGED <<cache, db, mach, failed>> /\ born' \subseteq Capsules
    BY <1>12, <1>0, <2>2 DEF Receive
  <2>4. /\ \A d \in Capsules : cache[d] # o
        /\ \A u \in Threads : thr[u].obj # o
    BY <2>1 DEF Live
  <2>5. /\ h[o] = row /\ \A x \in Objs \ {o} : h[x] = heap[x]
        /\ thr' \in [Threads -> Position] /\ thr'[t] = p
        /\ \A u \in Threads \ {t} : thr'[u] = thr[u]
    BY <1>0, <2>1, <2>2
  <2>6. /\ heap' \in [Objs -> Rows]
        /\ \A d \in Capsules : cache[d] \in Objs => heap'[cache[d]] = h[cache[d]]
        /\ \A u \in Threads : thr'[u].obj \in Objs => heap'[thr'[u].obj] = h[thr'[u].obj]
    <3>1. heap' = Collect(h, cache, thr')  BY <2>1
    <3> HIDE DEF h, p
    <3> QED  BY <2>2, <3>1, BlankIsRow DEF Collect, Live
  <2> HIDE DEF h, p
  <2>7. TypeOK'
    BY <2>3, <2>5, <2>6 DEF Inv, TypeOK, Position
  <2>8. Positions'
    BY <2>2, <2>5 DEF Inv, Positions, PutPcs
  <2>9. Owned'
    <3>1. \A d \in Capsules : cache'[d] \in Objs => heap'[cache'[d]].id = d
      BY <2>3, <2>4, <2>5, <2>6 DEF Inv, Owned
    <3>2. \A u \in Threads : thr'[u].obj \in Objs => heap'[thr'[u].obj].id = thr'[u].cap
      BY <2>2, <2>4, <2>5, <2>6 DEF Inv, Owned
    <3>3. \A d \in Capsules : db'[d] \in Rows => db'[d].id = d
      BY <2>3 DEF Inv, Owned
    <3> QED  BY <3>1, <3>2, <3>3 DEF Owned
  <2>10. Agree'
    <3>1. \A u \in Threads : thr[u].pc \in PutPcs => thr'[u] = thr[u]
      BY <2>2, <2>5
    <3> QED  BY <2>3, <2>4, <2>5, <2>6, <3>1 DEF Inv, Agree
  <2> QED  BY <2>7, <2>8, <2>9, <2>10 DEF Inv
<1>13. CASE ReceiveCreate(t)
  <2> DEFINE c == thr[t].cap
             o == thr[t].obj
             p == Pos("install", c, Nil, thr[t].st, FALSE)
  <2>1. /\ c \in Capsules /\ o \in Objs /\ thr[t].st \in Statuses
        /\ thr[t].pc \notin PutPcs /\ heap[o] \in Rows /\ heap[o].id = c
    BY <1>13, <1>0 DEF ReceiveCreate, At, Inv, Positions, Owned, PutPcs
  <2>2. /\ p \in Position /\ p.obj = Nil /\ p.pc = "install"
        /\ p.cap = c /\ p.st \in Statuses
    BY <2>1 DEF Pos, Position, Pcs
  <2>3. CASE thr' = [thr EXCEPT ![t] = Idle] /\ UNCHANGED <<cache, db, failed>>
    BY <1>13, <2>1, <2>3, ReturnInv DEF ReceiveCreate
  <2>4. CASE /\ db' = [db EXCEPT ![c] = heap[o]] /\ cache' = [cache EXCEPT ![c] = o]
             /\ failed' = failed \ {c} /\ thr' = [thr EXCEPT ![t] = p]
    <3>1. /\ heap' = Collect([heap EXCEPT ![o] = heap[o]], cache', thr')
          /\ born' \subseteq Capsules /\ mach' = mach
      <4>1. heap = [heap EXCEPT ![o] = heap[o]]  BY <1>0, <2>1
      <4> QED  BY <1>13, <1>0, <4>1 DEF ReceiveCreate
    <3>2. \A d \in Capsules \ {c} : cache[d] # o
      BY <2>1 DEF Inv, Owned
    <3> HIDE DEF c, o, p
    <3> QED  BY <2>1, <2>2, <2>4, <3>1, <3>2, CreateInv
  <2> QED  BY <1>13, <2>3, <2>4 DEF ReceiveCreate, Goto
<1>14. ASSUME NEW c \in Capsules, Delete(t, c) PROVE Inv'
  <2> DEFINE p == Pos("delete_drop", c, Nil, Nil, FALSE)
  <2>1. /\ p \in Position /\ p.obj = Nil /\ p.pc = "delete_drop" /\ p.cap = c
        /\ p.pc \notin PutPcs /\ thr[t].pc \notin PutPcs
    BY <1>0, <1>14 DEF Pos, Position, Pcs, PutPcs, Delete, At
  <2>2. /\ db' = [db EXCEPT ![c] = Nil] /\ cache' = [cache EXCEPT ![c] = Nil]
        /\ failed' = failed \ {c} /\ thr' = [thr EXCEPT ![t] = p]
        /\ heap' = Collect(heap, cache', thr') /\ UNCHANGED <<mach, born>>
    BY <1>14 DEF Delete, Goto
  <2> HIDE DEF p
  <2>3. /\ heap' \in [Objs -> Rows]
        /\ \A d \in Capsules : cache'[d] \in Objs => heap'[cache'[d]] = heap[cache'[d]]
        /\ \A u \in Threads : thr'[u].obj \in Objs => heap'[thr'[u].obj] = heap[thr'[u].obj]
    BY <1>0, <2>2, BlankIsRow DEF Collect, Live
  <2>4. /\ cache'[c] = Nil /\ db'[c] = Nil
        /\ \A d \in Capsules \ {c} : cache'[d] = cache[d] /\ db'[d] = db[d]
        /\ thr' \in [Threads -> Position] /\ thr'[t] = p
        /\ \A u \in Threads \ {t} : thr'[u] = thr[u]
        /\ \A d \in Capsules \ {c} : d \in failed' <=> d \in failed
    BY <1>0, <2>1, <2>2 DEF Inv, TypeOK
  <2>5. TypeOK'
    BY <1>0, <2>2, <2>3, <2>4 DEF Inv, TypeOK, Position
  <2>6. Positions'
    BY <2>1, <2>4 DEF Inv, Positions, PutPcs
  <2>7. Owned'
    <3>1. \A d \in Capsules : cache'[d] \in Objs => heap'[cache'[d]].id = d
      BY <2>3, <2>4 DEF Inv, Owned
    <3>2. \A u \in Threads : thr'[u].obj \in Objs => heap'[thr'[u].obj].id = thr'[u].cap
      BY <2>1, <2>3, <2>4 DEF Inv, Owned
    <3>3. \A d \in Capsules : db'[d] \in Rows => db'[d].id = d
      BY <2>4, <2>2, MeshAssumption DEF Inv, Owned
    <3> QED  BY <3>1, <3>2, <3>3 DEF Owned
  <2>8. Agree'
    <3>1. \A u \in Threads : thr[u].pc \in PutPcs => thr'[u] = thr[u]
      BY <2>1, <2>4
    <3> QED  BY <2>3, <2>4, <3>1 DEF Inv, Agree
  <2> QED  BY <2>5, <2>6, <2>7, <2>8 DEF Inv
<1> QED  BY <1>1, <1>2, <1>3, <1>4, <1>5, <1>6, <1>7, <1>8, <1>9, <1>10, <1>11,
            <1>12, <1>13, <1>14 DEF Step

(* A restart rebuilds memory from the rows: every object is a copy of one. *)
LEMMA RestartInv == ASSUME Inv, Restart PROVE Inv'
<1> USE ManagerAssumption
<1>1. PICK place \in [Capsules -> Objs] :
        /\ \A c, d \in Capsules : place[c] = place[d] => c = d
        /\ cache' = [c \in Capsules |-> IF db[c] = Nil THEN Nil ELSE place[c]]
        /\ heap' = [o \in Objs |->
                      IF \E c \in Capsules : cache'[c] = o
                      THEN db[CHOOSE c \in Capsules : cache'[c] = o] ELSE Blank]
  BY DEF Restart
<1>2. /\ mach' = [c \in Capsules |-> IF db[c] = Nil THEN Nil ELSE db[c].status]
      /\ thr' = [t \in Threads |-> Idle] /\ failed' = {} /\ db' = db /\ born' = born
      /\ db \in [Capsules -> Rows \cup {Nil}] /\ born \subseteq Capsules
  BY DEF Restart, Inv, TypeOK
<1>3. \A c \in Capsules : cache'[c] \in Objs =>
        db[c] # Nil /\ db[c] \in Rows /\ heap'[cache'[c]] = db[c]
  <2> SUFFICES ASSUME NEW c \in Capsules, cache'[c] \in Objs
               PROVE  db[c] # Nil /\ db[c] \in Rows /\ heap'[cache'[c]] = db[c]
    OBVIOUS
  <2>1. db[c] # Nil /\ cache'[c] = place[c]  BY <1>1
  <2> DEFINE e == CHOOSE d \in Capsules : cache'[d] = place[c]
  <2>2. e \in Capsules /\ cache'[e] = place[c]  BY <2>1
  <2> HIDE DEF e
  <2>3. e = c
    <3>1. db[e] # Nil /\ cache'[e] = place[e]  BY <1>1, <2>2
    <3> QED  BY <1>1, <2>2, <3>1
  <2>4. heap'[place[c]] = db[e]  BY <1>1, <2>1 DEF e
  <2> QED  BY <1>2, <2>1, <2>3, <2>4
<1>4. heap' \in [Objs -> Rows]
  <2> SUFFICES ASSUME NEW o \in Objs PROVE heap'[o] \in Rows
    BY <1>1
  <2>1. CASE \E c \in Capsules : cache'[c] = o
    BY <2>1, <1>3
  <2>2. CASE ~\E c \in Capsules : cache'[c] = o
    BY <2>2, <1>1, BlankIsRow
  <2> QED  BY <2>1, <2>2
<1>5. TypeOK'
  <2>1. cache' \in [Capsules -> Objs \cup {Nil}]  BY <1>1
  <2>2. mach' \in [Capsules -> Stored \cup {Nil}]  BY <1>2 DEF Rows, Stored
  <2>3. thr' \in [Threads -> Position]
    BY <1>2 DEF Position, Idle, Pos, Pcs
  <2> QED  BY <1>2, <1>4, <2>1, <2>2, <2>3 DEF TypeOK, Position
<1>6. Positions'
  BY <1>2 DEF Positions, Idle, Pos, PutPcs
<1>7. Owned'
  <2>1. \A c \in Capsules : db[c] \in Rows => db[c].id = c
    BY DEF Inv, Owned
  <2>2. \A t \in Threads : thr'[t].obj \notin Objs
    BY <1>2 DEF Idle, Pos
  <2> QED  BY <1>2, <1>3, <2>1, <2>2 DEF Owned
<1>8. Agree'
  BY <1>1, <1>2, <1>3 DEF Agree
<1> QED  BY <1>5, <1>6, <1>7, <1>8 DEF Inv

-----------------------------------------------------------------------------
(* The invariant holds in every reachable state. *)
THEOREM Invariance == Spec => []Inv
<1>1. Inv /\ [Next]_vars => Inv'
  <2> SUFFICES ASSUME Inv, [Next]_vars PROVE Inv'
    OBVIOUS
  <2>1. ASSUME NEW t \in Threads, Step(t) PROVE Inv'
    BY <2>1, StepInv
  <2>2. CASE Restart
    BY <2>2, RestartInv
  <2>3. CASE UNCHANGED vars
    BY <2>3 DEF vars, Inv, TypeOK, Positions, Owned, Agree
  <2> QED  BY <2>1, <2>2, <2>3 DEF Next
<1> QED  BY <1>1, InitInv, PTL DEF Spec

(* The state of the manager and of the store keeps its type under every
   interleaving of Manager methods, failed writes and restarts. *)
THEOREM TypeCorrect == Spec => []TypeOK
<1>1. Inv => TypeOK  BY DEF Inv
<1> QED  BY <1>1, Invariance, PTL

(* Memory and SQLite agree for every set of capsules and every number of
   concurrent callers, in every state that is not explained by a pending or
   a failed write. *)
THEOREM DurableAlways == Spec => []Durable
<1>1. Inv => Durable
  <2> SUFFICES ASSUME Inv, NEW c \in Capsules
               PROVE  /\ cache[c] = Nil <=> db[c] = Nil
                      /\ cache[c] # Nil /\ c \notin failed /\ ~Writing(c) =>
                           db[c] = heap[cache[c]]
    BY DEF Durable
  <2>1. cache[c] = Nil <=> db[c] = Nil  BY DEF Inv, Agree
  <2>2. ASSUME cache[c] # Nil, c \notin failed, ~Writing(c)
        PROVE  db[c] = heap[cache[c]]
    <3>1. cache[c] \in Objs  BY <2>2 DEF Inv, TypeOK
    <3>2. \A t \in Threads : thr[t].obj = cache[c] => thr[t].cap = c
      BY <3>1 DEF Inv, Owned
    <3> QED  BY <2>2, <3>1, <3>2 DEF Inv, Agree, Writing
  <2> QED  BY <2>1, <2>2
<1> QED  BY <1>1, Invariance, PTL

(* No interleaving brings a deleted capsule back: a row appears only for a
   fresh ID or by the new-capsule branch of Receive. *)
THEOREM NoResurrectionAlways == Spec => NoResurrection
<1> DEFINE A == \A c \in Capsules :
                  db[c] = Nil /\ db'[c] # Nil =>
                    \/ c \notin born
                    \/ \E t \in Threads : thr[t].cap = c /\ thr[t].pc = "recv_create"
<1>1. Inv /\ [Next]_vars => A
  <2> SUFFICES ASSUME Inv, [Next]_vars, NEW c \in Capsules, db[c] = Nil, db'[c] # Nil
               PROVE  \/ c \notin born
                      \/ \E t \in Threads : thr[t].cap = c /\ thr[t].pc = "recv_create"
    OBVIOUS
  <2>0. cache[c] = Nil /\ db \in [Capsules -> Rows \cup {Nil}]
    BY DEF Inv, Agree, TypeOK
  <2>1. ASSUME NEW t \in Threads, StoreUpdate(t, thr[t].obj, Idle) PROVE FALSE
    BY <2>0, <2>1 DEF StoreUpdate
  <2>2. ASSUME NEW t \in Threads, SyncPut(t) PROVE FALSE
    BY <2>0, <2>2 DEF SyncPut, StoreUpdate
  <2>3. ASSUME NEW t \in Threads, ReceiveCreate(t)
        PROVE  thr[t].cap = c /\ thr[t].pc = "recv_create"
    BY <2>0, <2>3 DEF ReceiveCreate, At
  <2>4. ASSUME NEW t \in Threads, NEW d \in Capsules, NEW sp \in Specs, CreateStore(t, d, sp)
        PROVE  c \notin born
    BY <2>0, <2>4 DEF CreateStore
  <2>5. ASSUME NEW t \in Threads, Step(t)
        PROVE  \/ db' = db \/ StoreUpdate(t, thr[t].obj, Idle) \/ SyncPut(t)
               \/ ReceiveCreate(t) \/ \E d \in Capsules : db' = [db EXCEPT ![d] = Nil]
               \/ \E d \in Capsules, sp \in Specs : CreateStore(t, d, sp)
    BY <2>5 DEF Step, Update, Fire, MachineFire, AssignReplica, SyncStatus, Receive, Delete,
                CreateInstall, CreateAnnounce, TransitionMutate, Put, Install,
                ReceivePut, DeleteDrop
  <2>6. CASE Restart \/ UNCHANGED vars
    BY <2>6 DEF Restart, vars
  <2>7. ASSUME NEW t \in Threads, Step(t)
        PROVE  c \notin born \/ (thr[t].cap = c /\ thr[t].pc = "recv_create")
    <3>1. ~\E d \in Capsules : db' = [db EXCEPT ![d] = Nil]
      BY <2>0
    <3> QED  BY <2>1, <2>2, <2>3, <2>4, <2>5, <2>7, <3>1
  <2> QED  BY <2>6, <2>7 DEF Next
<1> QED  BY <1>1, Invariance, PTL DEF NoResurrection, Spec
-----------------------------------------------------------------------------
(* What keeps the stored status with the machine while only this node's own
   calls touch the capsules. *)

(* IDs that were never drawn have no object and no machine, and threads work
   on IDs that were drawn. *)
Drawn ==
  /\ \A c \in Capsules \ born : cache[c] = Nil /\ mach[c] = Nil
  /\ \A t \in Threads : thr[t].pc # "idle" => thr[t].cap \in born

(* Where a thread stands among the steps of the local methods.  The object it
   persists is the cached one unless the capsule was deleted; the machine
   whose handler it runs holds the status it is about to write, unless the
   capsule was deleted. *)
LocalPcs == {"idle", "mutate", "put", "create_install", "create_announce",
             "delete_drop"}

Following(t) ==
  /\ thr[t].pc \in LocalPcs
  /\ thr[t].pc = "put" => cache[thr[t].cap] \in {Nil, thr[t].obj}
  /\ thr[t].pc = "delete_drop" => cache[thr[t].cap] = Nil
  /\ thr[t].pc = "mutate" /\ thr[t].cur => thr[t].st = mach[thr[t].cap]
  /\ thr[t].pc = "mutate" /\ ~thr[t].cur => cache[thr[t].cap] = Nil
  /\ thr[t].cur => thr[t].pc \in {"mutate", "put"}

(* Between Store.Create and the installation of the machine nobody fires. *)
Creating(t) ==
  thr[t].pc = "create_install" =>
    /\ mach[thr[t].cap] = Nil
    /\ cache[thr[t].cap] # Nil => heap[cache[thr[t].cap]].status = "created"
    /\ \A u \in Threads \ {t} : thr[u].cap = thr[t].cap =>
         thr[u].pc \notin {"mutate", "create_install"}

(* A machine runs one handler at a time. *)
Queued ==
  \A t, u \in Threads : thr[t].cur /\ thr[u].cur /\ thr[t].cap = thr[u].cap => t = u

(* The stored status is the machine's state, or a handler will write it. *)
Written ==
  \A c \in Capsules : cache[c] # Nil /\ mach[c] # Nil =>
    \/ heap[cache[c]].status = mach[c]
    \/ \E t \in Threads : thr[t].cap = c /\ thr[t].pc = "mutate" /\ thr[t].cur

Machines ==
  Drawn /\ (\A t \in Threads : Following(t) /\ Creating(t)) /\ Queued /\ Written

LEMMA InitMachines == Init => Machines
  BY DEF Init, Machines, Drawn, Following, Creating, Queued, Written, Idle, Pos,
         LocalPcs

(* A method that leaves every stored status alone returns or goes on to
   persist the cached object. *)
LEMMA PassMachines ==
  ASSUME Inv, Machines, NEW t \in Threads, NEW p \in Position,
         thr' = [thr EXCEPT ![t] = p], p.pc \in {"idle", "put"}, ~p.cur,
         p.pc = "put" => p.cap \in born /\ p.obj = cache[p.cap],
         thr[t].pc = "mutate" => cache[thr[t].cap] = Nil,
         UNCHANGED <<cache, mach, born>>,
         \A d \in Capsules : cache[d] # Nil =>
           heap'[cache[d]].status = heap[cache[d]].status
  PROVE  Machines'
<1>1. thr \in [Threads -> Position] /\ cache' = cache /\ mach' = mach /\ born' = born
  BY DEF Inv, TypeOK, Position
<1>2. thr'[t] = p /\ \A u \in Threads : u # t => thr'[u] = thr[u]
  BY <1>1
<1>3. \A u \in Threads : thr[u].pc # "idle" => thr[u].cap \in Capsules
  BY DEF Inv, Positions
<1>4. Drawn'
  BY <1>1, <1>2 DEF Machines, Drawn
<1>5. ASSUME NEW u \in Threads PROVE Following(u)'
  <2>1. CASE u = t
    BY <2>1, <1>1, <1>2 DEF Following, LocalPcs
  <2>2. CASE u # t
    BY <2>2, <1>1, <1>2 DEF Machines, Following
  <2> QED  BY <2>1, <2>2
<1>6. ASSUME NEW u \in Threads PROVE Creating(u)'
  <2>1. CASE u = t
    BY <2>1, <1>2 DEF Creating
  <2>2. CASE u # t
    BY <2>2, <1>1, <1>2, <1>3 DEF Machines, Creating
  <2> QED  BY <2>1, <2>2
<1>7. Queued'
  BY <1>1, <1>2 DEF Machines, Queued
<1>8. Written'
  BY <1>1, <1>2 DEF Machines, Written
<1> QED  BY <1>4, <1>5, <1>6, <1>7, <1>8 DEF Machines

(* A handler of the installed machine writes the machine's state. *)
LEMMA WriteMachines ==
  ASSUME Inv, Machines, NEW t \in Threads, NEW p \in Position,
         thr[t].pc = "mutate", cache[thr[t].cap] # Nil,
         thr' = [thr EXCEPT ![t] = p], p.pc = "put", p.cap = thr[t].cap,
         p.obj = cache[p.cap],
         UNCHANGED <<cache, mach, born>>,
         heap'[cache[thr[t].cap]].status = thr[t].st,
         \A d \in Capsules : cache[d] # Nil /\ d # thr[t].cap =>
           heap'[cache[d]].status = heap[cache[d]].status
  PROVE  Machines'
<1>1. /\ thr \in [Threads -> Position] /\ cache' = cache /\ mach' = mach /\ born' = born
      /\ thr[t].cap \in Capsules
  BY DEF Inv, TypeOK, Position, Positions
<1>2. thr'[t] = p /\ \A u \in Threads : u # t => thr'[u] = thr[u]
  BY <1>1
<1>3. \A u \in Threads : thr[u].pc # "idle" => thr[u].cap \in Capsules
  BY DEF Inv, Positions
<1>a. thr[t].cur /\ thr[t].st = mach[thr[t].cap]
  BY DEF Machines, Following
<1>4. Drawn'
  BY <1>1, <1>2 DEF Machines, Drawn
<1>5. ASSUME NEW u \in Threads PROVE Following(u)'
  <2>1. CASE u = t
    BY <2>1, <1>1, <1>2 DEF Following, LocalPcs
  <2>2. CASE u # t
    BY <2>2, <1>1, <1>2 DEF Machines, Following
  <2> QED  BY <2>1, <2>2
<1>6. ASSUME NEW u \in Threads PROVE Creating(u)'
  <2>1. CASE u = t
    BY <2>1, <1>2 DEF Creating
  <2>2. CASE u # t
    BY <2>2, <1>1, <1>2, <1>3 DEF Machines, Creating
  <2> QED  BY <2>1, <2>2
<1>7. Queued'
  BY <1>1, <1>2, <1>a DEF Machines, Queued
<1>8. Written'
  <2> SUFFICES ASSUME NEW d \in Capsules, cache[d] # Nil, mach[d] # Nil
               PROVE  \/ heap'[cache[d]].status = mach[d]
                      \/ \E u \in Threads : thr'[u].cap = d /\ thr'[u].pc = "mutate" /\ thr'[u].cur
    BY <1>1 DEF Written
  <2>1. CASE d = thr[t].cap
    BY <2>1, <1>a
  <2>2. CASE d # thr[t].cap
    BY <2>2, <1>2 DEF Machines, Written
  <2> QED  BY <2>1, <2>2
<1> QED  BY <1>4, <1>5, <1>6, <1>7, <1>8 DEF Machines

(* A machine fires only when none of its handlers runs, so that no handler
   is left with an older status. *)
LEMMA FireMachines ==
  ASSUME Inv, Machines, NEW t \in Threads, NEW c \in Capsules, NEW trigger,
         thr[t].pc \in {"idle", "create_announce"}, MachineFire(t, c, trigger)
  PROVE  Machines'
<1>1. PICK s \in Statuses :
        /\ mach' = [mach EXCEPT ![c] = s]
        /\ thr' = [thr EXCEPT ![t] = Pos("mutate", c, Nil, s, TRUE)]
  BY DEF MachineFire, Goto
<1> DEFINE p == Pos("mutate", c, Nil, s, TRUE)
<1>2. p.pc = "mutate" /\ p.cap = c /\ p.st = s /\ p.cur
  BY DEF Pos
<1>3. /\ mach[c] # Nil /\ (\A u \in Threads : thr[u].cap = c => ~thr[u].cur)
      /\ heap' = heap /\ cache' = cache /\ born' = born
  BY DEF MachineFire, Firing
<1>4. /\ thr'[t] = p /\ \A u \in Threads : u # t => thr'[u] = thr[u]
      /\ mach'[c] = s /\ \A d \in Capsules : d # c => mach'[d] = mach[d]
  BY <1>1 DEF Inv, TypeOK
<1> HIDE DEF p
<1>5. \A u \in Threads : thr[u].pc # "idle" => thr[u].cap \in Capsules
  BY DEF Inv, Positions
<1>6. c \in born
  BY <1>3 DEF Machines, Drawn
<1>7. Drawn'
  BY <1>2, <1>3, <1>4, <1>6 DEF Machines, Drawn
<1>8. ASSUME NEW u \in Threads PROVE Following(u)'
  <2>1. CASE u = t
    BY <2>1, <1>2, <1>4 DEF Following, LocalPcs
  <2>2. CASE u # t
    <3>1. thr'[u] = thr[u] /\ Following(u)
      BY <2>2, <1>4 DEF Machines
    <3>2. thr[u].pc = "mutate" /\ thr[u].cur => mach'[thr[u].cap] = mach[thr[u].cap]
      BY <1>3, <1>4, <1>5
    <3> QED  BY <3>1, <3>2, <1>3 DEF Following
  <2> QED  BY <2>1, <2>2
<1>9. ASSUME NEW u \in Threads PROVE Creating(u)'
  <2>1. CASE u = t
    BY <2>1, <1>2, <1>4 DEF Creating
  <2>2. CASE u # t
    <3>1. thr'[u] = thr[u] /\ Creating(u)
      BY <2>2, <1>4 DEF Machines
    <3> SUFFICES ASSUME thr[u].pc = "create_install" PROVE Creating(u)'
      BY <3>1 DEF Creating
    <3>2. thr[u].cap # c /\ thr[u].cap \in Capsules
      BY <3>1, <1>3, <1>5 DEF Creating
    <3> QED  BY <3>1, <3>2, <1>2, <1>3, <1>4 DEF Creating
  <2> QED  BY <2>1, <2>2
<1>10. Queued'
  BY <1>2, <1>3, <1>4 DEF Machines, Queued
<1>11. Written'
  <2> SUFFICES ASSUME NEW d \in Capsules, cache[d] # Nil, mach'[d] # Nil
               PROVE  \/ heap[cache[d]].status = mach'[d]
                      \/ \E u \in Threads : thr'[u].cap = d /\ thr'[u].pc = "mutate" /\ thr'[u].cur
    BY <1>3 DEF Written
  <2>1. CASE d = c
    BY <2>1, <1>2, <1>4
  <2>2. CASE d # c
    BY <2>2, <1>4 DEF Machines, Written
  <2> QED  BY <2>1, <2>2
<1> QED  BY <1>7, <1>8, <1>9, <1>10, <1>11 DEF Machines

(* Store.Create: the row of a fresh ID, at "created", with no machine yet. *)
LEMMA CreateMachines ==
  ASSUME Inv, Machines, NEW t \in Threads, thr[t].pc = "idle", NEW c \in Capsules,
         c \notin born, NEW p \in Position, p.pc = "create_install", p.cap = c, ~p.cur,
         thr' = [thr EXCEPT ![t] = p], born' = born \cup {c}, mach' = mach,
         \A d \in Capsules : d # c => cache'[d] = cache[d],
         \A d \in Capsules : d # c /\ cache[d] # Nil =>
           heap'[cache[d]].status = heap[cache[d]].status,
         heap'[cache'[c]].status = "created"
  PROVE  Machines'
<1>1. thr'[t] = p /\ \A u \in Threads : u # t => thr'[u] = thr[u]
  BY DEF Inv, TypeOK
<1>2. \A u \in Threads : thr[u].pc # "idle" => thr[u].cap \in Capsules /\ thr[u].cap # c
  BY DEF Inv, Positions, Machines, Drawn
<1>3. mach[c] = Nil
  BY DEF Machines, Drawn
<1>4. Drawn'
  BY <1>1 DEF Machines, Drawn
<1>5. ASSUME NEW u \in Threads PROVE Following(u)'
  <2>1. CASE u = t
    BY <2>1, <1>1 DEF Following, LocalPcs
  <2>2. CASE u # t
    <3>1. thr'[u] = thr[u] /\ Following(u)
      BY <2>2, <1>1 DEF Machines
    <3> QED  BY <3>1, <1>2 DEF Following, LocalPcs
  <2> QED  BY <2>1, <2>2
<1>6. ASSUME NEW u \in Threads PROVE Creating(u)'
  <2>1. CASE u = t
    BY <2>1, <1>1, <1>2, <1>3 DEF Creating
  <2>2. CASE u # t
    <3>1. thr'[u] = thr[u] /\ Creating(u)
      BY <2>2, <1>1 DEF Machines
    <3> SUFFICES ASSUME thr[u].pc = "create_install" PROVE Creating(u)'
      BY <3>1 DEF Creating
    <3>2. thr[u].cap \in Capsules /\ thr[u].cap # c
      BY <1>2
    <3> QED  BY <3>1, <3>2, <1>1 DEF Creating
  <2> QED  BY <2>1, <2>2
<1>7. Queued'
  BY <1>1 DEF Machines, Queued
<1>8. Written'
  <2> SUFFICES ASSUME NEW d \in Capsules, cache'[d] # Nil, mach[d] # Nil
               PROVE  \/ heap'[cache'[d]].status = mach[d]
                      \/ \E u \in Threads : thr'[u].cap = d /\ thr'[u].pc = "mutate" /\ thr'[u].cur
    BY DEF Written
  <2>1. d # c /\ cache'[d] = cache[d]
    BY <1>3
  <2> QED  BY <2>1, <1>1 DEF Machines, Written
<1> QED  BY <1>4, <1>5, <1>6, <1>7, <1>8 DEF Machines

(* Orphan clears cur on the capsule's threads and nothing else. *)
LEMMA OrphanClears ==
  ASSUME NEW th \in [Threads -> Position], NEW c \in Capsules, NEW u \in Threads
  PROVE  /\ th[u].cap # c => Orphan(th, c)[u] = th[u]
         /\ th[u].cap = c => ~Orphan(th, c)[u].cur
  BY DEF Orphan, Position, Pos

(* A machine is installed for a row that is at "created", or dropped when the
   row is gone: the handlers that run on the capsule lose their machine. *)
LEMMA SwapMachines ==
  ASSUME Inv, Machines, NEW t \in Threads, NEW c \in Capsules, NEW m, NEW p \in Position,
         thr[t].cap = c, thr[t].pc \in {"create_install", "delete_drop"},
         p.pc \in {"idle", "create_announce"}, ~p.cur,
         p.pc # "idle" => p.cap = c,
         cache[c] # Nil => /\ heap[cache[c]].status = m
                           /\ \A u \in Threads \ {t} : thr[u].cap = c => thr[u].pc # "mutate",
         m # Nil => \A u \in Threads \ {t} : thr[u].cap = c => thr[u].pc # "create_install",
         thr' = [Orphan(thr, c) EXCEPT ![t] = p], mach' = [mach EXCEPT ![c] = m],
         UNCHANGED <<heap, cache, born>>
  PROVE  Machines'
<1>0. thr \in [Threads -> Position] /\ c \in born
  BY DEF Inv, TypeOK, Position, Machines, Drawn
<1> DEFINE th == Orphan(thr, c)
<1>1. /\ th \in [Threads -> Position]
      /\ \A u \in Threads :
           /\ th[u].pc = thr[u].pc /\ th[u].cap = thr[u].cap
           /\ th[u].obj = thr[u].obj /\ th[u].st = thr[u].st
           /\ thr[u].cap # c => th[u] = thr[u]
           /\ thr[u].cap = c => ~th[u].cur
  BY <1>0, OrphanKeeps, OrphanClears
<1> HIDE DEF th
<1>2. thr'[t] = p /\ \A u \in Threads : u # t => thr'[u] = th[u]
  BY <1>1 DEF th
<1>3. /\ mach'[c] = m /\ \A d \in Capsules : d # c => mach'[d] = mach[d]
      /\ heap' = heap /\ cache' = cache /\ born' = born
  BY DEF Inv, TypeOK
<1>4. \A u \in Threads : thr[u].pc # "idle" => thr[u].cap \in Capsules
  BY DEF Inv, Positions
<1>5. Drawn'
  BY <1>0, <1>1, <1>2, <1>3 DEF Machines, Drawn
<1>6. ASSUME NEW u \in Threads PROVE Following(u)'
  <2>1. CASE u = t
    BY <2>1, <1>2 DEF Following, LocalPcs
  <2>2. CASE u # t /\ thr[u].cap # c
    <3>1. thr'[u] = thr[u] /\ Following(u)
      BY <2>2, <1>1, <1>2 DEF Machines
    <3>2. thr[u].pc # "idle" => mach'[thr[u].cap] = mach[thr[u].cap]
      BY <2>2, <1>3, <1>4
    <3> QED  BY <3>1, <3>2, <1>3 DEF Following
  <2>3. CASE u # t /\ thr[u].cap = c
    <3>1. /\ Following(u) /\ thr'[u].pc = thr[u].pc /\ thr'[u].cap = c
          /\ thr'[u].obj = thr[u].obj /\ ~thr'[u].cur
      BY <2>3, <1>1, <1>2 DEF Machines
    <3>2. thr[u].pc = "mutate" => cache[c] = Nil
      BY <2>3
    <3> QED  BY <2>3, <3>1, <3>2, <1>3 DEF Following
  <2> QED  BY <2>1, <2>2, <2>3
<1>7. ASSUME NEW u \in Threads PROVE Creating(u)'
  <2>1. CASE u = t
    BY <2>1, <1>2 DEF Creating
  <2>2. CASE u # t
    <3>1. thr'[u].pc = thr[u].pc /\ thr'[u].cap = thr[u].cap /\ Creating(u)
      BY <2>2, <1>1, <1>2 DEF Machines
    <3> SUFFICES ASSUME thr[u].pc = "create_install" PROVE Creating(u)'
      BY <3>1 DEF Creating
    <3>2. mach'[thr[u].cap] = Nil
      <4>1. CASE thr[u].cap = c  BY <4>1, <2>2, <1>3
      <4>2. CASE thr[u].cap # c  BY <4>2, <3>1, <1>3, <1>4 DEF Creating
      <4> QED  BY <4>1, <4>2
    <3>3. \A v \in Threads : \/ thr'[v].pc = thr[v].pc /\ thr'[v].cap = thr[v].cap
                             \/ thr'[v].pc \notin {"mutate", "create_install"}
      BY <1>1, <1>2
    <3> QED  BY <3>1, <3>2, <3>3, <1>3 DEF Creating
  <2> QED  BY <2>1, <2>2
<1>8. Queued'
  <2>1. \A u \in Threads : thr'[u].cur => thr'[u] = thr[u]
    BY <1>1, <1>2
  <2> QED  BY <2>1 DEF Machines, Queued
<1>9. Written'
  <2> SUFFICES ASSUME NEW d \in Capsules, cache[d] # Nil, mach'[d] # Nil
               PROVE  \/ heap[cache[d]].status = mach'[d]
                      \/ \E u \in Threads : thr'[u].cap = d /\ thr'[u].pc = "mutate" /\ thr'[u].cur
    BY <1>3 DEF Written
  <2>1. CASE d = c
    BY <2>1, <1>3
  <2>2. CASE d # c
    <3>1. \A u \in Threads : thr[u].cap = d => thr'[u] = thr[u]
      BY <2>2, <1>1, <1>2
    <3> QED  BY <2>2, <3>1, <1>3 DEF Machines, Written
  <2> QED  BY <2>1, <2>2
<1> QED  BY <1>5, <1>6, <1>7, <1>8, <1>9 DEF Machines

(* Delete: the row goes, and the thread goes on to drop the machine. *)
LEMMA DeleteMachines ==
  ASSUME Inv, Machines, NEW t \in Threads, thr[t].pc = "idle", NEW c \in Capsules,
         cache[c] # Nil, NEW p \in Position, p.pc = "delete_drop", p.cap = c, ~p.cur,
         thr' = [thr EXCEPT ![t] = p], cache' = [cache EXCEPT ![c] = Nil],
         UNCHANGED <<mach, born>>,
         \A d \in Capsules : cache'[d] # Nil => heap'[cache'[d]] = heap[cache'[d]]
  PROVE  Machines'
<1>1. /\ thr'[t] = p /\ \A u \in Threads : u # t => thr'[u] = thr[u]
      /\ cache'[c] = Nil /\ \A d \in Capsules : d # c => cache'[d] = cache[d]
      /\ mach' = mach /\ born' = born
  BY DEF Inv, TypeOK
<1>2. \A u \in Threads : thr[u].pc # "idle" => thr[u].cap \in Capsules
  BY DEF Inv, Positions
<1>3. c \in born
  BY DEF Machines, Drawn
<1>4. Drawn'
  BY <1>1, <1>3 DEF Machines, Drawn
<1>5. ASSUME NEW u \in Threads PROVE Following(u)'
  <2>1. CASE u = t
    BY <2>1, <1>1 DEF Following, LocalPcs
  <2>2. CASE u # t
    <3>1. thr'[u] = thr[u] /\ Following(u)
      BY <2>2, <1>1 DEF Machines
    <3>2. thr[u].pc # "idle" => cache'[thr[u].cap] \in {Nil, cache[thr[u].cap]}
      BY <1>1, <1>2
    <3> QED  BY <3>1, <3>2, <1>1 DEF Following
  <2> QED  BY <2>1, <2>2
<1>6. ASSUME NEW u \in Threads PROVE Creating(u)'
  <2>1. CASE u = t
    BY <2>1, <1>1 DEF Creating
  <2>2. CASE u # t
    <3>1. thr'[u] = thr[u] /\ Creating(u)
      BY <2>2, <1>1 DEF Machines
    <3> SUFFICES ASSUME thr[u].pc = "create_install" PROVE Creating(u)'
      BY <3>1 DEF Creating
    <3>2. cache'[thr[u].cap] # Nil =>
            heap'[cache'[thr[u].cap]].status = "created"
      BY <3>1, <1>1, <1>2 DEF Creating
    <3> QED  BY <3>1, <3>2, <1>1 DEF Creating
  <2> QED  BY <2>1, <2>2
<1>7. Queued'
  BY <1>1 DEF Machines, Queued
<1>8. Written'
  <2> SUFFICES ASSUME NEW d \in Capsules, cache'[d] # Nil, mach[d] # Nil
               PROVE  \/ heap'[cache'[d]].status = mach[d]
                      \/ \E u \in Threads : thr'[u].cap = d /\ thr'[u].pc = "mutate" /\ thr'[u].cur
    BY <1>1 DEF Written
  <2>1. d # c /\ cache'[d] = cache[d] /\ heap'[cache[d]] = heap[cache[d]]
    BY <1>1
  <2> QED  BY <2>1, <1>1 DEF Machines, Written
<1> QED  BY <1>4, <1>5, <1>6, <1>7, <1>8 DEF Machines

(* What a change in place of the object of c leaves of the other objects. *)
LEMMA CollectStatus ==
  ASSUME Inv, NEW c \in Capsules, cache[c] # Nil, NEW r \in Rows, NEW th,
         heap' = Collect([heap EXCEPT ![cache[c]] = r], cache, th)
  PROVE  /\ heap'[cache[c]] = r
         /\ \A d \in Capsules : d # c /\ cache[d] # Nil => heap'[cache[d]] = heap[cache[d]]
<1> DEFINE h == [heap EXCEPT ![cache[c]] = r]
<1>1. /\ heap \in [Objs -> Rows] /\ cache \in [Capsules -> Objs \cup {Nil}]
      /\ cache[c] \in Objs
  BY DEF Inv, TypeOK
<1>2. h \in [Objs -> Rows] /\ h[cache[c]] = r
      /\ \A o \in Objs : o # cache[c] => h[o] = heap[o]
  BY <1>1
<1>3. heap' = Collect(h, cache, th)  OBVIOUS
<1> HIDE DEF h
<1>4. \A d \in Capsules : cache[d] \in Objs => heap'[cache[d]] = h[cache[d]]
  BY <1>2, <1>3, CollectKeeps
<1>5. \A d \in Capsules : d # c /\ cache[d] \in Objs => cache[d] # cache[c]
  BY <1>1 DEF Inv, Owned
<1> QED  BY <1>1, <1>2, <1>4, <1>5

(* Each local step keeps the stored status with the machine. *)
LEMMA StepMachines ==
  ASSUME MeshRows = {}, Mirrored = {}, Inv, Machines, NEW t \in Threads, Step(t)
  PROVE  Machines'
<1> USE ManagerAssumption
<1>0. /\ heap \in [Objs -> Rows] /\ cache \in [Capsules -> Objs \cup {Nil}]
      /\ thr \in [Threads -> Position]
      /\ Idle \in Position /\ Idle.pc = "idle" /\ Idle.cur = FALSE
      /\ thr[t].pc \in LocalPcs
      /\ thr[t].pc # "idle" => thr[t].cap \in Capsules
      /\ \A c \in Capsules : cache[c] # Nil => c \in born
  BY DEF Inv, TypeOK, Position, Idle, Pos, Pcs, Positions, Machines, Following, Drawn
<1>a. ASSUME NEW c \in Capsules, NEW r \in Rows, cache[c] # Nil,
             r.status = heap[cache[c]].status, thr[t].pc = "idle",
             thr' = [thr EXCEPT ![t] = Pos("put", c, cache[c], Nil, FALSE)],
             heap' = Collect([heap EXCEPT ![cache[c]] = r], cache, thr'),
             UNCHANGED <<cache, mach, born>>
      PROVE  Machines'
  <2> DEFINE p == Pos("put", c, cache[c], Nil, FALSE)
  <2>1. /\ p \in Position /\ p.pc = "put" /\ p.cap = c /\ p.obj = cache[c]
        /\ p.cur = FALSE /\ c \in born
    BY <1>0, <1>a DEF Pos, Position, Pcs, PutPcs
  <2>2. \A d \in Capsules : cache[d] # Nil => heap'[cache[d]].status = heap[cache[d]].status
    BY <1>a, CollectStatus
  <2>3. thr' = [thr EXCEPT ![t] = p]  BY <1>a
  <2> HIDE DEF p
  <2> QED  BY <1>a, <2>1, <2>2, <2>3, PassMachines
<1>b. ASSUME thr' = [thr EXCEPT ![t] = Idle], UNCHANGED <<cache, mach, born>>,
             heap' = Collect(heap, cache, thr'),
             thr[t].pc = "mutate" => cache[thr[t].cap] = Nil
      PROVE  Machines'
  <2>1. \A d \in Capsules : cache[d] # Nil => heap'[cache[d]].status = heap[cache[d]].status
    BY <1>0, <1>b, CollectKeeps
  <2> QED  BY <1>0, <1>b, <2>1, PassMachines
<1>1. ASSUME NEW c \in Capsules, NEW sp \in Specs, CreateStore(t, c, sp)
      PROVE  Machines'
  <2> DEFINE row == [id |-> c, status |-> "created", spec |-> sp,
                     replicas |-> [s \in Slots |-> Nil]]
             p == Pos("create_install", c, Nil, Nil, FALSE)
  <2>1. /\ row \in Rows /\ row.status = "created" /\ p \in Position
        /\ p.cap = c /\ p.pc = "create_install" /\ p.cur = FALSE
    BY DEF Rows, Stored, Statuses, Pos, Position, Pcs
  <2>2. PICK o \in Objs \ Live(cache, thr) :
          \/ /\ cache' = [cache EXCEPT ![c] = o] /\ thr' = [thr EXCEPT ![t] = p]
             /\ heap' = Collect([heap EXCEPT ![o] = row], cache', thr')
          \/ UNCHANGED <<cache, thr, heap>>
    BY <1>1 DEF CreateStore, Goto
  <2>3. /\ thr[t].pc = "idle" /\ c \notin born /\ born' = born \cup {c} /\ mach' = mach
        /\ \A d \in Capsules : cache[d] # o
    BY <1>1, <2>2 DEF CreateStore, At, Live
  <2> HIDE DEF row, p
  <2>4. CASE UNCHANGED <<cache, thr, heap>>
    BY <2>3, <2>4 DEF Machines, Drawn, Following, Creating, Queued, Written
  <2>5. CASE /\ cache' = [cache EXCEPT ![c] = o] /\ thr' = [thr EXCEPT ![t] = p]
             /\ heap' = Collect([heap EXCEPT ![o] = row], cache', thr')
    <3> DEFINE h == [heap EXCEPT ![o] = row]
    <3>1. /\ h \in [Objs -> Rows] /\ h[o] = row
          /\ \A x \in Objs : x # o => h[x] = heap[x]
          /\ cache'[c] = o /\ \A d \in Capsules : d # c => cache'[d] = cache[d]
      BY <1>0, <2>1, <2>5
    <3>2. heap' = Collect(h, cache', thr')  BY <2>5
    <3> HIDE DEF h
    <3>3. \A d \in Capsules : cache'[d] \in Objs => heap'[cache'[d]] = h[cache'[d]]
      BY <3>1, <3>2, CollectKeeps
    <3>4. heap'[cache'[c]].status = "created"
      BY <3>1, <3>3, <2>1
    <3>5. \A d \in Capsules : d # c /\ cache[d] # Nil =>
            heap'[cache[d]].status = heap[cache[d]].status
      BY <1>0, <2>3, <3>1, <3>3
    <3> QED  BY <2>1, <2>3, <2>5, <3>1, <3>4, <3>5, CreateMachines
  <2> QED  BY <2>2, <2>4, <2>5
<1>2. ASSUME NEW c \in Capsules, NEW sp \in Specs, Update(t, c, sp)
      PROVE  Machines'
  <2>1. cache[c] \in Objs /\ heap[cache[c]] \in Rows
    BY <1>2, <1>0 DEF Update
  <2> DEFINE r == WithSpec(heap[cache[c]], sp)
  <2>2. r \in Rows /\ r.status = heap[cache[c]].status
    BY <2>1 DEF WithSpec, Rows, Stored
  <2>3. heap' = Collect([heap EXCEPT ![cache[c]] = r], cache, thr')
    BY <1>2, <1>0, <2>1 DEF Update
  <2> HIDE DEF r
  <2> QED  BY <1>2, <1>a, <2>2, <2>3 DEF Update, At, Goto
<1>3. ASSUME NEW c \in Capsules, NEW s \in Slots, NEW n \in Nodes,
             AssignReplica(t, c, s, n)
      PROVE  Machines'
  <2>1. cache[c] \in Objs /\ heap[cache[c]] \in Rows
    BY <1>3, <1>0 DEF AssignReplica
  <2> DEFINE r == WithReplica(heap[cache[c]], s, n)
  <2>2. r \in Rows /\ r.status = heap[cache[c]].status
    BY <2>1 DEF WithReplica, Rows, Stored
  <2>3. heap' = Collect([heap EXCEPT ![cache[c]] = r], cache, thr')
    BY <1>3, <1>0, <2>1 DEF AssignReplica
  <2> HIDE DEF r
  <2> QED  BY <1>3, <1>a, <2>2, <2>3 DEF AssignReplica, At, Goto
<1>4. ASSUME NEW c \in Capsules, NEW trigger \in Triggers, Fire(t, c, trigger)
      PROVE  Machines'
  BY <1>4, FireMachines DEF Fire, At
<1>5. CASE CreateAnnounce(t)
  <2>1. thr[t].pc = "create_announce" /\ thr[t].cap \in Capsules
    BY <1>5, <1>0 DEF CreateAnnounce, At
  <2>2. CASE MachineFire(t, thr[t].cap, "announce")
    BY <2>1, <2>2, FireMachines
  <2>3. CASE Goto(t, Idle) /\ UNCHANGED <<heap, cache, db, mach, born, failed>>
    BY <1>0, <2>1, <2>3, PassMachines DEF Goto
  <2> QED  BY <1>5, <2>2, <2>3 DEF CreateAnnounce
<1>6. CASE CreateInstall(t)
  <2> DEFINE c == thr[t].cap
             p == Pos("create_announce", c, Nil, Nil, FALSE)
  <2>1. c \in Capsules /\ thr[t].pc = "create_install"
    BY <1>6, <1>0 DEF CreateInstall, At
  <2>2. p \in Position /\ p.pc = "create_announce" /\ p.cap = c /\ p.cur = FALSE
    BY <2>1 DEF Pos, Position, Pcs
  <2>3. /\ cache[c] # Nil => heap[cache[c]].status = "created"
        /\ \A u \in Threads \ {t} : thr[u].cap = c =>
             thr[u].pc # "mutate" /\ thr[u].pc # "create_install"
    BY <2>1 DEF Machines, Creating
  <2>4. /\ thr' = [Orphan(thr, c) EXCEPT ![t] = p]
        /\ mach' = [mach EXCEPT ![c] = "created"]
        /\ UNCHANGED <<heap, cache, born>>
    BY <1>6 DEF CreateInstall
  <2> HIDE DEF p
  <2> QED  BY <2>1, <2>2, <2>3, <2>4, SwapMachines
<1>7. CASE DeleteDrop(t)
  <2> DEFINE c == thr[t].cap
  <2>1. c \in Capsules /\ thr[t].pc = "delete_drop"
    BY <1>7, <1>0 DEF DeleteDrop, At
  <2>2. cache[c] = Nil
    BY <2>1 DEF Machines, Following
  <2>3. /\ thr' = [Orphan(thr, c) EXCEPT ![t] = Idle]
        /\ mach' = [mach EXCEPT ![c] = Nil]
        /\ UNCHANGED <<heap, cache, born>>
    BY <1>7 DEF DeleteDrop
  <2> QED  BY <1>0, <2>1, <2>2, <2>3, SwapMachines
<1>8. CASE TransitionMutate(t)
  <2> DEFINE c == thr[t].cap
             o == cache[c]
  <2>1. c \in Capsules /\ thr[t].st \in Statuses /\ thr[t].pc = "mutate"
        /\ UNCHANGED <<cache, mach, born>>
    BY <1>8, <1>0 DEF TransitionMutate, At, Inv, Positions
  <2>2. CASE o = Nil /\ Goto(t, Idle) /\ heap' = Collect(heap, cache, thr')
    BY <2>1, <2>2, <1>b DEF Goto
  <2>3. CASE /\ o # Nil
             /\ Goto(t, Pos("put", c, o, thr[t].st, thr[t].cur))
             /\ heap' = Collect([heap EXCEPT ![o] = WithStatus(@, thr[t].st)], cache, thr')
    <3> DEFINE p == Pos("put", c, o, thr[t].st, thr[t].cur)
               r == WithStatus(heap[o], thr[t].st)
    <3>1. p \in Position /\ p.pc = "put" /\ p.cap = c /\ p.obj = cache[c]
      BY <1>0, <2>1 DEF Pos, Position, Pcs, PutPcs
    <3>2. o \in Objs /\ heap[o] \in Rows
      BY <1>0, <2>1, <2>3
    <3>3. r \in Rows /\ r.status = thr[t].st
      BY <2>1, <3>2 DEF WithStatus, Rows, Stored
    <3>4. /\ thr' = [thr EXCEPT ![t] = p] /\ cache[c] # Nil
          /\ heap' = Collect([heap EXCEPT ![cache[c]] = r], cache, thr')
      BY <1>0, <2>3, <3>2 DEF Goto
    <3> HIDE DEF p, r
    <3>5. /\ heap'[cache[c]] = r
          /\ \A d \in Capsules : d # c /\ cache[d] # Nil => heap'[cache[d]] = heap[cache[d]]
      BY <2>1, <3>3, <3>4, CollectStatus
    <3>6. /\ heap'[cache[c]].status = thr[t].st
          /\ \A d \in Capsules : cache[d] # Nil /\ d # c =>
               heap'[cache[d]].status = heap[cache[d]].status
      BY <3>3, <3>5
    <3> QED  BY <2>1, <3>1, <3>4, <3>6, WriteMachines
  <2> QED  BY <1>8, <2>2, <2>3 DEF TransitionMutate
<1>9. CASE Put(t)
  <2>1. /\ thr[t].pc = "put" /\ thr[t].cap \in Capsules
        /\ cache[thr[t].cap] \in {Nil, thr[t].obj}
    BY <1>9, <1>0 DEF Put, At, Machines, Following
  <2>2. cache' = cache /\ thr' = [thr EXCEPT ![t] = Idle]
    BY <1>0, <1>9, <2>1 DEF Put, StoreUpdate, Goto
  <2>3. heap' = Collect(heap, cache, thr') /\ UNCHANGED <<cache, mach, born>>
    BY <1>9, <2>2 DEF Put
  <2> QED  BY <1>b, <2>1, <2>2, <2>3
<1>10. ASSUME NEW c \in Capsules, Delete(t, c) PROVE Machines'
  <2> DEFINE p == Pos("delete_drop", c, Nil, Nil, FALSE)
  <2>1. p \in Position /\ p.pc = "delete_drop" /\ p.cap = c /\ p.cur = FALSE
    BY DEF Pos, Position, Pcs
  <2>2. /\ thr[t].pc = "idle" /\ cache[c] # Nil
        /\ cache' = [cache EXCEPT ![c] = Nil] /\ thr' = [thr EXCEPT ![t] = p]
        /\ heap' = Collect(heap, cache', thr') /\ UNCHANGED <<mach, born>>
    BY <1>10 DEF Delete, Goto, At
  <2>3. \A d \in Capsules : cache'[d] # Nil => cache'[d] \in Objs
    BY <1>0, <2>2
  <2>4. \A d \in Capsules : cache'[d] # Nil => heap'[cache'[d]] = heap[cache'[d]]
    <3>1. heap \in [Objs -> Rows] /\ heap' = Collect(heap, cache', thr')
      BY <1>0, <2>2
    <3>2. \A d \in Capsules : cache'[d] \in Objs => heap'[cache'[d]] = heap[cache'[d]]
      BY <3>1, CollectKeeps
    <3> QED  BY <2>3, <3>2
  <2> HIDE DEF p
  <2> QED  BY <2>1, <2>2, <2>4, DeleteMachines
<1>11. CASE SyncPut(t) \/ Install(t) \/ ReceivePut(t) \/ ReceiveCreate(t)
  BY <1>0, <1>11 DEF SyncPut, Install, ReceivePut, ReceiveCreate, At, LocalPcs
<1> QED  BY <1>1, <1>2, <1>3, <1>4, <1>5, <1>6, <1>7, <1>8, <1>9, <1>10, <1>11 DEF Step

(* NewManager builds every machine at the status that was persisted. *)
LEMMA RestartMachines == ASSUME Inv, Machines, Restart PROVE Machines'
<1> USE ManagerAssumption
<1>1. PICK place \in [Capsules -> Objs] :
        /\ \A c, d \in Capsules : place[c] = place[d] => c = d
        /\ cache' = [c \in Capsules |-> IF db[c] = Nil THEN Nil ELSE place[c]]
        /\ heap' = [o \in Objs |->
                      IF \E c \in Capsules : cache'[c] = o
                      THEN db[CHOOSE c \in Capsules : cache'[c] = o] ELSE Blank]
  BY DEF Restart
<1>2. /\ mach' = [c \in Capsules |-> IF db[c] = Nil THEN Nil ELSE db[c].status]
      /\ thr' = [t \in Threads |-> Idle] /\ born' = born
  BY DEF Restart
<1>3. \A t \in Threads : thr'[t].pc = "idle" /\ ~thr'[t].cur
  BY <1>2 DEF Idle, Pos
<1>4. \A c \in Capsules : cache'[c] # Nil => heap'[cache'[c]] = db[c] /\ db[c] # Nil
  <2> SUFFICES ASSUME NEW c \in Capsules, cache'[c] # Nil
               PROVE  heap'[cache'[c]] = db[c] /\ db[c] # Nil
    OBVIOUS
  <2>1. db[c] # Nil /\ cache'[c] = place[c]  BY <1>1
  <2> DEFINE e == CHOOSE d \in Capsules : cache'[d] = place[c]
  <2>2. e \in Capsules /\ cache'[e] = place[c]  BY <2>1
  <2>3. heap'[place[c]] = db[e]  BY <1>1, <2>1
  <2> HIDE DEF e
  <2>4. db[e] # Nil /\ cache'[e] = place[e]  BY <1>1, <2>2
  <2>5. e = c  BY <1>1, <2>2, <2>4
  <2> QED  BY <2>1, <2>3, <2>5
<1>5. Drawn'
  <2>1. \A c \in Capsules \ born : db[c] = Nil
    BY DEF Inv, Agree, Machines, Drawn
  <2> QED  BY <1>1, <1>2, <1>3, <2>1 DEF Drawn
<1>6. ASSUME NEW t \in Threads PROVE Following(t)' /\ Creating(t)'
  BY <1>3 DEF Following, Creating, LocalPcs
<1>7. Queued'
  BY <1>3 DEF Queued
<1>8. Written'
  BY <1>2, <1>4 DEF Written
<1> QED  BY <1>5, <1>6, <1>7, <1>8 DEF Machines

(* The machine "drives status updates" (manager.go:54).  On a node that is
   sent no capsule and mirrors no status, the stored status of a capsule that
   no method is working on is the state of its machine, for any number of
   capsules and callers, with failing writes and restarts. *)
THEOREM StatusFollowsMachine ==
  ASSUME MeshRows = {}, Mirrored = {}
  PROVE  Spec => []StatusIsMachineState
<1>1. Inv /\ Machines /\ [Next]_vars => Machines'
  <2> SUFFICES ASSUME Inv, Machines, [Next]_vars PROVE Machines'
    OBVIOUS
  <2>1. ASSUME NEW t \in Threads, Step(t) PROVE Machines'
    BY <2>1, StepMachines
  <2>2. CASE Restart
    BY <2>2, RestartMachines
  <2>3. CASE UNCHANGED vars
    BY <2>3 DEF vars, Machines, Drawn, Following, Creating, Queued, Written
  <2> QED  BY <2>1, <2>2, <2>3 DEF Next
<1>2. Machines => StatusIsMachineState
  BY DEF Machines, Written, StatusIsMachineState, Quiet
<1> QED  BY <1>1, <1>2, InitMachines, Invariance, PTL DEF Spec
=============================================================================
