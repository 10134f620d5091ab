----------------------------- MODULE SyncProofs -----------------------------
(***************************************************************************)
(* Proofs about Sync for every set of nodes and goroutines, every removal  *)
(* threshold and every set of watched rows: its type invariant, and that   *)
(* the syncer decides to drop a peer only when its failures in a row reach *)
(* the threshold.  Liveness (RevocationsSpread) is left to TLC.            *)
(***************************************************************************)
EXTENDS Sync, TLAPS

(* NoEarlyRemoval is about a step.  What it needs of the state before it: an
   entry counts no more failures than there were in a row, as far as these
   are counted.  It may count fewer, as every merge and every admission writes
   the row anew. *)
Backed(w) ==
  book[w[1]][w[2]] # Nil => book[w[1]][w[2]] <= streak[w] \/ streak[w] = RemoveAt

Counts == \A w \in Watched : Backed(w)

(* A goroutine about to remove a watched peer saw the threshold reached. *)
Decided(t) ==
  task[t] # Nil /\ task[t].at = "remove" /\ <<t[1], task[t].peer>> \in Watched =>
    task[t].seen = RemoveAt

Decisions == \A t \in Threads : Decided(t)

Inv == TypeOK /\ Counts /\ Decisions

-----------------------------------------------------------------------------
(* What thread and row are. *)
LEMMA ThreadOf ==
  ASSUME NEW t \in Threads
  PROVE  t[1] \in Nodes
  BY SyncAssumption

LEMMA RowOf ==
  ASSUME NEW w \in Watched
  PROVE  w[1] \in Nodes /\ w[2] \in Nodes /\ w = <<w[1], w[2]>>
  BY SyncAssumption

(* A stage is a task. *)
LEMMA AtTyped ==
  ASSUME NEW stage \in {"dial", "check", "remove", "rows", "resp"}, NEW p \in Nodes
  PROVE  /\ At(stage, p) \in Task
         /\ At(stage, p).at = stage /\ At(stage, p).peer = p
  BY SyncAssumption DEF At, Task

(* One task changes: the others are decided as before. *)
LEMMA TaskStep ==
  ASSUME Inv, NEW t \in Threads, NEW x \in Task \cup {Nil},
         task' = [task EXCEPT ![t] = x],
         x # Nil /\ x.at = "remove" /\ <<t[1], x.peer>> \in Watched => x.seen = RemoveAt
  PROVE  task' \in [Threads -> Task \cup {Nil}] /\ Decisions'
<1>1. task \in [Threads -> Task \cup {Nil}]
  BY DEF Inv, TypeOK
<1>2. task' \in [Threads -> Task \cup {Nil}]
  BY <1>1
<1>3. ASSUME NEW u \in Threads
      PROVE  Decided(u)'
  <2>1. CASE u = t
    <3>1. task'[u] = x
      BY <1>1, <2>1
    <3> QED
      BY <2>1, <3>1 DEF Decided
  <2>2. CASE u # t
    <3>1. task'[u] = task[u] /\ Decided(u)
      BY <1>1, <2>2 DEF Inv, Decisions
    <3> QED
      BY <3>1 DEF Decided
  <2> QED
    BY <2>1, <2>2
<1> QED
  BY <1>2, <1>3 DEF Decisions

(* Rows that are written anew, or not at all, count no more than before. *)
LEMMA RowsAnew ==
  ASSUME Inv, UNCHANGED streak,
         \A m, z \in Nodes : book'[m][z] \in {book[m][z], 0, Nil}
  PROVE  Counts'
<1> SUFFICES ASSUME NEW w \in Watched PROVE Backed(w)'
  BY DEF Counts
<1>1. w[1] \in Nodes /\ w[2] \in Nodes /\ streak[w] \in Nat /\ streak'[w] = streak[w]
  BY RowOf, SyncAssumption DEF Inv, TypeOK
<1>2. Backed(w)
  BY DEF Inv, Counts
<1>3. book'[w[1]][w[2]] = book[w[1]][w[2]] \/ book'[w[1]][w[2]] = 0 \/ book'[w[1]][w[2]] = Nil
  BY <1>1
<1>4. CASE book'[w[1]][w[2]] = book[w[1]][w[2]]
  BY <1>1, <1>2, <1>4 DEF Backed
<1>5. CASE book'[w[1]][w[2]] = 0
  BY <1>1, <1>5 DEF Backed
<1>6. CASE book'[w[1]][w[2]] = Nil
  BY <1>6 DEF Backed
<1> QED
  BY <1>3, <1>4, <1>5, <1>6

(* One entry of one phonebook changes. *)
LEMMA PutTyped ==
  ASSUME TypeOK, NEW n \in Nodes, NEW p \in Nodes,
         NEW x \in Nat \cup {Nil}, book' = [book EXCEPT ![n][p] = x]
  PROVE  /\ book' \in [Nodes -> [Nodes -> Nat \cup {Nil}]]
         /\ \A m, z \in Nodes : book'[m][z] = IF m = n /\ z = p THEN x ELSE book[m][z]
<1>1. book \in [Nodes -> [Nodes -> Nat \cup {Nil}]]
  BY DEF TypeOK
<1> QED
  BY <1>1

-----------------------------------------------------------------------------
(* The initial state. *)
LEMMA InitInv == Init => Inv
<1> SUFFICES ASSUME Init PROVE Inv
  OBVIOUS
<1>1. TypeOK
  <2>1. book \in [Nodes -> [Nodes -> Nat \cup {Nil}]]
    BY DEF Init
  <2>2. voucher \in [Nodes -> Nodes \cup {Nil, "gone"}]
    BY SyncAssumption DEF Init
  <2>3. streak \in [Watched -> 0 .. RemoveAt] /\ faults \in 0 .. MaxFaults
    BY SyncAssumption DEF Init
  <2>4. /\ task \in [Threads -> Task \cup {Nil}]
        /\ rev \subseteq Nodes /\ down \subseteq Nodes /\ asked \subseteq Nodes
    BY DEF Init
  <2> QED
    BY <2>1, <2>2, <2>3, <2>4 DEF TypeOK
<1>2. Counts
  BY RowOf DEF Init, Counts, Backed
<1>3. Decisions
  BY DEF Init, Decisions, Decided
<1> QED
  BY <1>1, <1>2, <1>3 DEF Inv

(* Steps that leave the goroutines alone leave their decisions alone. *)
LEMMA DecisionsKept ==
  ASSUME Decisions, UNCHANGED task
  PROVE  Decisions'
  BY DEF Decisions, Decided

(* An admission writes rows with no failures. *)
LEMMA AdmitInv ==
  ASSUME Inv, NEW n \in Nodes, NEW v \in Nodes,
         NEW heard \in SUBSET Listeners(n, v), Admit(n, v, heard),
         UNCHANGED <<rev, task, down, faults, streak>>
  PROVE  Inv'
<1> DEFINE R == {<<m, n>> : m \in heard \cup {v}}
                  \cup {<<n, z>> : z \in ({v} \cup Known(v)) \ {n}}
<1>1. /\ book' = [m \in Nodes |-> [z \in Nodes |->
                    IF <<m, z>> \in R THEN NewEntry ELSE book[m][z]]]
      /\ voucher' = [voucher EXCEPT ![n] = v]
      /\ asked' = asked \cup {n}
  BY DEF Admit
<1> HIDE DEF R
<1>2. \A m, z \in Nodes : book'[m][z] \in {book[m][z], 0, Nil}
  BY <1>1 DEF NewEntry
<1>3. book' \in [Nodes -> [Nodes -> Nat \cup {Nil}]]
  BY <1>1 DEF NewEntry, Inv, TypeOK
<1>4. TypeOK'
  BY <1>1, <1>3 DEF Inv, TypeOK
<1> QED
  BY <1>2, <1>4, RowsAnew, DecisionsKept DEF Inv

(* Joining, and losing or renewing a session. *)
LEMMA SessionInv ==
  ASSUME Inv, NEW n \in Nodes, SessionStale(n) \/ \E v \in Nodes : Join(n, v)
  PROVE  Inv'
<1>1. ASSUME NEW v \in Nodes, Join(n, v)
      PROVE  Inv'
  BY <1>1, AdmitInv DEF Join
<1>2. CASE SessionStale(n)
  <2>1. CASE Reach(n, voucher[n])
    <3>1. voucher[n] \in Nodes
      BY <1>2 DEF SessionStale
    <3> QED
      BY <1>2, <2>1, <3>1, AdmitInv DEF SessionStale
  <2>2. CASE ~Reach(n, voucher[n])
    <3>1. TypeOK'
      BY <1>2, <2>2 DEF SessionStale, Inv, TypeOK
    <3>2. Counts' /\ Decisions'
      BY <1>2, <2>2, DecisionsKept DEF SessionStale, Inv, Counts, Backed
    <3> QED
      BY <3>1, <3>2 DEF Inv
  <2> QED
    BY <2>1, <2>2
<1> QED
  BY <1>1, <1>2

(* Revocations, cuts and the monitor. *)
LEMMA FaultInv ==
  ASSUME Inv, NEW n \in Nodes,
         Revoke(n) \/ Cut(n) \/ Heal(n) \/ \E z \in Nodes : MonitorRemoves(n, z)
  PROVE  Inv'
<1>1. CASE Revoke(n)
  <2>1. rev' \subseteq Nodes /\ faults' \in 0 .. MaxFaults
    BY <1>1, SyncAssumption DEF Revoke, Inv, TypeOK
  <2>2. TypeOK'
    BY <1>1, <2>1 DEF Revoke, Inv, TypeOK
  <2> QED
    BY <1>1, <2>2, DecisionsKept DEF Revoke, Inv, Counts, Backed
<1>2. CASE Cut(n)
  <2>1. faults' \in 0 .. MaxFaults
    BY <1>2, SyncAssumption DEF Cut, Inv, TypeOK
  <2>2. TypeOK'
    BY <1>2, <2>1 DEF Cut, Inv, TypeOK
  <2> QED
    BY <1>2, <2>2, DecisionsKept DEF Cut, Inv, Counts, Backed
<1>3. CASE Heal(n)
  <2>1. TypeOK'
    BY <1>3 DEF Heal, Inv, TypeOK
  <2> QED
    BY <1>3, <2>1, DecisionsKept DEF Heal, Inv, Counts, Backed
<1>4. ASSUME NEW z \in Nodes, MonitorRemoves(n, z)
      PROVE  Inv'
  <2>1. faults' \in 0 .. MaxFaults
    BY <1>4, SyncAssumption DEF MonitorRemoves, Inv, TypeOK
  <2>2. /\ book' \in [Nodes -> [Nodes -> Nat \cup {Nil}]]
        /\ \A m, y \in Nodes : book'[m][y] = IF m = n /\ y = z THEN Nil ELSE book[m][y]
    <3>1. book' = [book EXCEPT ![n][z] = Nil] /\ TypeOK /\ Nil \in Nat \cup {Nil}
      BY <1>4 DEF MonitorRemoves, Inv
    <3> QED
      BY <3>1, PutTyped
  <2>3. TypeOK'
    BY <1>4, <2>1, <2>2 DEF MonitorRemoves, Inv, TypeOK
  <2>4. Counts'
    <3>1. \A m, y \in Nodes : book'[m][y] \in {book[m][y], 0, Nil}
      BY <2>2
    <3> QED
      BY <1>4, <3>1, RowsAnew DEF MonitorRemoves
  <2> QED
    BY <1>4, <2>3, <2>4, DecisionsKept DEF MonitorRemoves, Inv
<1> QED
  BY <1>1, <1>2, <1>3, <1>4

-----------------------------------------------------------------------------
(* A goroutine that is at work has a peer. *)
LEMMA PeerOf ==
  ASSUME Inv, NEW t \in Threads, task[t] # Nil
  PROVE  task[t] \in Task /\ task[t].peer \in Nodes /\ t[1] \in Nodes
<1>1. task[t] \in Task
  BY DEF Inv, TypeOK
<1> QED
  BY <1>1, ThreadOf DEF Task

(* A candidate is dialled. *)
LEMMA DialInv ==
  ASSUME Inv, NEW t \in Threads, NEW p \in Nodes, Dial(t, p)
  PROVE  Inv'
<1>1. At("dial", p) \in Task \cup {Nil} /\ At("dial", p).at = "dial"
  BY AtTyped
<1>2. task' = [task EXCEPT ![t] = At("dial", p)]
  BY DEF Dial
<1>3. task' \in [Threads -> Task \cup {Nil}] /\ Decisions'
  BY <1>1, <1>2, TaskStep
<1>4. asked' \subseteq Nodes
  BY DEF Dial, Inv, TypeOK
<1>5. TypeOK'
  BY <1>3, <1>4 DEF Dial, Inv, TypeOK
<1> QED
  BY <1>3, <1>5 DEF Dial, Inv, Counts, Backed

(* A failed connection: one more in the entry, if there is one, and one more
   in a row. *)
LEMMA ConnectionFailsInv ==
  ASSUME Inv, NEW t \in Threads, ConnectionFails(t)
  PROVE  Inv'
<1> DEFINE n == t[1]
           p == task[t].peer
           x == FailedEntry(book[n][p])
<1>1. n \in Nodes /\ p \in Nodes
  BY PeerOf DEF ConnectionFails
<1>2. /\ book' = [book EXCEPT ![n][p] = FailedEntry(@)]
      /\ task' = [task EXCEPT ![t] = At("check", p)]
      /\ streak' = [w \in Watched |-> IF w = <<n, p>> /\ streak[w] < RemoveAt
                                      THEN streak[w] + 1 ELSE streak[w]]
      /\ UNCHANGED <<voucher, rev, asked, down, faults>>
  BY DEF ConnectionFails
<1>3. book[n][p] \in Nat \cup {Nil}
  BY <1>1 DEF Inv, TypeOK
<1>4. x \in Nat \cup {Nil}
  BY <1>3 DEF FailedEntry
<1>5. book' = [book EXCEPT ![n][p] = x]
  BY <1>1, <1>2 DEF Inv, TypeOK
<1> HIDE DEF n, p, x
<1>6. /\ book' \in [Nodes -> [Nodes -> Nat \cup {Nil}]]
      /\ \A m, z \in Nodes : book'[m][z] = IF m = n /\ z = p THEN x ELSE book[m][z]
  BY <1>1, <1>4, <1>5, PutTyped DEF Inv
<1>7. At("check", p) \in Task \cup {Nil} /\ At("check", p).at = "check"
  BY <1>1, AtTyped
<1>8. task' \in [Threads -> Task \cup {Nil}] /\ Decisions'
  BY <1>2, <1>7, TaskStep
<1>9. streak' \in [Watched -> 0 .. RemoveAt]
  BY <1>2, SyncAssumption DEF Inv, TypeOK
<1>10. TypeOK'
  BY <1>2, <1>6, <1>8, <1>9 DEF Inv, TypeOK
<1>11. ASSUME NEW w \in Watched
       PROVE  Backed(w)'
  <2>1. w[1] \in Nodes /\ w[2] \in Nodes /\ w = <<w[1], w[2]>>
    BY RowOf
  <2>2. Backed(w) /\ streak[w] \in 0 .. RemoveAt
    BY DEF Inv, Counts, TypeOK
  <2>3. CASE w = <<n, p>>
    <3>1. book'[w[1]][w[2]] = x /\ x = FailedEntry(book[w[1]][w[2]])
      BY <1>1, <1>6, <2>1, <2>3 DEF x
    <3>2. streak'[w] = IF streak[w] < RemoveAt THEN streak[w] + 1 ELSE streak[w]
      BY <1>2, <2>3
    <3>3. CASE book[w[1]][w[2]] = Nil
      BY <3>1, <3>3 DEF FailedEntry, Backed
    <3>4. CASE book[w[1]][w[2]] # Nil
      <4>1. book[w[1]][w[2]] \in Nat /\ book'[w[1]][w[2]] = book[w[1]][w[2]] + 1
        BY <1>3, <2>1, <2>3, <3>1, <3>4 DEF FailedEntry
      <4>2. book[w[1]][w[2]] <= streak[w] \/ streak[w] = RemoveAt
        BY <2>2, <3>4 DEF Backed
      <4>3. book'[w[1]][w[2]] <= streak'[w] \/ streak'[w] = RemoveAt
        BY <2>2, <3>2, <4>1, <4>2, SyncAssumption
      <4> QED
        BY <4>3 DEF Backed
    <3> QED
      BY <3>3, <3>4
  <2>4. CASE w # <<n, p>>
    <3>1. book'[w[1]][w[2]] = book[w[1]][w[2]]
      BY <1>6, <2>1, <2>4
    <3>2. streak'[w] = streak[w]
      BY <1>2, <2>4
    <3> QED
      BY <2>2, <3>1, <3>2 DEF Backed
  <2> QED
    BY <2>3, <2>4
<1> QED
  BY <1>8, <1>10, <1>11 DEF Inv, Counts

(* A connection that works starts the count again, in the entry and in the
   history. *)
LEMMA ConnectedInv ==
  ASSUME Inv, NEW t \in Threads, Connected(t)
  PROVE  Inv'
<1> DEFINE n == t[1]
           p == task[t].peer
           x == ConnectedEntry(book[n][p])
<1>1. n \in Nodes /\ p \in Nodes
  BY PeerOf DEF Connected
<1>2. /\ book' = [book EXCEPT ![n][p] = ConnectedEntry(@)]
      /\ streak' = [w \in Watched |-> IF w = <<n, p>> THEN 0 ELSE streak[w]]
      /\ \/ task' = [task EXCEPT ![t] = Nil]
         \/ \E mem \in Answers(t, p) :
              task' = [task EXCEPT ![t] = [At("rows", p) EXCEPT !.mem = mem]]
      /\ UNCHANGED <<voucher, rev, asked, down, faults>>
  BY DEF Connected
<1>3. x \in {0, Nil} /\ x \in Nat \cup {Nil}
  BY DEF ConnectedEntry
<1>4. book' = [book EXCEPT ![n][p] = x]
  BY <1>1, <1>2 DEF Inv, TypeOK
<1>5. \A mem \in Answers(t, p) : mem \in SUBSET Nodes
  BY DEF Answers, Known
<1> HIDE DEF n, p, x
<1>6. /\ book' \in [Nodes -> [Nodes -> Nat \cup {Nil}]]
      /\ \A m, z \in Nodes : book'[m][z] = IF m = n /\ z = p THEN x ELSE book[m][z]
  BY <1>1, <1>3, <1>4, PutTyped DEF Inv
<1>7. task' \in [Threads -> Task \cup {Nil}] /\ Decisions'
  <2>1. CASE task' = [task EXCEPT ![t] = Nil]
    BY <2>1, TaskStep
  <2>2. ASSUME NEW mem \in Answers(t, p),
               task' = [task EXCEPT ![t] = [At("rows", p) EXCEPT !.mem = mem]]
        PROVE  task' \in [Threads -> Task \cup {Nil}] /\ Decisions'
    <3>1. At("rows", p) \in Task /\ At("rows", p).at = "rows" /\ mem \in SUBSET Nodes
      BY <1>1, <1>5, AtTyped
    <3>2. PICK y : y = [At("rows", p) EXCEPT !.mem = mem]
      OBVIOUS
    <3>3. y \in Task /\ y.at = "rows"
      BY <3>1, <3>2 DEF Task
    <3>4. task' = [task EXCEPT ![t] = y]
      BY <2>2, <3>2
    <3> QED
      BY <3>3, <3>4, TaskStep
  <2> QED
    BY <1>2, <2>1, <2>2
<1>8. streak' \in [Watched -> 0 .. RemoveAt]
  BY <1>2, SyncAssumption DEF Inv, TypeOK
<1>9. TypeOK'
  BY <1>2, <1>6, <1>7, <1>8 DEF Inv, TypeOK
<1>10. ASSUME NEW w \in Watched
       PROVE  Backed(w)'
  <2>1. w[1] \in Nodes /\ w[2] \in Nodes /\ w = <<w[1], w[2]>>
    BY RowOf
  <2>2. CASE w = <<n, p>>
    <3>1. book'[w[1]][w[2]] = x /\ streak'[w] = 0
      BY <1>1, <1>2, <1>6, <2>1, <2>2
    <3> QED
      BY <1>3, <3>1 DEF Backed
  <2>3. CASE w # <<n, p>>
    <3>1. book'[w[1]][w[2]] = book[w[1]][w[2]]
      BY <1>6, <2>1, <2>3
    <3>2. streak'[w] = streak[w] /\ Backed(w)
      BY <1>2, <2>3 DEF Inv, Counts
    <3> QED
      BY <3>1, <3>2 DEF Backed
  <2> QED
    BY <2>2, <2>3
<1> QED
  BY <1>7, <1>9, <1>10 DEF Inv, Counts

(* The count is judged: what it says is backed by the failures in a row. *)
LEMMA JudgeInv ==
  ASSUME Inv, NEW t \in Threads, JudgeFailure(t)
  PROVE  Inv'
<1> DEFINE n == t[1]
           p == task[t].peer
           count == IF <<n, p>> \in Watched THEN streak[<<n, p>>] ELSE 0
           y == [At("remove", p) EXCEPT !.seen = count]
<1>1. n \in Nodes /\ p \in Nodes
  BY PeerOf DEF JudgeFailure
<1>2. /\ task' = [task EXCEPT ![t] = IF book[n][p] # Nil /\ RemovalDue(book[n][p])
                                     THEN y ELSE Nil]
      /\ UNCHANGED <<book, voucher, rev, asked, down, faults, streak>>
  BY DEF JudgeFailure
<1>3. count \in 0 .. RemoveAt
  BY SyncAssumption DEF Inv, TypeOK
<1>4. At("remove", p) \in Task
  BY <1>1, AtTyped
<1>5. y \in Task /\ y.peer = p /\ y.seen = count
  <2> HIDE DEF count
  <2> QED
    BY <1>3, <1>4, <1>1, AtTyped DEF Task
<1>6. book[n][p] # Nil /\ RemovalDue(book[n][p]) /\ <<n, p>> \in Watched => count = RemoveAt
  <2> SUFFICES ASSUME book[n][p] # Nil, RemovalDue(book[n][p]), <<n, p>> \in Watched
               PROVE  count = RemoveAt
    OBVIOUS
  <2>1. book[n][p] \in Nat /\ book[n][p] >= RemoveAt
    BY <1>1 DEF RemovalDue, Inv, TypeOK
  <2>2. book[n][p] <= streak[<<n, p>>] \/ streak[<<n, p>>] = RemoveAt
    BY <1>1 DEF Inv, Counts, Backed
  <2>3. streak[<<n, p>>] \in 0 .. RemoveAt
    BY DEF Inv, TypeOK
  <2> QED
    BY <2>1, <2>2, <2>3, SyncAssumption
<1>7. task' \in [Threads -> Task \cup {Nil}] /\ Decisions'
  <2>1. CASE book[n][p] # Nil /\ RemovalDue(book[n][p])
    <3>1. task' = [task EXCEPT ![t] = y]
      BY <1>2, <2>1
    <3>2. <<t[1], y.peer>> \in Watched => y.seen = RemoveAt
      BY <1>5, <1>6, <2>1
    <3> HIDE DEF y, n, p, count
    <3> QED
      BY <1>5, <3>1, <3>2, TaskStep
  <2>2. CASE ~(book[n][p] # Nil /\ RemovalDue(book[n][p]))
    <3>1. task' = [task EXCEPT ![t] = Nil]
      BY <1>2, <2>2
    <3> QED
      BY <3>1, TaskStep
  <2> QED
    BY <2>1, <2>2
<1>8. TypeOK'
  BY <1>2, <1>7 DEF Inv, TypeOK
<1> QED
  BY <1>2, <1>7, <1>8 DEF Inv, Counts, Backed

(* The removal that was decided. *)
LEMMA RemoveInv ==
  ASSUME Inv, NEW t \in Threads, RemovePeer(t)
  PROVE  Inv'
<1>1. t[1] \in Nodes /\ task[t].peer \in Nodes
  BY PeerOf DEF RemovePeer
<1>2. /\ book' \in [Nodes -> [Nodes -> Nat \cup {Nil}]]
      /\ \A m, z \in Nodes : book'[m][z] =
           IF m = t[1] /\ z = task[t].peer THEN Nil ELSE book[m][z]
  BY <1>1, PutTyped DEF RemovePeer, Inv
<1>3. task' \in [Threads -> Task \cup {Nil}] /\ Decisions'
  BY TaskStep DEF RemovePeer
<1>4. TypeOK'
  BY <1>2, <1>3 DEF RemovePeer, Inv, TypeOK
<1>5. Counts'
  BY <1>2, RowsAnew DEF RemovePeer
<1> QED
  BY <1>3, <1>4, <1>5 DEF Inv

(* The peer answers, and the answer is merged or lost. *)
LEMMA AnswerInv ==
  ASSUME Inv, NEW t \in Threads, Respond(t) \/ Apply(t) \/ ResponseLost(t)
  PROVE  Inv'
<1>1. CASE Respond(t)
  <2>1. task[t] \in Task /\ task[t].at = "rows"
    BY <1>1, PeerOf DEF Respond
  <2>2. PICK y : y = [task[t] EXCEPT !.at = "resp", !.rev = task[t].peer \in rev]
    OBVIOUS
  <2>3. (task[t].peer \in rev) \in BOOLEAN
    OBVIOUS
  <2>4. y \in Task /\ y.at = "resp"
    BY <2>1, <2>2, <2>3 DEF Task
  <2>5. task' = [task EXCEPT ![t] = y]
    BY <1>1, <2>2 DEF Respond, Inv, TypeOK
  <2>6. task' \in [Threads -> Task \cup {Nil}] /\ Decisions'
    BY <2>4, <2>5, TaskStep
  <2>7. TypeOK'
    BY <1>1, <2>6 DEF Respond, Inv, TypeOK
  <2> QED
    BY <1>1, <2>6, <2>7 DEF Respond, Inv, Counts, Backed
<1>2. CASE Apply(t)
  <2>1. t[1] \in Nodes
    BY ThreadOf
  <2>2. /\ book' = [book EXCEPT ![t[1]] = MergeMembers(t[1], task[t])]
        /\ rev' \subseteq rev \cup {t[1]} /\ asked' \subseteq asked
        /\ task' = [task EXCEPT ![t] = Nil]
        /\ UNCHANGED <<voucher, down, faults, streak>>
    BY <1>2 DEF Apply
  <2>3. MergeMembers(t[1], task[t]) \in [Nodes -> Nat \cup {Nil}]
    BY <2>1 DEF MergeMembers, NewEntry, Inv, TypeOK
  <2>4. \A z \in Nodes : MergeMembers(t[1], task[t])[z] \in {book[t[1]][z], 0}
    BY DEF MergeMembers, NewEntry
  <2>5. /\ book' \in [Nodes -> [Nodes -> Nat \cup {Nil}]]
        /\ \A m, z \in Nodes : book'[m][z] \in {book[m][z], 0, Nil}
    <3>1. book \in [Nodes -> [Nodes -> Nat \cup {Nil}]]
      BY DEF Inv, TypeOK
    <3> QED
      BY <2>1, <2>2, <2>3, <2>4, <3>1
  <2>6. task' \in [Threads -> Task \cup {Nil}] /\ Decisions'
    BY <2>2, TaskStep
  <2>7. TypeOK'
    BY <2>1, <2>2, <2>5, <2>6 DEF Inv, TypeOK
  <2>8. Counts'
    BY <2>2, <2>5, RowsAnew
  <2> QED
    BY <2>6, <2>7, <2>8 DEF Inv
<1>3. CASE ResponseLost(t)
  <2>1. task' \in [Threads -> Task \cup {Nil}] /\ Decisions'
    BY <1>3, TaskStep DEF ResponseLost
  <2>2. TypeOK'
    BY <1>3, <2>1 DEF ResponseLost, Inv, TypeOK
  <2> QED
    BY <1>3, <2>1, <2>2 DEF ResponseLost, Inv, Counts, Backed
<1> QED
  BY <1>1, <1>2, <1>3

(* Every step keeps the invariant. *)
LEMMA NextInv == Inv /\ [Next]_vars => Inv'
<1> SUFFICES ASSUME Inv, [Next]_vars PROVE Inv'
  OBVIOUS
<1>1. ASSUME NEW t \in Threads, Goroutine(t)
      PROVE  Inv'
  BY <1>1, ConnectionFailsInv, ConnectedInv, JudgeInv, RemoveInv, AnswerInv DEF Goroutine
<1>2. CASE UNCHANGED vars
  <2>1. TypeOK'
    BY <1>2 DEF vars, Inv, TypeOK
  <2> QED
    BY <1>2, <2>1, DecisionsKept DEF vars, Inv, Counts, Backed
<1> QED
  BY <1>1, <1>2, DialInv, SessionInv, FaultInv DEF Next

-----------------------------------------------------------------------------
(* The inductive invariant of the phonebooks holds in every reachable
   state. *)
LEMMA Invariant == Spec => []Inv
<1> QED
  BY InitInv, NextInv, PTL DEF Spec

(* Phonebooks, sessions and the stages of every sync have their types. *)
THEOREM TypeCorrect == Spec => []TypeOK
<1>1. Inv => TypeOK
  BY DEF Inv
<1> QED
  BY <1>1, Invariant, PTL

(* What a step that drops an entry was. *)
Justified(w) ==
  \/ faults' # faults
  \/ \E t \in Threads : /\ t[1] = w[1] /\ task[t] # Nil
                        /\ task[t].at = "remove" /\ task[t].peer = w[2]
                        /\ task[t].seen = RemoveAt

LEMMA RemovalStep ==
  ASSUME Inv, [Next]_vars, NEW w \in Watched,
         book[w[1]][w[2]] # Nil, book'[w[1]][w[2]] = Nil
  PROVE  Justified(w)
<1>1. /\ w[1] \in Nodes /\ w[2] \in Nodes /\ w = <<w[1], w[2]>>
      /\ 0 # Nil /\ \A i \in Nat : i # Nil
  BY RowOf, SyncAssumption
<1>2. ~UNCHANGED book
  OBVIOUS
<1>t. book \in [Nodes -> [Nodes -> Nat \cup {Nil}]]
  BY DEF Inv, TypeOK
<1>3. ASSUME NEW n \in Nodes, NEW v \in Nodes, NEW heard, Admit(n, v, heard)
      PROVE  FALSE
  <2>1. book'[w[1]][w[2]] = 0 \/ book'[w[1]][w[2]] = book[w[1]][w[2]]
    BY <1>1, <1>3 DEF Admit, NewEntry
  <2> QED
    BY <1>1, <2>1
<1>4. ASSUME NEW t \in Threads, Apply(t)
      PROVE  FALSE
  <2>1. book'[w[1]][w[2]] = 0 \/ book'[w[1]][w[2]] = book[w[1]][w[2]]
    BY <1>1, <1>4, <1>t, ThreadOf DEF Apply, MergeMembers, NewEntry
  <2> QED
    BY <1>1, <2>1
<1>5. ASSUME NEW t \in Threads, ConnectionFails(t)
      PROVE  FALSE
  <2>1. t[1] \in Nodes /\ task[t].peer \in Nodes
    BY <1>5, PeerOf DEF ConnectionFails
  <2>2. book' = [book EXCEPT ![t[1]][task[t].peer] = FailedEntry(@)]
    BY <1>5 DEF ConnectionFails
  <2>3. book'[w[1]][w[2]] = FailedEntry(book[w[1]][w[2]]) \/ book'[w[1]][w[2]] = book[w[1]][w[2]]
    BY <1>1, <1>t, <2>1, <2>2
  <2>4. FailedEntry(book[w[1]][w[2]]) \in Nat
    BY <1>1, <1>t DEF FailedEntry
  <2> QED
    BY <1>1, <2>3, <2>4
<1>6. ASSUME NEW t \in Threads, Connected(t)
      PROVE  FALSE
  <2>1. t[1] \in Nodes /\ task[t].peer \in Nodes
    BY <1>6, PeerOf DEF Connected
  <2>2. book' = [book EXCEPT ![t[1]][task[t].peer] = ConnectedEntry(@)]
    BY <1>6 DEF Connected
  <2>3. book'[w[1]][w[2]] = ConnectedEntry(book[w[1]][w[2]]) \/ book'[w[1]][w[2]] = book[w[1]][w[2]]
    BY <1>1, <1>t, <2>1, <2>2
  <2>4. ConnectedEntry(book[w[1]][w[2]]) = 0
    BY DEF ConnectedEntry
  <2> QED
    BY <1>1, <2>3, <2>4
<1>7. ASSUME NEW t \in Threads, RemovePeer(t)
      PROVE  Justified(w)
  <2>1. t[1] \in Nodes /\ task[t].peer \in Nodes
    BY <1>7, PeerOf DEF RemovePeer
  <2>2. book' = [book EXCEPT ![t[1]][task[t].peer] = Nil] /\ task[t] # Nil /\ task[t].at = "remove"
    BY <1>7 DEF RemovePeer
  <2>3. w[1] = t[1] /\ w[2] = task[t].peer
    BY <1>1, <1>t, <2>1, <2>2
  <2>4. Decided(t)
    BY DEF Inv, Decisions
  <2>5. task[t].seen = RemoveAt
    BY <1>1, <2>2, <2>3, <2>4 DEF Decided
  <2> QED
    BY <2>2, <2>3, <2>5 DEF Justified
<1>8. ASSUME NEW n \in Nodes, NEW z \in Nodes, MonitorRemoves(n, z)
      PROVE  Justified(w)
  <2>1. faults \in Nat /\ faults' = faults + 1
    BY <1>8, SyncAssumption DEF MonitorRemoves, Inv, TypeOK
  <2> QED
    BY <2>1 DEF Justified
<1>9. ASSUME NEW n \in Nodes, SessionStale(n)
      PROVE  FALSE
  BY <1>2, <1>3, <1>9 DEF SessionStale
<1>10. ASSUME NEW n \in Nodes, NEW v \in Nodes, Join(n, v)
       PROVE  FALSE
  BY <1>3, <1>10 DEF Join
<1>11. ASSUME NEW n \in Nodes, Revoke(n) \/ Cut(n) \/ Heal(n)
       PROVE  FALSE
  BY <1>2, <1>11 DEF Revoke, Cut, Heal
<1>12. ASSUME NEW t \in Threads, NEW p \in Nodes, Dial(t, p)
       PROVE  FALSE
  BY <1>2, <1>12 DEF Dial
<1>13. ASSUME NEW t \in Threads, JudgeFailure(t) \/ Respond(t) \/ ResponseLost(t)
       PROVE  FALSE
  BY <1>2, <1>13 DEF JudgeFailure, Respond, ResponseLost
<1>14. ASSUME NEW t \in Threads, Goroutine(t)
       PROVE  Justified(w)
  BY <1>4, <1>5, <1>6, <1>7, <1>13, <1>14 DEF Goroutine
<1>15. ~UNCHANGED vars
  BY <1>2 DEF vars
<1> QED
  BY <1>8, <1>9, <1>10, <1>11, <1>12, <1>14, <1>15 DEF Next

(* The syncer drops a peer only on a decision taken when RemoveAt attempts in
   a row had failed (syncer.go:886-911), whatever was merged, admitted, cut or
   lost, and whatever any number of its goroutines did. *)
THEOREM RemovedOnlyWhenUnreachable == Spec => NoEarlyRemoval
<1>1. Inv /\ [Next]_vars =>
        [\A w \in Watched :
           book[w[1]][w[2]] # Nil /\ book'[w[1]][w[2]] = Nil =>
             \/ faults' # faults
             \/ \E t \in Threads :
                  /\ t[1] = w[1] /\ task[t] # Nil
                  /\ task[t].at = "remove" /\ task[t].peer = w[2]
                  /\ task[t].seen = RemoveAt]_vars
  BY RemovalStep DEF Justified
<1> QED
  BY <1>1, Invariant, PTL DEF Spec, NoEarlyRemoval
=============================================================================
