-------------------------- MODULE CapsuleFlowProofs --------------------------
(***************************************************************************)
(* Proofs about CapsuleFlow for every cluster, every number of replicas    *)
(* and any number of disturbances: its type invariant, that no orbit       *)
(* message is acted on twice, that no machine is left in Electing, and     *)
(* that the slots of a dead node find hosts that live.                     *)
(***************************************************************************)
EXTENDS CapsuleFlow, FiniteSetTheorems, TLAPS

(* The conjuncts of TypeOK, by the part of the node they belong to. *)
RowsOK ==
  /\ row \in [Nodes -> Capsule \cup {Nil}]
  /\ mach \in [Nodes -> Statuses \cup {Nil}]
  /\ \A n \in Nodes : row[n] = Nil <=> mach[n] = Nil

OrbitOK ==
  /\ sent \in Seq(Message)
  /\ chan \in [Nodes \X Nodes -> SUBSET DOMAIN sent]
  /\ seen \in [Nodes -> SUBSET DOMAIN sent]
  /\ applied \in [Nodes -> SUBSET DOMAIN sent]
  /\ hist \subseteq {"twice", "dropped", "deleted"}

Events == [Nodes -> [Kinds -> Seq(Slots \X Nodes)]]

QueueOK == queue \in Events

ElectOK ==
  /\ el \in [Nodes -> [Slots -> RoundStates]]
  /\ heard \in [Nodes -> [Slots -> Nodes \cup {Nil, "failure"}]]
  /\ won \subseteq Slots /\ failed \subseteq Slots

WorldOK ==
  /\ joined \subseteq alive /\ alive \subseteq Nodes
  /\ failedOn \in [Nodes -> SUBSET Nodes]
  /\ count \in 1 .. MaxReplicas /\ done \subseteq Disturb[count]

OwnOK ==
  /\ claimed \subseteq Nodes
  /\ run \subseteq Nodes \X Slots
  /\ life \in {"new", "made"} \cup Nodes

Typed == RowsOK /\ OrbitOK /\ QueueOK /\ ElectOK /\ WorldOK /\ OwnOK

HeldOK ==
  /\ upd \in [Nodes -> Capsule \cup {Stored, Nil}]
  /\ \A n \in Nodes : /\ upd[n] = Stored => row[n] # Nil
                      /\ upd[n] # Nil => "update" \in done

LEMMA TypeParts ==
  /\ TypeOK <=> Typed /\ HeldOK
  /\ TypeOK' <=> Typed' /\ HeldOK'
  /\ Typed <=> RowsOK /\ OrbitOK /\ QueueOK /\ ElectOK /\ WorldOK /\ OwnOK
  /\ Typed' <=> RowsOK' /\ OrbitOK' /\ QueueOK' /\ ElectOK' /\ WorldOK' /\ OwnOK'
  BY DEF TypeOK, Typed, HeldOK, RowsOK, OrbitOK, QueueOK, Events, ElectOK, WorldOK, OwnOK

-----------------------------------------------------------------------------
(* The slots, as the code counts them. *)
LEMMA SlotFacts ==
  /\ 0 \in Slots /\ IsFiniteSet(Slots)
  /\ \A k \in 1 .. MaxReplicas : 0 .. k - 1 \subseteq Slots /\ 0 \in 0 .. k - 1
<1>1. MaxReplicas \in Nat /\ MaxReplicas >= 1
  BY FlowAssumption
<1>2. IsFiniteSet(Slots)
  BY <1>1, FS_Interval DEF Slots
<1> QED
  BY <1>1, <1>2 DEF Slots

(* requestElection for several slots puts their requests, and nothing else,
   into a sequence. *)
LEMMA RequestSeq ==
  ASSUME NEW n \in Nodes, NEW S \in SUBSET Slots
  PROVE  LET R == {<<s, n>> : s \in S} IN
         /\ SetToSeq(R) \in Seq(Slots \X Nodes)
         /\ S # {} => SetToSeq(R) # <<>>
<1> DEFINE R == {<<s, n>> : s \in S}
           f == SetToSeq(R)
<1>1. IsFiniteSet(S)
  BY SlotFacts, FS_Subset
<1>2. IsFiniteSet(R)
  <2>1. IsFiniteSet(S \X {n})
    BY <1>1, FS_Singleton, FS_Product
  <2>2. R \subseteq S \X {n}
    OBVIOUS
  <2> QED
    BY <2>1, <2>2, FS_Subset
<1>3. R \subseteq Slots \X Nodes
  OBVIOUS
<1>4. Cardinality(R) \in Nat /\ ExistsBijection(1 .. Cardinality(R), R)
  BY <1>2, FS_CardinalityType
<1>5. S # {} => Cardinality(R) # 0
  <2>1. S # {} => R # {}
    OBVIOUS
  <2> HIDE DEF R
  <2> QED
    BY <1>2, <2>1, FS_EmptySet
<1> HIDE DEF R
<1>6. \E g \in [1 .. Cardinality(R) -> R] : IsInjective(g)
  BY <1>4, Zenon DEF ExistsBijection, Bijection, Injection, Surjection, IsInjective
<1>7. f \in [1 .. Cardinality(R) -> R]
  BY <1>6, Zenon DEF SetToSeq
<1> HIDE DEF f
<1>8. f \in Seq(Slots \X Nodes) /\ Len(f) = Cardinality(R)
  BY <1>3, <1>4, <1>7
<1>9. S # {} => f # <<>>
  BY <1>5, <1>8
<1> QED
  BY <1>8, <1>9 DEF f, R

(* What a trigger does to the machine, as far as Electing is concerned. *)
LEMMA FireFacts ==
  ASSUME NEW s \in Statuses, NEW t
  PROVE  /\ FireState(s, t) \in Statuses
         /\ FireState(s, t) = "electing" => s = "electing" \/ t = "election_started"
         /\ s = "electing" /\ t \in {"election_won", "election_timeout"} =>
              FireState(s, t) # "electing"
<1>1. CASE \E u \in Statuses : Permit(s, t, u)
  <2>1. FireState(s, t) \in Statuses /\ Permit(s, t, FireState(s, t))
    BY <1>1 DEF FireState
  <2> QED
    BY <2>1 DEF Permit, Edges
<1>2. CASE ~\E u \in Statuses : Permit(s, t, u)
  <2>1. FireState(s, t) = s
    BY <1>2 DEF FireState
  <2>2. s = "electing" => t \notin {"election_won", "election_timeout"}
    BY <1>2 DEF Permit, Edges, Statuses
  <2> QED
    BY <2>1, <2>2
<1> QED
  BY <1>1, <1>2

(* Put moves the machine and the row of n together, if there are any. *)
LEMMA PutFacts ==
  ASSUME RowsOK, NEW n \in Nodes, NEW s \in Statuses, Put(n, s)
  PROVE  /\ RowsOK'
         /\ mach'[n] = IF mach[n] = Nil THEN Nil ELSE s
         /\ \A m \in Nodes : m # n => mach'[m] = mach[m]
         /\ \A m \in Nodes : row'[m] = Nil <=> row[m] = Nil
<1>1. CASE row[n] = Nil
  BY <1>1 DEF Put, RowsOK
<1>2. CASE row[n] # Nil
  <2>1. row[n] \in Capsule /\ [row[n] EXCEPT !.st = s] \in Capsule
    BY <1>2 DEF RowsOK, Capsule
  <2>2. row' = [row EXCEPT ![n] = [row[n] EXCEPT !.st = s]]
    BY <1>2 DEF Put
  <2>3. mach' = [mach EXCEPT ![n] = s]
    BY <1>2 DEF Put
  <2> QED
    BY <1>2, <2>1, <2>2, <2>3, NilAssumption DEF RowsOK
<1> QED
  BY <1>1, <1>2

LEMMA FireType ==
  ASSUME RowsOK, NEW n \in Nodes, NEW t, Fire(n, t)
  PROVE  /\ RowsOK'
         /\ mach'[n] = IF mach[n] = Nil THEN Nil ELSE FireState(mach[n], t)
         /\ \A m \in Nodes : m # n => mach'[m] = mach[m]
         /\ \A m \in Nodes : row'[m] = Nil <=> row[m] = Nil
<1>1. CASE row[n] # Nil /\ FireState(mach[n], t) # mach[n]
  <2>1. mach[n] \in Statuses
    BY <1>1 DEF RowsOK
  <2> QED
    BY <1>1, <2>1, PutFacts, FireFacts DEF Fire
<1>2. CASE ~(row[n] # Nil /\ FireState(mach[n], t) # mach[n])
  BY <1>2 DEF Fire, RowsOK
<1> QED
  BY <1>1, <1>2

(* The queues: a request, an event more, an event less. *)
LEMMA RequestType ==
  ASSUME NEW q \in Events, NEW n \in Nodes, NEW S \in SUBSET Slots
  PROVE  /\ RequestElections(q, n, S) \in Events
         /\ \A m \in Nodes, k \in Kinds :
              m # n \/ k # "req" => RequestElections(q, n, S)[m][k] = q[m][k]
         /\ S # {} \/ q[n]["req"] # <<>> => RequestElections(q, n, S)[n]["req"] # <<>>
<1> DEFINE x == SetToSeq({<<s, n>> : s \in S})
<1>1. x \in Seq(Slots \X Nodes) /\ (S # {} => x # <<>>)
  BY RequestSeq
<1>2. RequestElections(q, n, S) = [q EXCEPT ![n] = [q[n] EXCEPT !["req"] = q[n]["req"] \o x]]
  BY DEF RequestElections
<1> HIDE DEF x
<1>3. "req" \in Kinds /\ q[n]["req"] \in Seq(Slots \X Nodes)
  BY DEF Kinds, Events
<1>4. q[n]["req"] \o x \in Seq(Slots \X Nodes)
  BY <1>1, <1>3
<1>5. S # {} \/ q[n]["req"] # <<>> => q[n]["req"] \o x # <<>>
  BY <1>1, <1>3
<1> QED
  BY <1>2, <1>3, <1>4, <1>5 DEF Events

LEMMA PostType ==
  ASSUME NEW q \in Events, NEW n \in Nodes, NEW k \in Kinds, NEW e \in Slots \X Nodes
  PROVE  /\ Post(q, n, k, e) \in Events
         /\ \A m \in Nodes, j \in Kinds : m # n \/ j # k => Post(q, n, k, e)[m][j] = q[m][j]
         /\ Post(q, n, k, e)[n][k] # <<>>
<1>1. Post(q, n, k, e) = [q EXCEPT ![n] = [q[n] EXCEPT ![k] = Append(q[n][k], e)]]
  BY DEF Post
<1>2. q[n][k] \in Seq(Slots \X Nodes)
  BY DEF Events
<1>3. Append(q[n][k], e) \in Seq(Slots \X Nodes) /\ Append(q[n][k], e) # <<>>
  BY <1>2
<1> QED
  BY <1>1, <1>3 DEF Events

LEMMA DropType ==
  ASSUME QueueOK, NEW n \in Nodes, NEW k \in Kinds, Takes(n, k)
  PROVE  /\ Drop(n, k) \in Events
         /\ \A m \in Nodes, j \in Kinds : m # n \/ j # k => Drop(n, k)[m][j] = queue[m][j]
         /\ Slot(n, k) \in Slots /\ Who(n, k) \in Nodes
<1>1. Drop(n, k) = [queue EXCEPT ![n] = [queue[n] EXCEPT ![k] = Tail(queue[n][k])]]
  BY DEF Drop
<1>2. queue[n][k] \in Seq(Slots \X Nodes) /\ queue[n][k] # <<>>
  BY DEF QueueOK, Events, Takes
<1>3. Tail(queue[n][k]) \in Seq(Slots \X Nodes) /\ Head(queue[n][k]) \in Slots \X Nodes
  BY <1>2
<1>4. Slot(n, k) \in Slots /\ Who(n, k) \in Nodes
  BY <1>3 DEF Slot, Who
<1> QED
  BY <1>1, <1>3, <1>4 DEF QueueOK, Events

-----------------------------------------------------------------------------
(* The orbit. *)
Histories == {"twice", "dropped", "deleted"}
Channels == [Nodes \X Nodes -> SUBSET DOMAIN sent]

LEMMA OneMore ==
  ASSUME NEW A, NEW x \in Seq(A), NEW e \in A
  PROVE  Append(x, e) \in Seq(A) /\ Append(x, e) # <<>>
<1>1. Append(x, e) \in Seq(A) /\ Len(Append(x, e)) = Len(x) + 1 /\ Len(x) \in Nat
  OBVIOUS
<1>2. Len(<<>>) = 0
  OBVIOUS
<1> QED
  BY <1>1, <1>2

(* A publication adds one message, to the channels of those in the orbit; the
   messages before it stay as they are. *)
LEMMA BroadcastFacts ==
  ASSUME OrbitOK, NEW n \in Nodes, NEW kind, NEW r, NEW ch \in Channels,
         NEW h \in SUBSET Histories, Broadcast(n, kind, r, ch, h),
         [kind |-> kind, from |-> n, row |-> r, age |-> 0] \in Message
  PROVE  /\ sent' \in Seq(Message) /\ DOMAIN sent \subseteq DOMAIN sent'
         /\ \A i \in DOMAIN sent : sent'[i] = sent[i]
         /\ chan' \in Channels' /\ hist' \in SUBSET Histories
         /\ h \subseteq hist' /\ hist' \subseteq h \cup {"dropped"}
<1>1. CASE n \in joined
  <2> DEFINE e == [kind |-> kind, from |-> n, row |-> r, age |-> 0]
  <2>1. sent' = Append(sent, e) /\ hist' = h
        /\ chan' = [p \in Nodes \X Nodes |->
                      IF p[1] = n /\ p[2] \in joined \ {n}
                      THEN ch[p] \cup {Len(sent) + 1} ELSE ch[p]]
    BY <1>1 DEF Broadcast
  <2>2. e \in Message
    OBVIOUS
  <2> HIDE DEF e
  <2>3. /\ sent' \in Seq(Message) /\ DOMAIN sent = 1 .. Len(sent) /\ Len(sent) \in Nat
        /\ DOMAIN sent' = 1 .. (Len(sent) + 1)
        /\ \A i \in DOMAIN sent : sent'[i] = sent[i]
    BY <2>1, <2>2 DEF OrbitOK
  <2>4. DOMAIN sent \subseteq DOMAIN sent' /\ Len(sent) + 1 \in DOMAIN sent'
    BY <2>3
  <2>5. ASSUME NEW p \in Nodes \X Nodes
        PROVE  /\ ch[p] \in SUBSET DOMAIN sent'
               /\ ch[p] \cup {Len(sent) + 1} \in SUBSET DOMAIN sent'
    BY <2>4 DEF Channels
  <2>6. chan' \in Channels'
    BY <2>1, <2>5 DEF Channels
  <2> QED
    BY <2>1, <2>3, <2>4, <2>6
<1>2. CASE n \notin joined
  BY <1>2 DEF Broadcast, OrbitOK, Channels, Histories
<1> QED
  BY <1>1, <1>2

(* Seen and applied messages remain messages when there are more of them. *)
LEMMA OrbitGrows ==
  ASSUME OrbitOK, DOMAIN sent \subseteq DOMAIN sent', sent' \in Seq(Message),
         chan' \in Channels', hist' \in SUBSET Histories,
         seen' \in [Nodes -> SUBSET DOMAIN sent], applied' \in [Nodes -> SUBSET DOMAIN sent]
  PROVE  OrbitOK'
<1>1. seen' \in [Nodes -> SUBSET DOMAIN sent'] /\ applied' \in [Nodes -> SUBSET DOMAIN sent']
  OBVIOUS
<1> QED
  BY <1>1 DEF OrbitOK, Channels, Histories

LEMMA OrbitChannels == OrbitOK => chan \in Channels /\ hist \in SUBSET Histories
  BY DEF OrbitOK, Channels, Histories

LEMMA Announcement ==
  ASSUME NEW n \in Nodes, NEW r \in Capsule
  PROVE  [kind |-> "announcement", from |-> n, row |-> r, age |-> 0] \in Message
  BY DEF Message

LEMMA Withdrawal ==
  ASSUME NEW n \in Nodes
  PROVE  [kind |-> "withdrawal", from |-> n, row |-> Nil, age |-> 0] \in Message
  BY DEF Message

-----------------------------------------------------------------------------
LEMMA InitType == Init => TypeOK
<1> SUFFICES ASSUME Init PROVE TypeOK
  OBVIOUS
<1>1. Disturb[count] \in SUBSET Disturbances
  BY FlowAssumption DEF Init
<1>2. \A T : <<>> \in Seq(T)
  OBVIOUS
<1>3. QueueOK
  BY <1>2 DEF Init, QueueOK, Events, NoEvents
<1>4. RowsOK /\ OrbitOK
  BY <1>2 DEF Init, RowsOK, OrbitOK
<1>5. ElectOK /\ WorldOK /\ OwnOK
  BY <1>1 DEF Init, ElectOK, WorldOK, OwnOK, NoRounds, RoundStates
<1>6. HeldOK
  BY NilAssumption DEF Init, HeldOK
<1> QED
  BY <1>3, <1>4, <1>5, <1>6, TypeParts

LEMMA DisturbedType ==
  ASSUME WorldOK, NEW k, Disturbed(k)
  PROVE  /\ count' = count /\ done' = done \cup {k} /\ done' \subseteq Disturb[count']
         /\ count' \in 1 .. MaxReplicas
  BY DEF Disturbed, WorldOK

(* Create, Update and Delete. *)
LEMMA CreateEmitType ==
  ASSUME TypeOK, NEW n \in Nodes, CreateEmit(n)
  PROVE  Typed'
<1> USE TypeParts
<1> DEFINE r == [st |-> "created", rep |-> [s \in Slots |-> Nil]]
<1>1. r \in Capsule
  BY DEF Capsule, Statuses
<1>2. row' = [row EXCEPT ![n] = r] /\ mach' = [mach EXCEPT ![n] = "created"]
      /\ Broadcast(n, "announcement", r, chan, hist)
  BY DEF CreateEmit
<1> HIDE DEF r
<1>3. RowsOK'
  BY <1>1, <1>2, NilAssumption DEF RowsOK, Statuses
<1>4. OrbitOK'
  <2>1. seen' = seen /\ applied' = applied
    BY DEF CreateEmit
  <2>2. seen \in [Nodes -> SUBSET DOMAIN sent] /\ applied \in [Nodes -> SUBSET DOMAIN sent]
    BY DEF OrbitOK
  <2>3. [kind |-> "announcement", from |-> n, row |-> r, age |-> 0] \in Message
    BY <1>1, Announcement
  <2> QED
    BY <1>2, <2>1, <2>2, <2>3, BroadcastFacts, OrbitGrows, OrbitChannels
<1>5. InitialSlots \in SUBSET Slots
  BY SlotFacts DEF InitialSlots, WorldOK
<1>6. QueueOK'
  BY <1>5, RequestType DEF CreateEmit, QueueOK
<1>7. ElectOK' /\ WorldOK' /\ OwnOK'
  BY DEF CreateEmit, ElectOK, WorldOK, OwnOK, Elections, History, World
<1> QED
  BY <1>3, <1>4, <1>6, <1>7

LEMMA CreateAnnounceType ==
  ASSUME TypeOK, NEW n \in Nodes, CreateAnnounce(n)
  PROVE  Typed'
<1> USE TypeParts
<1>1. RowsOK'
  BY FireType DEF CreateAnnounce
<1>2. OrbitOK' /\ QueueOK' /\ ElectOK' /\ WorldOK' /\ OwnOK'
  BY DEF CreateAnnounce, Orbit, Elections, History, World,
         OrbitOK, QueueOK, ElectOK, WorldOK, OwnOK
<1> QED
  BY <1>1, <1>2

LEMMA UpdateType ==
  ASSUME TypeOK, NEW n \in Nodes, Update(n)
  PROVE  Typed'
<1> USE TypeParts
<1>1. WorldOK'
  <2>1. count' \in 1 .. MaxReplicas /\ done' \subseteq Disturb[count']
    BY DisturbedType DEF Update
  <2> QED
    BY <2>1 DEF Update, WorldOK
<1>2. RowsOK' /\ QueueOK' /\ ElectOK' /\ OwnOK' /\ OrbitOK'
  BY DEF Update, RowsOK, QueueOK, ElectOK, OwnOK, OrbitOK, Orbit, Elections, History
<1> QED
  BY <1>1, <1>2

(* What an Update announces is a capsule, in the store or not. *)
LEMMA HeldRow ==
  ASSUME TypeOK, NEW n \in Nodes, UpdateEmit(n)
  PROVE  \E r \in Capsule :
           /\ r = IF upd[n] = Stored THEN row[n] ELSE upd[n]
           /\ Broadcast(n, "announcement", r, chan, hist)
           /\ [kind |-> "announcement", from |-> n, row |-> r, age |-> 0] \in Message
<1> DEFINE r == IF upd[n] = Stored THEN row[n] ELSE upd[n]
<1>1. Broadcast(n, "announcement", r, chan, hist) /\ upd[n] # Nil
  BY DEF UpdateEmit
<1>2. r \in Capsule
  <2>1. /\ upd[n] \in Capsule \cup {Stored, Nil} /\ row[n] \in Capsule \cup {Nil}
        /\ upd[n] = Stored => row[n] # Nil
    BY TypeParts DEF HeldOK, RowsOK
  <2> QED
    BY <1>1, <2>1, Zenon
<1> HIDE DEF r
<1>3. [kind |-> "announcement", from |-> n, row |-> r, age |-> 0] \in Message
  BY <1>2, Announcement
<1> QED
  BY <1>1, <1>2, <1>3 DEF r

LEMMA UpdateEmitType ==
  ASSUME TypeOK, NEW n \in Nodes, UpdateEmit(n)
  PROVE  Typed'
<1> USE TypeParts
<1>1. OrbitOK'
  <2>1. seen' = seen /\ applied' = applied
    BY DEF UpdateEmit
  <2>2. seen \in [Nodes -> SUBSET DOMAIN sent] /\ applied \in [Nodes -> SUBSET DOMAIN sent]
    BY DEF OrbitOK
  <2>3. PICK r \in Capsule :
          /\ Broadcast(n, "announcement", r, chan, hist)
          /\ [kind |-> "announcement", from |-> n, row |-> r, age |-> 0] \in Message
    BY HeldRow
  <2> QED
    BY <2>1, <2>2, <2>3, BroadcastFacts, OrbitGrows, OrbitChannels
<1>2. RowsOK' /\ QueueOK' /\ ElectOK' /\ OwnOK' /\ WorldOK'
  BY DEF UpdateEmit, RowsOK, QueueOK, ElectOK, OwnOK, WorldOK, World, Elections, History
<1> QED
  BY <1>1, <1>2

(* Delete, on the node's own account or for a withdrawal: no row, no machine,
   no claim. *)
LEMMA DeleteHereType ==
  ASSUME RowsOK, OrbitOK, claimed \subseteq Nodes, NEW n \in Nodes,
         NEW ch \in Channels, NEW h \in SUBSET Histories, DeleteHere(n, ch, h)
  PROVE  /\ RowsOK' /\ claimed' \subseteq Nodes
         /\ sent' \in Seq(Message) /\ DOMAIN sent \subseteq DOMAIN sent'
         /\ \A i \in DOMAIN sent : sent'[i] = sent[i]
         /\ chan' \in Channels' /\ hist' \in SUBSET Histories
         /\ h \subseteq hist' /\ hist' \subseteq h \cup {"dropped"}
<1>1. RowsOK' /\ claimed' \subseteq Nodes
  BY NilAssumption DEF DeleteHere, RowsOK
<1>2. Broadcast(n, "withdrawal", Nil, ch, h)
  BY DEF DeleteHere
<1>3. [kind |-> "withdrawal", from |-> n, row |-> Nil, age |-> 0] \in Message
  BY Withdrawal
<1> QED
  BY <1>1, <1>2, <1>3, BroadcastFacts

LEMMA DeleteType ==
  ASSUME TypeOK, NEW n \in Nodes, Delete(n)
  PROVE  Typed'
<1> USE TypeParts
<1>1. hist \cup {"deleted"} \in SUBSET Histories /\ chan \in Channels
  BY OrbitChannels DEF Histories
<1>2. DeleteHere(n, chan, hist \cup {"deleted"})
  BY DEF Delete
<1>3. /\ RowsOK' /\ claimed' \subseteq Nodes
      /\ sent' \in Seq(Message) /\ DOMAIN sent \subseteq DOMAIN sent'
      /\ chan' \in Channels' /\ hist' \in SUBSET Histories
  BY <1>1, <1>2, DeleteHereType DEF OwnOK
<1>4. OrbitOK'
  <2>1. seen' = seen /\ applied' = applied
    BY DEF Delete
  <2>2. seen \in [Nodes -> SUBSET DOMAIN sent] /\ applied \in [Nodes -> SUBSET DOMAIN sent]
    BY DEF OrbitOK
  <2> QED
    BY <1>3, <2>1, <2>2, OrbitGrows
<1>5. QueueOK' /\ ElectOK' /\ WorldOK' /\ OwnOK'
  BY <1>3 DEF Delete, QueueOK, ElectOK, WorldOK, OwnOK, Elections, History, World
<1> QED
  BY <1>3, <1>4, <1>5

(* Time only raises the age of a message. *)
LEMMA DelayFacts ==
  ASSUME OrbitOK, Delay
  PROVE  /\ sent' \in Seq(Message) /\ DOMAIN sent' = DOMAIN sent
         /\ \A i \in DOMAIN sent :
              /\ sent'[i].kind = sent[i].kind /\ sent'[i].from = sent[i].from
              /\ sent'[i].row = sent[i].row
              /\ sent[i].age \in 0 .. 2 /\ sent'[i].age \in 0 .. 2
              /\ sent'[i].age >= sent[i].age
<1>1. PICK age \in 1 .. 2 :
        sent' = [i \in DOMAIN sent |-> [sent[i] EXCEPT !.age = IF @ < age THEN age ELSE @]]
  BY DEF Delay
<1>2. sent \in Seq(Message) /\ DOMAIN sent = 1 .. Len(sent) /\ Len(sent) \in Nat
  BY DEF OrbitOK
<1>3. ASSUME NEW i \in DOMAIN sent
      PROVE  /\ sent'[i] \in Message
             /\ sent'[i].kind = sent[i].kind /\ sent'[i].from = sent[i].from
             /\ sent'[i].row = sent[i].row
             /\ sent[i].age \in 0 .. 2 /\ sent'[i].age \in 0 .. 2
             /\ sent'[i].age >= sent[i].age
  <2>1. sent[i] \in Message
    BY <1>2
  <2> DEFINE b == IF sent[i].age < age THEN age ELSE sent[i].age
  <2>2. sent[i].age \in 0 .. 2
    BY <2>1 DEF Message
  <2>3. b \in 0 .. 2 /\ b >= sent[i].age
    BY <2>2
  <2>4. sent'[i] = [sent[i] EXCEPT !.age = b]
    BY <1>1
  <2> HIDE DEF b
  <2>5. CASE sent[i] \in [kind : {"announcement"}, from : Nodes, row : Capsule, age : 0 .. 2]
    BY <2>2, <2>3, <2>4, <2>5 DEF Message
  <2>6. CASE sent[i] \in [kind : {"withdrawal"}, from : Nodes, row : {Nil}, age : 0 .. 2]
    BY <2>2, <2>3, <2>4, <2>6 DEF Message
  <2> QED
    BY <2>1, <2>5, <2>6 DEF Message
<1>4. DOMAIN sent' = DOMAIN sent
  BY <1>1
<1>5. sent' \in [1 .. Len(sent) -> Message]
  BY <1>1, <1>2, <1>3
<1>6. sent' \in Seq(Message)
  BY <1>2, <1>5
<1> QED
  BY <1>3, <1>4, <1>6

LEMMA DelayType ==
  ASSUME TypeOK, Delay
  PROVE  Typed'
<1> USE TypeParts
<1>1. OrbitOK'
  BY DelayFacts DEF Delay, OrbitOK
<1>2. WorldOK'
  <2>1. count' \in 1 .. MaxReplicas /\ done' \subseteq Disturb[count']
    BY DisturbedType DEF Delay
  <2> QED
    BY <2>1 DEF Delay, WorldOK
<1>3. RowsOK' /\ QueueOK' /\ ElectOK' /\ OwnOK'
  BY DEF Delay, RowsOK, QueueOK, ElectOK, OwnOK, Elections, History
<1> QED
  BY <1>1, <1>2, <1>3

LEMMA DedupCleanupType ==
  ASSUME TypeOK, NEW n \in Nodes, DedupCleanup(n)
  PROVE  Typed'
<1> USE TypeParts
<1>1. OrbitOK'
  BY DEF DedupCleanup, OrbitOK
<1>2. RowsOK' /\ QueueOK' /\ ElectOK' /\ WorldOK' /\ OwnOK'
  BY DEF DedupCleanup, RowsOK, QueueOK, ElectOK, WorldOK, OwnOK, Elections, History, World
<1> QED
  BY <1>1, <1>2

(* manager.Receive. *)
LEMMA ReceiveType ==
  ASSUME RowsOK, QueueOK, WorldOK, NEW n \in Nodes, NEW r \in Capsule, Receive(n, r)
  PROVE  RowsOK' /\ QueueOK'
<1>1. r.st \in Statuses
  BY DEF Capsule
<1>2. RowsOK'
  BY <1>1, NilAssumption DEF Receive, RowsOK
<1>3. InitialSlots \in SUBSET Slots
  BY SlotFacts DEF InitialSlots, WorldOK
<1>4. QueueOK'
  BY <1>3, RequestType DEF Receive, QueueOK
<1> QED
  BY <1>2, <1>4

LEMMA OnOrbitMessageType ==
  ASSUME TypeOK, NEW n \in Nodes, NEW i \in DOMAIN sent, NEW ch \in Channels,
         OnOrbitMessage(n, i, ch)
  PROVE  Typed'
<1> USE TypeParts
<1> DEFINE h == hist \cup (IF i \in applied[n] THEN {"twice"} ELSE {})
<1>1. h \in SUBSET Histories /\ hist \in SUBSET Histories
  BY OrbitChannels DEF Histories
<1>2. seen' \in [Nodes -> SUBSET DOMAIN sent]
  BY DEF OnOrbitMessage, OrbitOK
<1>3. sent[i] \in Message
  BY DEF OrbitOK
<1>4. ElectOK' /\ WorldOK' /\ run' = run /\ life' = life
  BY DEF OnOrbitMessage, ElectOK, WorldOK, Elections, History, World
<1>5. CASE Accepts(n, i)
  <2>1. /\ applied' = [applied EXCEPT ![n] = @ \cup {i}]
        /\ \/ /\ sent[i].kind = "announcement"
              /\ Receive(n, sent[i].row)
              /\ sent' = sent /\ chan' = ch /\ hist' = h
           \/ /\ sent[i].kind = "withdrawal" /\ row[n] # Nil
              /\ DeleteHere(n, ch, h)
              /\ UNCHANGED queue
           \/ /\ sent[i].kind = "withdrawal" /\ row[n] = Nil
              /\ sent' = sent /\ chan' = ch /\ hist' = h
              /\ UNCHANGED <<row, mach, queue, claimed>>
    BY <1>5 DEF OnOrbitMessage
  <2>2. applied' \in [Nodes -> SUBSET DOMAIN sent]
    BY <2>1 DEF OrbitOK
  <2> HIDE DEF h
  <2>3. CASE sent[i].kind = "announcement" /\ Receive(n, sent[i].row)
             /\ sent' = sent /\ chan' = ch /\ hist' = h
    <3>1. sent[i].row \in Capsule
      BY <1>3, <2>3 DEF Message
    <3>2. RowsOK' /\ QueueOK'
      BY <2>3, <3>1, ReceiveType
    <3>3. OrbitOK'
      BY <1>1, <1>2, <2>2, <2>3 DEF OrbitOK, Channels, Histories
    <3>4. OwnOK'
      BY <1>4, <2>3 DEF OwnOK, Receive
    <3> QED
      BY <1>4, <3>2, <3>3, <3>4
  <2>4. CASE DeleteHere(n, ch, h) /\ UNCHANGED queue
    <3>1. /\ RowsOK' /\ claimed' \subseteq Nodes
          /\ sent' \in Seq(Message) /\ DOMAIN sent \subseteq DOMAIN sent'
          /\ chan' \in Channels' /\ hist' \in SUBSET Histories
      BY <1>1, <2>4, DeleteHereType DEF OwnOK
    <3>2. OrbitOK'
      BY <1>2, <2>2, <3>1, OrbitGrows
    <3>3. OwnOK' /\ QueueOK'
      BY <1>4, <2>4, <3>1 DEF OwnOK, QueueOK
    <3> QED
      BY <1>4, <3>1, <3>2, <3>3
  <2>5. CASE /\ sent' = sent /\ chan' = ch /\ hist' = h
             /\ UNCHANGED <<row, mach, queue, claimed>>
    <3>1. OrbitOK'
      BY <1>1, <1>2, <2>2, <2>5 DEF OrbitOK, Channels, Histories
    <3>2. RowsOK' /\ QueueOK' /\ OwnOK'
      BY <1>4, <2>5 DEF RowsOK, QueueOK, OwnOK
    <3> QED
      BY <1>4, <3>1, <3>2
  <2> QED
    BY <2>1, <2>3, <2>4, <2>5
<1>6. CASE ~Accepts(n, i)
  <2>1. /\ sent' = sent /\ chan' = ch
        /\ hist' = hist \cup (IF i \in applied[n] THEN {} ELSE {"dropped"})
        /\ UNCHANGED <<row, mach, queue, claimed, applied>>
    BY <1>6 DEF OnOrbitMessage
  <2>2. OrbitOK'
    BY <1>1, <1>2, <2>1 DEF OrbitOK, Channels, Histories
  <2>3. RowsOK' /\ QueueOK' /\ OwnOK'
    BY <1>4, <2>1 DEF RowsOK, QueueOK, OwnOK
  <2> QED
    BY <1>4, <2>2, <2>3
<1> QED
  BY <1>5, <1>6

(* What is left to read when a message has been read. *)
LEMMA DeliverFacts ==
  ASSUME OrbitOK, NEW m \in Nodes, NEW n \in Nodes, NEW i \in chan[<<m, n>>]
  PROVE  i \in DOMAIN sent /\ [chan EXCEPT ![<<m, n>>] = @ \ {i}] \in Channels
<1>1. <<m, n>> \in Nodes \X Nodes /\ chan[<<m, n>>] \in SUBSET DOMAIN sent
  BY DEF OrbitOK
<1> QED
  BY <1>1 DEF OrbitOK, Channels

(* A delivery hands a message to the node. *)
LEMMA Delivery ==
  ASSUME OrbitOK, NEW m \in Nodes, NEW n \in Nodes, Deliver(m, n)
  PROVE  \E i \in DOMAIN sent, ch \in Channels :
           i \in chan[<<m, n>>] /\ OnOrbitMessage(n, i, ch)
<1>1. PICK i \in chan[<<m, n>>] :
        OnOrbitMessage(n, i, [chan EXCEPT ![<<m, n>>] = @ \ {i}])
  BY DEF Deliver
<1> QED
  BY <1>1, DeliverFacts

LEMMA DeliverType ==
  ASSUME TypeOK, NEW m \in Nodes, NEW n \in Nodes, Deliver(m, n)
  PROVE  Typed'
<1>1. PICK i \in DOMAIN sent, ch \in Channels : OnOrbitMessage(n, i, ch)
  BY TypeParts, Delivery
<1> QED
  BY <1>1, OnOrbitMessageType

LEMMA RedeliverType ==
  ASSUME TypeOK, NEW n \in Nodes, NEW i \in DOMAIN sent, Redeliver(n, i)
  PROVE  Typed'
  BY TypeParts, OrbitChannels, OnOrbitMessageType DEF Redeliver

(* A node leaves the orbit, comes back, dies, is found dead. *)
LEMMA Emptied ==
  ASSUME OrbitOK, NEW n \in Nodes
  PROVE  /\ [p \in Nodes \X Nodes |-> IF p[2] = n THEN {} ELSE chan[p]] \in Channels
         /\ [seen EXCEPT ![n] = {}] \in [Nodes -> SUBSET DOMAIN sent]
         /\ [applied EXCEPT ![n] = {}] \in [Nodes -> SUBSET DOMAIN sent]
  BY DEF OrbitOK, Channels

LEMMA LeaveClusterType ==
  ASSUME TypeOK, NEW n \in Nodes, LeaveCluster(n)
  PROVE  Typed'
<1> USE TypeParts
<1>1. OrbitOK'
  BY Emptied DEF LeaveCluster, OrbitOK, Channels
<1>2. WorldOK'
  <2>1. count' \in 1 .. MaxReplicas /\ done' \subseteq Disturb[count']
    BY DisturbedType DEF LeaveCluster
  <2> QED
    BY <2>1 DEF LeaveCluster, WorldOK
<1>3. RowsOK' /\ QueueOK' /\ OwnOK'
  BY DEF LeaveCluster, RowsOK, QueueOK, OwnOK
<1>4. ElectOK'
  BY DEF LeaveCluster, ElectOK, History
<1> QED
  BY <1>1, <1>2, <1>3, <1>4

LEMMA JoinOrbitType ==
  ASSUME TypeOK, NEW n \in Nodes, JoinOrbit(n)
  PROVE  Typed'
<1> USE TypeParts
<1>1. OrbitOK' /\ RowsOK' /\ QueueOK'
  BY DEF JoinOrbit, OrbitOK, RowsOK, QueueOK, Orbit
<1>2. ElectOK' /\ WorldOK' /\ OwnOK'
  BY DEF JoinOrbit, ElectOK, WorldOK, OwnOK, Elections, History
<1> QED
  BY <1>1, <1>2

LEMMA DieType ==
  ASSUME TypeOK, NEW n \in Nodes, Die(n)
  PROVE  Typed'
<1> USE TypeParts
<1>1. OrbitOK'
  BY Emptied DEF Die, OrbitOK, Channels
<1>2. WorldOK'
  <2>1. count' \in 1 .. MaxReplicas /\ done' \subseteq Disturb[count']
    BY DisturbedType DEF Die
  <2> QED
    BY <2>1 DEF Die, WorldOK
<1>3. RowsOK'
  BY DEF Die, RowsOK
<1>4. NoEvents \in [Kinds -> Seq(Slots \X Nodes)]
  BY DEF NoEvents
<1>5. QueueOK'
  BY <1>4 DEF Die, QueueOK, Events
<1>6. NoRounds \in [Slots -> RoundStates]
  BY DEF NoRounds, RoundStates
<1>7. ElectOK'
  BY <1>6 DEF Die, ElectOK, History
<1>8. OwnOK'
  BY DEF Die, OwnOK
<1> QED
  BY <1>1, <1>2, <1>3, <1>5, <1>7, <1>8

(* NodeFailed about a node that is dead, or that is not. *)
LEMMA DetectType ==
  ASSUME TypeOK, NEW n \in Nodes, NEW f \in Nodes, Detect(n, f) \/ FalseAlarm(n, f)
  PROVE  Typed'
<1> USE TypeParts
<1>1. (CHOOSE s \in Slots : TRUE) \in Slots
  BY SlotFacts
<1>2. QueueOK'
  <2>1. "node" \in Kinds /\ <<CHOOSE s \in Slots : TRUE, f>> \in Slots \X Nodes
    BY <1>1 DEF Kinds
  <2> QED
    BY <2>1, PostType DEF Detect, FalseAlarm, QueueOK
<1>3. OrbitOK' /\ RowsOK' /\ ElectOK' /\ OwnOK'
  BY DEF Detect, FalseAlarm, OrbitOK, RowsOK, ElectOK, OwnOK, Orbit, Elections, History
<1>4. WorldOK'
  BY DisturbedType DEF Detect, FalseAlarm, WorldOK
<1> QED
  BY <1>2, <1>3, <1>4

-----------------------------------------------------------------------------
(* Rounds. *)
Rounds == [Nodes -> [Slots -> RoundStates]]
Buffers == [Nodes -> [Slots -> Nodes \cup {Nil, "failure"}]]

LEMMA SetElType ==
  ASSUME el \in Rounds, NEW n \in Nodes, NEW s \in Slots, NEW v \in RoundStates,
         SetEl(n, s, v)
  PROVE  el' \in Rounds /\ el'[n][s] = v
<1>1. el' = [el EXCEPT ![n] = [el[n] EXCEPT ![s] = v]]
  BY DEF SetEl
<1> QED
  BY <1>1 DEF Rounds

LEMMA ForgetType ==
  ASSUME heard \in Buffers, NEW n \in Nodes, NEW s \in Slots,
         heard' = [heard EXCEPT ![n][s] = Nil]
  PROVE  heard' \in Buffers
<1>1. heard' = [heard EXCEPT ![n] = [heard[n] EXCEPT ![s] = Nil]]
  OBVIOUS
<1> QED
  BY <1>1 DEF Buffers

(* The end of a round, and what the others make of it: a round that hears of
   its winner is over, one that hears of a failure still has to report it. *)
LEMMA TellType ==
  ASSUME el \in Rounds, heard \in Buffers, NEW n \in Nodes, NEW s \in Slots,
         NEW v \in Nodes \cup {"failure"}, Tell(n, s, v)
  PROVE  /\ el' \in Rounds /\ heard' \in Buffers
         /\ \A m \in Nodes \ {n}, t \in Slots :
              el'[m][t] # el[m][t] => m \in Hearing(n, s) /\ t = s
         /\ v = "failure" => \A m \in Nodes \ {n}, t \in Slots :
              el[m][t] # "none" => el'[m][t] # "none"
         /\ \A t \in Slots \ {s} : el'[n][t] = el[n][t]
<1> DEFINE x(m) == IF m = n THEN "none"
                   ELSE IF m \notin Hearing(n, s) THEN el[m][s]
                   ELSE IF v = "failure" THEN v ELSE "none"
<1>1. el' = [m \in Nodes |-> [el[m] EXCEPT ![s] = x(m)]]
  BY DEF Tell
<1>2. \A m \in Nodes : x(m) \in RoundStates
  BY DEF Rounds, RoundStates
<1>3. \A m \in Nodes : m # n /\ el[m][s] # "none" /\ v = "failure" => x(m) # "none"
  OBVIOUS
<1>4. \A m \in Nodes : m # n /\ m \notin Hearing(n, s) => x(m) = el[m][s]
  OBVIOUS
<1> HIDE DEF x
<1>5. el' \in Rounds
  BY <1>1, <1>2 DEF Rounds
<1>6. \A m \in Nodes, t \in Slots : el'[m][t] = IF t = s THEN x(m) ELSE el[m][t]
  BY <1>1 DEF Rounds
<1>7. heard' \in Buffers
  <2>1. heard' = [m \in Nodes |-> IF m \in joined \ {n} /\ Closed(m, s)
                               THEN [heard[m] EXCEPT ![s] = v] ELSE heard[m]]
    BY DEF Tell
  <2> QED
    BY <2>1 DEF Buffers
<1> QED
  BY <1>3, <1>4, <1>5, <1>6, <1>7

(* What Dispatch does with the request it takes. *)
LEMMA DispatchFacts ==
  ASSUME TypeOK, NEW n \in Nodes, Dispatch(n)
  PROVE  LET s == Slot(n, "req")
             q == Drop(n, "req")
         IN  /\ s \in Slots /\ q \in Events
             /\ \/ /\ row[n] = Nil \/ n \notin joined \/ el[n][s] # "none"
                   /\ queue' = q /\ UNCHANGED <<row, mach, el, heard>>
                \/ /\ Fire(n, "election_started")
                   /\ row[n] # Nil /\ el[n][s] = "none"
                   /\ heard' \in Buffers /\ el' \in Rounds
                   /\ \/ queue' = q /\ el'[n][s] # "none"
                      \/ /\ heard[n][s] \in Nodes
                         /\ queue' = Post(q, n, "lost", <<s, heard[n][s]>>)
                         /\ UNCHANGED el
                   /\ \A m \in Nodes : m # n => el'[m] = el[m]
                   /\ \A t \in Slots : t # s => el'[n][t] = el[n][t]
<1> USE TypeParts
<1> DEFINE s == Slot(n, "req")
           q == Drop(n, "req")
           way == IF MayBid(n) THEN "bid" ELSE "aside"
<1>1. Takes(n, "req") /\ "req" \in Kinds
  BY DEF Dispatch, Takes, Kinds
<1>2. s \in Slots /\ q \in Events
  BY <1>1, DropType
<1>3. \/ /\ row[n] = Nil \/ n \notin joined \/ ~Closed(n, s)
         /\ queue' = q
         /\ UNCHANGED <<row, mach, el, heard>>
      \/ /\ row[n] # Nil /\ n \in joined /\ Closed(n, s)
         /\ Fire(n, "election_started")
         /\ heard' = [heard EXCEPT ![n][s] = Nil]
         /\ \/ heard[n][s] = Nil /\ SetEl(n, s, way) /\ queue' = q
            \/ heard[n][s] = "failure" /\ SetEl(n, s, "failure") /\ queue' = q
            \/ /\ heard[n][s] \in Nodes
               /\ queue' = Post(q, n, "lost", <<s, heard[n][s]>>)
               /\ UNCHANGED el
            \/ heard[n][s] \in Nodes /\ way = "bid" /\ SetEl(n, s, way) /\ queue' = q
  BY DEF Dispatch, Slot, Drop
<1>4. way \in RoundStates /\ way # "none" /\ "failure" \in RoundStates
  BY DEF RoundStates
<1>5. el \in Rounds /\ heard \in Buffers
  BY DEF ElectOK, Rounds, Buffers
<1> HIDE DEF s, q, way
<1>6. CASE /\ row[n] = Nil \/ n \notin joined \/ ~Closed(n, s)
           /\ queue' = q
           /\ UNCHANGED <<row, mach, el, heard>>
  BY <1>2, <1>6 DEF Closed, s, q
<1>7. CASE /\ row[n] # Nil /\ n \in joined /\ Closed(n, s)
           /\ Fire(n, "election_started")
           /\ heard' = [heard EXCEPT ![n][s] = Nil]
           /\ \/ heard[n][s] = Nil /\ SetEl(n, s, way) /\ queue' = q
              \/ heard[n][s] = "failure" /\ SetEl(n, s, "failure") /\ queue' = q
              \/ /\ heard[n][s] \in Nodes
                 /\ queue' = Post(q, n, "lost", <<s, heard[n][s]>>)
                 /\ UNCHANGED el
              \/ heard[n][s] \in Nodes /\ way = "bid" /\ SetEl(n, s, way) /\ queue' = q
  <2>1. heard' \in Buffers
    BY <1>2, <1>5, <1>7, ForgetType
  <2>2. CASE \E v \in RoundStates : v # "none" /\ SetEl(n, s, v) /\ queue' = q
    <3>1. PICK v \in RoundStates : v # "none" /\ SetEl(n, s, v) /\ queue' = q
      BY <2>2
    <3>2. el' \in Rounds /\ el'[n][s] = v
      BY <1>2, <1>5, <3>1, SetElType
    <3>3. /\ \A m \in Nodes : m # n => el'[m] = el[m]
          /\ \A t \in Slots : t # s => el'[n][t] = el[n][t]
      BY <1>2, <1>5, <3>1 DEF SetEl, Rounds
    <3> QED
      BY <1>2, <1>7, <2>1, <3>1, <3>2, <3>3 DEF Closed, s, q
  <2>3. CASE /\ heard[n][s] \in Nodes
             /\ queue' = Post(q, n, "lost", <<s, heard[n][s]>>)
             /\ UNCHANGED el
    BY <1>2, <1>5, <1>7, <2>1, <2>3 DEF Closed, s, q
  <2> QED
    BY <1>4, <1>7, <2>2, <2>3
<1> QED
  BY <1>3, <1>6, <1>7

LEMMA DispatchType ==
  ASSUME TypeOK, NEW n \in Nodes, Dispatch(n)
  PROVE  Typed'
<1> USE TypeParts
<1> DEFINE s == Slot(n, "req")
           q == Drop(n, "req")
<1>1. /\ s \in Slots /\ q \in Events
      /\ \/ queue' = q /\ UNCHANGED <<row, mach, el, heard>>
         \/ /\ Fire(n, "election_started")
            /\ heard' \in Buffers /\ el' \in Rounds
            /\ \/ queue' = q
               \/ heard[n][s] \in Nodes /\ queue' = Post(q, n, "lost", <<s, heard[n][s]>>)
  BY DispatchFacts
<1> HIDE DEF s, q
<1>2. QueueOK'
  <2>1. "lost" \in Kinds
    BY DEF Kinds
  <2> QED
    BY <1>1, <2>1, PostType DEF QueueOK
<1>3. RowsOK'
  <2>1. CASE Fire(n, "election_started")
    BY <2>1, FireType
  <2>2. CASE UNCHANGED <<row, mach>>
    BY <2>2 DEF RowsOK
  <2> QED
    BY <1>1, <2>1, <2>2
<1>4. won' = won /\ failed' = failed
  BY DEF Dispatch, History
<1>5. ElectOK'
  BY <1>1, <1>4 DEF ElectOK, Rounds, Buffers
<1>6. OrbitOK' /\ WorldOK' /\ OwnOK'
  BY DEF Dispatch, OrbitOK, WorldOK, OwnOK, Orbit, World
<1> QED
  BY <1>2, <1>3, <1>5, <1>6

(* What a win leaves in the queues. *)
LEMMA WinQueue ==
  ASSUME QueueOK, NEW n \in Nodes, NEW s \in Slots,
         queue' = [m \in Nodes |->
           IF m = n THEN [queue[m] EXCEPT !["won"] = Append(@, <<s, n>>),
                                          !["rt"] = Append(@, <<s, n>>)]
           ELSE IF m \in Hearing(n, s)
           THEN [queue[m] EXCEPT !["lost"] = Append(@, <<s, n>>)] ELSE queue[m]]
  PROVE  /\ QueueOK'
         /\ \A m \in Nodes, k \in Kinds : queue[m][k] # <<>> => queue'[m][k] # <<>>
         /\ \A m \in Nodes \ {n} : m \in Hearing(n, s) => queue'[m]["lost"] # <<>>
<1>1. \A m \in Nodes, k \in Kinds : queue[m][k] \in Seq(Slots \X Nodes)
  BY DEF QueueOK, Events
<1>2. \A m \in Nodes, k \in Kinds :
        /\ Append(queue[m][k], <<s, n>>) \in Seq(Slots \X Nodes)
        /\ Append(queue[m][k], <<s, n>>) # <<>>
  <2> TAKE m \in Nodes, k \in Kinds
  <2>1. queue[m][k] \in Seq(Slots \X Nodes) /\ <<s, n>> \in Slots \X Nodes
    BY <1>1
  <2> QED
    BY <2>1, OneMore
<1>3. {"won", "rt", "lost"} \subseteq Kinds
  BY DEF Kinds
<1>4. ASSUME NEW m \in Nodes
      PROVE  /\ queue'[m] \in [Kinds -> Seq(Slots \X Nodes)]
             /\ \A k \in Kinds : queue[m][k] # <<>> => queue'[m][k] # <<>>
             /\ m # n /\ m \in Hearing(n, s) => queue'[m]["lost"] # <<>>
  <2>1. queue[m] \in [Kinds -> Seq(Slots \X Nodes)]
    BY DEF QueueOK, Events
  <2>2. CASE m = n
    <3>1. queue'[m] = [k \in Kinds |-> IF k \in {"won", "rt"} THEN Append(queue[m][k], <<s, n>>)
                                       ELSE queue[m][k]]
      BY <1>3, <2>1, <2>2
    <3> DEFINE a(k) == Append(queue[m][k], <<s, n>>)
    <3>2. \A k \in Kinds : a(k) \in Seq(Slots \X Nodes) /\ a(k) # <<>>
      BY <1>2
    <3>3. queue'[m] = [k \in Kinds |-> IF k \in {"won", "rt"} THEN a(k) ELSE queue[m][k]]
      BY <3>1
    <3> HIDE DEF a
    <3>4. queue'[m] \in [Kinds -> Seq(Slots \X Nodes)]
      <4> DEFINE T == Seq(Slots \X Nodes)
                 g(k) == IF k \in {"won", "rt"} THEN a(k) ELSE queue[m][k]
      <4>1. \A k \in Kinds : g(k) \in T
        BY <1>1, <3>2
      <4>2. queue'[m] = [k \in Kinds |-> g(k)]
        BY <3>3
      <4> HIDE DEF T, g
      <4>3. queue'[m] \in [Kinds -> T]
        BY <4>1, <4>2
      <4> QED
        BY <4>3 DEF T
    <3>5. \A k \in Kinds : queue[m][k] # <<>> => queue'[m][k] # <<>>
      BY <3>2, <3>3
    <3> QED
      BY <2>2, <3>4, <3>5
  <2>3. CASE m # n /\ m \in Hearing(n, s)
    <3>1. queue'[m] = [queue[m] EXCEPT !["lost"] = Append(queue[m]["lost"], <<s, n>>)]
      BY <2>3
    <3> QED
      BY <1>2, <1>3, <2>1, <3>1
  <2>4. CASE m # n /\ m \notin Hearing(n, s)
    BY <2>1, <2>4
  <2> QED
    BY <2>2, <2>3, <2>4
<1>5. QueueOK'
  BY <1>4 DEF QueueOK, Events
<1> QED
  BY <1>4, <1>5

LEMMA WinType ==
  ASSUME TypeOK, NEW n \in Nodes, NEW s \in Slots, Win(n, s)
  PROVE  Typed'
<1> USE TypeParts
<1>1. el \in Rounds /\ heard \in Buffers
  BY DEF ElectOK, Rounds, Buffers
<1>2. el' \in Rounds /\ heard' \in Buffers
  BY <1>1, TellType DEF Win
<1>3. ElectOK'
  BY <1>2 DEF Win, ElectOK, Rounds, Buffers
<1>4. QueueOK'
  BY WinQueue DEF Win
<1>5. RowsOK'
  BY FireType DEF Win
<1>6. OrbitOK' /\ WorldOK' /\ OwnOK'
  BY DEF Win, OrbitOK, WorldOK, OwnOK, Orbit, World
<1> QED
  BY <1>3, <1>4, <1>5, <1>6

LEMMA StepAsideType ==
  ASSUME TypeOK, NEW n \in Nodes, NEW s \in Slots, StepAside(n, s)
  PROVE  Typed'
<1> USE TypeParts
<1>1. ElectOK'
  BY SetElType DEF StepAside, ElectOK, Rounds, RoundStates, History
<1>2. OrbitOK' /\ WorldOK' /\ OwnOK' /\ RowsOK' /\ QueueOK'
  BY DEF StepAside, OrbitOK, WorldOK, OwnOK, RowsOK, QueueOK, Orbit, World
<1> QED
  BY <1>1, <1>2

LEMMA FailRoundType ==
  ASSUME TypeOK, NEW n \in Nodes, NEW s \in Slots, FailRound(n, s)
  PROVE  Typed'
<1> USE TypeParts
<1>1. el \in Rounds /\ heard \in Buffers /\ "none" \in RoundStates
  BY DEF ElectOK, Rounds, Buffers, RoundStates
<1>2. el' \in Rounds /\ heard' \in Buffers
  <2>1. CASE n \in joined
    BY <1>1, <2>1, TellType DEF FailRound
  <2>2. CASE n \notin joined
    BY <1>1, <2>2, SetElType DEF FailRound
  <2> QED
    BY <2>1, <2>2
<1>3. ElectOK'
  BY <1>2 DEF FailRound, ElectOK, Rounds, Buffers
<1>4. QueueOK'
  BY PostType DEF FailRound, QueueOK, Kinds
<1>5. RowsOK'
  BY FireType DEF FailRound
<1>6. OrbitOK' /\ WorldOK' /\ OwnOK'
  BY DEF FailRound, OrbitOK, WorldOK, OwnOK, Orbit, World
<1> QED
  BY <1>3, <1>4, <1>5, <1>6

LEMMA ExpireBufferType ==
  ASSUME TypeOK, NEW n \in Nodes, NEW s \in Slots, ExpireBuffer(n, s)
  PROVE  Typed'
<1> USE TypeParts
<1>1. ElectOK'
  BY ForgetType DEF ExpireBuffer, ElectOK, Buffers, History
<1>2. OrbitOK' /\ WorldOK' /\ OwnOK' /\ RowsOK' /\ QueueOK'
  BY DEF ExpireBuffer, OrbitOK, WorldOK, OwnOK, RowsOK, QueueOK, Orbit, World
<1> QED
  BY <1>1, <1>2

-----------------------------------------------------------------------------
(* The subscribers. *)
LEMMA CalmType ==
  ASSUME TypeOK, UNCHANGED Calm, RowsOK', QueueOK', run' \subseteq Nodes \X Slots
  PROVE  Typed'
<1> USE TypeParts
<1>1. OrbitOK' /\ ElectOK' /\ WorldOK' /\ OwnOK'
  BY DEF Calm, OrbitOK, ElectOK, WorldOK, OwnOK, Orbit, Elections, History, World
<1> QED
  BY <1>1

(* AssignReplica. *)
LEMMA AssignType ==
  ASSUME RowsOK, NEW n \in Nodes, row[n] # Nil, NEW s \in Slots, NEW w \in Nodes
  PROVE  /\ row[n] \in Capsule
         /\ [row[n].rep EXCEPT ![s] = w] \in [Slots -> Nodes \cup {Nil}]
         /\ [row[n] EXCEPT !.rep = [row[n].rep EXCEPT ![s] = w]] \in Capsule
<1>1. row[n] \in Capsule
  BY DEF RowsOK
<1>2. [row[n].rep EXCEPT ![s] = w] \in [Slots -> Nodes \cup {Nil}]
  BY <1>1 DEF Capsule
<1> QED
  BY <1>1, <1>2 DEF Capsule

LEMMA OnElectionWonType ==
  ASSUME TypeOK, NEW n \in Nodes, OnElectionWon(n)
  PROVE  Typed'
<1> USE TypeParts
<1> DEFINE s == Slot(n, "won")
           w == Who(n, "won")
<1>1. s \in Slots /\ w \in Nodes /\ QueueOK'
  BY DropType DEF OnElectionWon, Kinds, QueueOK
<1>2. RowsOK'
  <2>1. CASE row[n] = Nil
    BY <2>1 DEF OnElectionWon, RowsOK
  <2>2. CASE row[n] # Nil
    <3>1. mach' = mach
          /\ row' = [row EXCEPT ![n] = [row[n] EXCEPT !.rep = [row[n].rep EXCEPT ![s] = w]]]
      BY <2>2 DEF OnElectionWon
    <3> HIDE DEF s, w
    <3>2. [row[n] EXCEPT !.rep = [row[n].rep EXCEPT ![s] = w]] \in Capsule
      BY <1>1, <2>2, AssignType
    <3> QED
      BY <2>2, <3>1, <3>2, NilAssumption DEF RowsOK
  <2> QED
    BY <2>1, <2>2
<1>3. UNCHANGED Calm /\ run' \subseteq Nodes \X Slots
  BY DEF OnElectionWon, OwnOK
<1> QED
  BY <1>1, <1>2, <1>3, CalmType

LEMMA OnElectionLostType ==
  ASSUME TypeOK, NEW n \in Nodes, OnElectionLost(n)
  PROVE  Typed' /\ (mach'[n] = "assigned" \/ mach'[n] = Nil)
<1> USE TypeParts
<1> DEFINE s == Slot(n, "lost")
           w == Who(n, "lost")
<1>1. s \in Slots /\ w \in Nodes /\ QueueOK'
  BY DropType DEF OnElectionLost, Kinds, QueueOK
<1>2. RowsOK' /\ (mach'[n] = "assigned" \/ mach'[n] = Nil)
  <2>1. CASE row[n] = Nil
    BY <2>1 DEF OnElectionLost, RowsOK
  <2>2. CASE row[n] # Nil
    <3> DEFINE r == [st |-> "assigned", rep |-> [row[n].rep EXCEPT ![s] = w]]
    <3>1. mach' = [mach EXCEPT ![n] = "assigned"] /\ row' = [row EXCEPT ![n] = r]
      BY <2>2 DEF OnElectionLost
    <3>2. [row[n].rep EXCEPT ![s] = w] \in [Slots -> Nodes \cup {Nil}]
      BY <1>1, <2>2, AssignType
    <3>3. r \in Capsule /\ "assigned" \in Statuses
      BY <3>2 DEF Capsule, Statuses
    <3> HIDE DEF r
    <3> QED
      BY <3>1, <3>3, NilAssumption DEF RowsOK
  <2> QED
    BY <2>1, <2>2
<1>3. UNCHANGED Calm /\ run' \subseteq Nodes \X Slots
  BY DEF OnElectionLost, OwnOK
<1> QED
  BY <1>1, <1>2, <1>3, CalmType

LEMMA OnElectionFailedType ==
  ASSUME TypeOK, NEW n \in Nodes, OnElectionFailed(n)
  PROVE  Typed'
<1> USE TypeParts
<1>1. QueueOK'
  BY DropType DEF OnElectionFailed, Kinds, QueueOK
<1>2. RowsOK'
  BY PutFacts DEF OnElectionFailed, Statuses
<1>3. UNCHANGED Calm /\ run' \subseteq Nodes \X Slots
  BY DEF OnElectionFailed, OwnOK
<1> QED
  BY <1>1, <1>2, <1>3, CalmType

LEMMA OnNodeFailedType ==
  ASSUME TypeOK, NEW n \in Nodes, OnNodeFailed(n)
  PROVE  Typed'
<1> USE TypeParts
<1> DEFINE S == {s \in Slots : row[n].rep[s] = Who(n, "node")}
<1>1. Drop(n, "node") \in Events
  BY DropType DEF OnNodeFailed, Kinds
<1>2. S \in SUBSET Slots
  OBVIOUS
<1>3. queue' = IF row[n] = Nil THEN Drop(n, "node") ELSE RequestElections(Drop(n, "node"), n, S)
  BY DEF OnNodeFailed
<1> HIDE DEF S
<1>4. QueueOK'
  BY <1>1, <1>2, <1>3, RequestType DEF QueueOK
<1>5. UNCHANGED Calm /\ run' \subseteq Nodes \X Slots /\ RowsOK'
  BY DEF OnNodeFailed, OwnOK, RowsOK
<1> QED
  BY <1>4, <1>5, CalmType

LEMMA OnContainerCrashType ==
  ASSUME TypeOK, NEW n \in Nodes, OnContainerCrash(n)
  PROVE  Typed'
<1> USE TypeParts
<1> DEFINE S == {s \in Slots : row[n].rep[s] = n}
<1>1. Drop(n, "crash") \in Events
  BY DropType DEF OnContainerCrash, Kinds
<1>2. S \in SUBSET Slots
  OBVIOUS
<1>3. queue' = IF row[n] = Nil THEN Drop(n, "crash") ELSE RequestElections(Drop(n, "crash"), n, S)
  BY DEF OnContainerCrash
<1> HIDE DEF S
<1>4. QueueOK'
  BY <1>1, <1>2, <1>3, RequestType DEF QueueOK
<1>5. UNCHANGED Calm /\ run' \subseteq Nodes \X Slots /\ RowsOK'
  BY DEF OnContainerCrash, OwnOK, RowsOK
<1> QED
  BY <1>4, <1>5, CalmType

(* The machine of n after its runtime has acted: no step of it leads into
   Electing. *)
LEMMA RuntimeRows ==
  ASSUME RowsOK, NEW n \in Nodes,
         \/ mach[n] = "assigned" /\ Put(n, "running")
         \/ Fire(n, "execution_failed")
         \/ UNCHANGED <<row, mach>>
  PROVE  /\ RowsOK'
         /\ \A m \in Nodes : mach'[m] = "electing" => mach[m] = "electing"
<1>1. CASE mach[n] = "assigned" /\ Put(n, "running")
  <2>1. "running" \in Statuses
    BY DEF Statuses
  <2>2. mach[n] # Nil
    BY <1>1, NilAssumption DEF Statuses
  <2> QED
    BY <1>1, <2>1, <2>2, PutFacts
<1>2. CASE Fire(n, "execution_failed")
  <2>1. mach[n] # Nil => mach[n] \in Statuses
    BY DEF RowsOK
  <2> QED
    BY <1>2, <2>1, FireType, FireFacts
<1>3. CASE UNCHANGED <<row, mach>>
  BY <1>3 DEF RowsOK
<1> QED
  BY <1>1, <1>2, <1>3

LEMMA RuntimeStartType ==
  ASSUME TypeOK, NEW n \in Nodes, RuntimeStart(n)
  PROVE  Typed'
<1> USE TypeParts
<1> DEFINE s == Slot(n, "rt")
<1>1. s \in Slots /\ Drop(n, "rt") \in Events
  BY DropType DEF RuntimeStart, Kinds
<1>2. \/ queue' = Drop(n, "rt") /\ run' = run \cup {<<n, s>>}
      \/ queue' = Post(Drop(n, "rt"), n, "crash", <<s, n>>) /\ run' = run
  BY DEF RuntimeStart
<1>3. \/ mach[n] = "assigned" /\ Put(n, "running")
      \/ Fire(n, "execution_failed")
      \/ UNCHANGED <<row, mach>>
  BY DEF RuntimeStart
<1>4. UNCHANGED <<done, count>> \/ Disturbed("crash")
  BY DEF RuntimeStart
<1>5. UNCHANGED <<Orbit, Elections, claimed, life, joined, alive, failedOn>>
  BY DEF RuntimeStart
<1> HIDE DEF s
<1>6. QueueOK'
  <2>1. "crash" \in Kinds /\ <<s, n>> \in Slots \X Nodes
    BY <1>1 DEF Kinds
  <2> QED
    BY <1>1, <1>2, <2>1, PostType DEF QueueOK
<1>7. RowsOK'
  BY <1>3, RuntimeRows
<1>8. WorldOK'
  BY <1>4, <1>5, DisturbedType DEF WorldOK
<1>9. OrbitOK' /\ ElectOK'
  BY <1>5 DEF OrbitOK, ElectOK, Orbit, Elections, History
<1>10. OwnOK'
  BY <1>1, <1>2, <1>5 DEF OwnOK
<1> QED
  BY <1>6, <1>7, <1>8, <1>9, <1>10

LEMMA ContainerDiesType ==
  ASSUME TypeOK, NEW n \in Nodes, NEW s \in Slots, ContainerDies(n, s)
  PROVE  Typed'
<1> USE TypeParts
<1>1. QueueOK'
  BY PostType DEF ContainerDies, QueueOK, Kinds
<1>2. RowsOK'
  BY RuntimeRows DEF ContainerDies
<1>3. UNCHANGED <<Orbit, Elections, claimed, life, joined, alive, failedOn>>
      /\ Disturbed("crash") /\ run' \subseteq run
  BY DEF ContainerDies
<1>4. WorldOK'
  BY <1>3, DisturbedType DEF WorldOK
<1>5. OrbitOK' /\ ElectOK'
  BY <1>3 DEF OrbitOK, ElectOK, Orbit, Elections, History
<1>6. OwnOK'
  BY <1>3 DEF OwnOK
<1> QED
  BY <1>1, <1>2, <1>4, <1>5, <1>6

-----------------------------------------------------------------------------
(* Which nodes have the capsule is changed by Create, messages, Delete and
   death only. *)
LEMMA RowsStill ==
  ASSUME TypeOK, Typed', NEW n \in Nodes, NEW s \in Slots, NEW m \in Nodes,
         Handle(n) \/ Elect(n, s) \/ ContainerDies(n, s) \/ Detect(n, m) \/ FalseAlarm(n, m)
         \/ JoinOrbit(n)
  PROVE  /\ \A k \in Nodes : row'[k] = Nil <=> row[k] = Nil
         /\ upd' = upd /\ done \subseteq done'
<1> USE TypeParts
<1>0. ASSUME \A k \in Nodes : mach'[k] = Nil <=> mach[k] = Nil
      PROVE  \A k \in Nodes : row'[k] = Nil <=> row[k] = Nil
  BY <1>0 DEF RowsOK
<1>1. ASSUME NEW t, Fire(n, t) PROVE \A k \in Nodes : row'[k] = Nil <=> row[k] = Nil
  BY <1>1, FireType
<1>2. ASSUME NEW u \in Statuses, Put(n, u) PROVE \A k \in Nodes : row'[k] = Nil <=> row[k] = Nil
  BY <1>2, PutFacts
<1>3. ASSUME UNCHANGED row PROVE \A k \in Nodes : row'[k] = Nil <=> row[k] = Nil
  BY <1>3
<1>4. "announced" \in Statuses /\ "running" \in Statuses
  BY DEF Statuses
<1>5. CASE OnElectionWon(n)
  BY <1>0, <1>5 DEF OnElectionWon, Calm, World
<1>6. CASE OnElectionLost(n)
  <2>1. \A k \in Nodes : mach'[k] = Nil <=> mach[k] = Nil
    <3>1. CASE row[n] = Nil
      BY <1>6, <3>1 DEF OnElectionLost
    <3>2. CASE row[n] # Nil
      <4>1. mach' = [mach EXCEPT ![n] = "assigned"]
        BY <1>6, <3>2 DEF OnElectionLost
      <4>2. "assigned" # Nil
        BY NilAssumption DEF Statuses
      <4> QED
        BY <3>2, <4>1, <4>2 DEF RowsOK
    <3> QED
      BY <3>1, <3>2
  <2> QED
    BY <1>0, <1>6, <2>1 DEF OnElectionLost, Calm, World
<1>7. CASE OnElectionFailed(n)
  BY <1>2, <1>4, <1>7 DEF OnElectionFailed, Calm, World
<1>8. CASE Dispatch(n)
  <2>1. UNCHANGED row \/ Fire(n, "election_started")
    BY <1>8 DEF Dispatch
  <2> QED
    BY <1>1, <1>3, <1>8, <2>1 DEF Dispatch, World
<1>9. CASE OnNodeFailed(n) \/ OnContainerCrash(n)
  BY <1>3, <1>9 DEF OnNodeFailed, OnContainerCrash, Calm, World
<1>10. CASE RuntimeStart(n)
  <2>1. Put(n, "running") \/ UNCHANGED row \/ Fire(n, "execution_failed")
    BY <1>10 DEF RuntimeStart
  <2> QED
    BY <1>1, <1>2, <1>3, <1>4, <1>10, <2>1 DEF RuntimeStart, Disturbed
<1>11. CASE CreateAnnounce(n)
  BY <1>1, <1>11 DEF CreateAnnounce, World
<1>12. CASE Elect(n, s)
  <2>1. UNCHANGED row \/ \E t : Fire(n, t)
    BY <1>12 DEF Elect, Win, StepAside, FailRound, ExpireBuffer
  <2>2. UNCHANGED <<upd, done>>
    BY <1>12 DEF Elect, Win, StepAside, FailRound, ExpireBuffer, World
  <2> QED
    BY <1>1, <1>3, <2>1, <2>2
<1>13. CASE ContainerDies(n, s)
  BY <1>1, <1>13 DEF ContainerDies, Disturbed
<1>14. CASE Detect(n, m) \/ FalseAlarm(n, m) \/ JoinOrbit(n)
  BY <1>3, <1>14 DEF Detect, FalseAlarm, JoinOrbit, Disturbed
<1> QED
  BY <1>5, <1>6, <1>7, <1>8, <1>9, <1>10, <1>11, <1>12, <1>13, <1>14 DEF Handle

(* The object of an Update stays what it is while it is stored, and is kept as
   it was when it leaves the store. *)
LEMMA HeldStays ==
  ASSUME HeldOK, upd' = upd, done \subseteq done',
         \A k \in Nodes : row[k] # Nil => row'[k] # Nil
  PROVE  HeldOK'
<1>1. upd' \in [Nodes -> Capsule \cup {Stored, Nil}]
  BY DEF HeldOK
<1>2. ASSUME NEW n \in Nodes
      PROVE  (upd'[n] = Stored => row'[n] # Nil) /\ (upd'[n] # Nil => "update" \in done')
  BY Zenon DEF HeldOK
<1> QED
  BY <1>1, <1>2 DEF HeldOK

LEMMA ReleaseHeld ==
  ASSUME TypeOK, NEW n \in Nodes, Release(n), done' = done,
         \A k \in Nodes \ {n} : row'[k] = row[k]
  PROVE  HeldOK'
<1>1. HeldOK /\ RowsOK
  BY TypeParts
<1>2. upd' = [upd EXCEPT ![n] = IF upd[n] = Stored THEN row[n] ELSE upd[n]]
  BY DEF Release
<1>3. upd'[n] \in Capsule \cup {Nil} /\ (upd'[n] # Nil => upd[n] # Nil)
  <2>1. upd[n] \in Capsule \cup {Stored, Nil} /\ row[n] \in Capsule \cup {Nil}
    BY <1>1 DEF HeldOK, RowsOK
  <2>2. upd'[n] = IF upd[n] = Stored THEN row[n] ELSE upd[n]
    BY <1>1, <1>2 DEF HeldOK
  <2>3. Stored # Nil
    BY NilAssumption
  <2> QED
    BY <2>1, <2>2, <2>3, Zenon
<1>4. upd'[n] # Stored
  BY <1>3, NilAssumption
<1>5. \A k \in Nodes \ {n} : upd'[k] = upd[k]
  BY <1>1, <1>2 DEF HeldOK
<1>6. upd' \in [Nodes -> Capsule \cup {Stored, Nil}]
  BY <1>1, <1>2, <1>3 DEF HeldOK
<1> QED
  BY <1>1, <1>3, <1>4, <1>5, <1>6 DEF HeldOK

LEMMA MessageHeld ==
  ASSUME TypeOK, NEW n \in Nodes, NEW i \in DOMAIN sent, NEW ch, OnOrbitMessage(n, i, ch)
  PROVE  HeldOK'
<1>1. done' = done /\ HeldOK /\ RowsOK
  BY TypeParts DEF OnOrbitMessage, World
<1>2. \/ \E r : Receive(n, r)
      \/ \E h : DeleteHere(n, ch, h)
      \/ UNCHANGED <<row, upd>>
  BY DEF OnOrbitMessage
<1>3. ASSUME NEW r, Receive(n, r) PROVE HeldOK'
  <2>1. Release(n) /\ \A k \in Nodes \ {n} : row'[k] = row[k]
    BY <1>1, <1>3 DEF Receive, RowsOK
  <2> QED
    BY <1>1, <2>1, ReleaseHeld
<1>4. ASSUME NEW h, DeleteHere(n, ch, h) PROVE HeldOK'
  <2>1. Release(n) /\ \A k \in Nodes \ {n} : row'[k] = row[k]
    BY <1>1, <1>4 DEF DeleteHere, RowsOK
  <2> QED
    BY <1>1, <2>1, ReleaseHeld
<1>5. CASE UNCHANGED <<row, upd>>
  BY <1>1, <1>5, HeldStays
<1> QED
  BY <1>2, <1>3, <1>4, <1>5

LEMMA CallHeld ==
  ASSUME TypeOK, NEW n \in Nodes,
         \/ CreateEmit(n) \/ Update(n) \/ UpdateEmit(n) \/ Delete(n)
         \/ LeaveCluster(n) \/ DedupCleanup(n) \/ Die(n) \/ Delay
  PROVE  HeldOK'
<1>1. HeldOK /\ RowsOK
  BY TypeParts
<1>2. CASE CreateEmit(n)
  <2> DEFINE r == [st |-> "created", rep |-> [s \in Slots |-> Nil]]
  <2>1. r \in Capsule
    BY DEF Capsule, Statuses
  <2>2. row' = [row EXCEPT ![n] = r] /\ upd' = upd /\ done' = done
    BY <1>2 DEF CreateEmit, World
  <2> HIDE DEF r
  <2>3. r # Nil
    BY <2>1, NilAssumption
  <2> QED
    BY <1>1, <2>2, <2>3, HeldStays DEF RowsOK
<1>3. CASE Update(n)
  <2>1. /\ upd' = [upd EXCEPT ![n] = Stored] /\ row' = row /\ row[n] # Nil
        /\ "update" \in done' /\ done \subseteq done'
    BY <1>3 DEF Update, Disturbed
  <2> QED
    BY <1>1, <2>1 DEF HeldOK
<1>4. CASE UpdateEmit(n)
  <2>1. upd' = [upd EXCEPT ![n] = Nil] /\ row' = row /\ done' = done
    BY <1>4 DEF UpdateEmit, World
  <2> QED
    BY <1>1, <2>1, NilAssumption DEF HeldOK
<1>5. CASE Delete(n)
  <2>1. Release(n) /\ done' = done /\ \A k \in Nodes \ {n} : row'[k] = row[k]
    BY <1>1, <1>5 DEF Delete, DeleteHere, World, RowsOK
  <2> QED
    BY <2>1, ReleaseHeld
<1>6. CASE LeaveCluster(n) \/ DedupCleanup(n) \/ Delay
  <2>1. upd' = upd /\ row' = row /\ done \subseteq done'
    BY <1>6 DEF LeaveCluster, DedupCleanup, Delay, World, Disturbed
  <2> QED
    BY <1>1, <2>1, HeldStays
<1>7. CASE Die(n)
  <2>1. /\ upd' = [upd EXCEPT ![n] = Nil] /\ row' = [row EXCEPT ![n] = Nil]
        /\ done \subseteq done'
    BY <1>7 DEF Die, Disturbed
  <2> QED
    BY <1>1, <2>1, NilAssumption DEF HeldOK, RowsOK
<1> QED
  BY <1>2, <1>3, <1>4, <1>5, <1>6, <1>7

-----------------------------------------------------------------------------
LEMMA NextTyped == TypeOK /\ [Next]_vars => Typed'
<1> SUFFICES ASSUME TypeOK, [Next]_vars PROVE Typed'
  OBVIOUS
<1>1. CASE UNCHANGED vars
  <2>1. TypeOK'
    BY <1>1 DEF vars, TypeOK
  <2> QED
    BY <2>1, TypeParts
<1>2. CASE Delay
  BY <1>2, DelayType
<1>3. ASSUME NEW n \in Nodes, Handle(n) PROVE Typed'
  BY <1>3, DispatchType, OnElectionWonType, OnElectionLostType, OnElectionFailedType,
     OnNodeFailedType, OnContainerCrashType, RuntimeStartType, CreateAnnounceType DEF Handle
<1>4. ASSUME NEW n \in Nodes, NEW s \in Slots, Elect(n, s) PROVE Typed'
  BY <1>4, WinType, StepAsideType, FailRoundType, ExpireBufferType DEF Elect
<1>5. ASSUME NEW n \in Nodes,
             \/ CreateEmit(n) \/ Update(n) \/ UpdateEmit(n) \/ Delete(n)
             \/ LeaveCluster(n) \/ JoinOrbit(n) \/ DedupCleanup(n) \/ Die(n)
      PROVE  Typed'
  BY <1>5, CreateEmitType, UpdateType, UpdateEmitType, DeleteType, LeaveClusterType,
     JoinOrbitType, DedupCleanupType, DieType
<1>6. ASSUME NEW n \in Nodes, NEW s \in Slots, ContainerDies(n, s) PROVE Typed'
  BY <1>6, ContainerDiesType
<1>7. ASSUME NEW n \in Nodes, NEW m \in Nodes,
             Deliver(m, n) \/ Detect(n, m) \/ FalseAlarm(n, m)
      PROVE  Typed'
  BY <1>7, DeliverType, DetectType
<1>8. ASSUME NEW n \in Nodes, NEW i \in DOMAIN sent, Redeliver(n, i) PROVE Typed'
  BY <1>8, RedeliverType
<1> QED
  BY <1>1, <1>2, <1>3, <1>4, <1>5, <1>6, <1>7, <1>8 DEF Next

LEMMA NextHeld == TypeOK /\ Typed' /\ [Next]_vars => HeldOK'
<1> SUFFICES ASSUME TypeOK, Typed', [Next]_vars PROVE HeldOK'
  OBVIOUS
<1>0. 0 \in Slots /\ HeldOK
  BY SlotFacts, TypeParts
<1>1. CASE UNCHANGED vars
  BY <1>0, <1>1, HeldStays DEF vars
<1>2. ASSUME NEW n \in Nodes, NEW s \in Slots, NEW m \in Nodes,
             \/ Handle(n) \/ Elect(n, s) \/ ContainerDies(n, s) \/ Detect(n, m)
             \/ FalseAlarm(n, m) \/ JoinOrbit(n)
      PROVE  HeldOK'
  BY <1>0, <1>2, RowsStill, HeldStays
<1>3. ASSUME NEW n \in Nodes,
             \/ CreateEmit(n) \/ Update(n) \/ UpdateEmit(n) \/ Delete(n)
             \/ LeaveCluster(n) \/ DedupCleanup(n) \/ Die(n)
      PROVE  HeldOK'
  BY <1>3, CallHeld
<1>4. ASSUME NEW n \in Nodes, NEW m \in Nodes, Deliver(m, n) PROVE HeldOK'
  BY <1>4, TypeParts, Delivery, MessageHeld
<1>5. ASSUME NEW n \in Nodes, NEW i \in DOMAIN sent, Redeliver(n, i) PROVE HeldOK'
  BY <1>5, MessageHeld DEF Redeliver
<1>6. CASE Delay
  <2>1. upd' = upd /\ row' = row /\ done \subseteq done'
    BY <1>6 DEF Delay, Disturbed
  <2> QED
    BY <1>0, <2>1, HeldStays
<1> QED
  BY <1>0, <1>1, <1>2, <1>3, <1>4, <1>5, <1>6 DEF Next

LEMMA NextType == TypeOK /\ [Next]_vars => TypeOK'
  BY NextTyped, NextHeld, TypeParts

(* The rows, machines, channels, queues, rounds and buffers of every node keep
   their types: in particular a node has a machine exactly when it has the
   capsule (capsule/manager.go and node/capsule_handler.go), whatever is
   delivered, lost, left or dead. *)
THEOREM TypeCorrect == Spec => []TypeOK
  BY InitType, NextType, PTL DEF Spec

-----------------------------------------------------------------------------
(* The steps that have nothing to do with the orbit. *)
LEMMA OrbitStill ==
  ASSUME NEW n, NEW s, NEW m,
         \/ Handle(n) \/ Elect(n, s) \/ ContainerDies(n, s) \/ Detect(n, m)
         \/ FalseAlarm(n, m) \/ JoinOrbit(n) \/ Update(n)
  PROVE  UNCHANGED Orbit
<1>1. CASE Handle(n)
  BY <1>1 DEF Handle, Dispatch, OnElectionWon, OnElectionLost, OnElectionFailed,
              OnNodeFailed, OnContainerCrash, RuntimeStart, CreateAnnounce, Calm
<1>2. CASE Elect(n, s)
  BY <1>2 DEF Elect, Win, StepAside, FailRound, ExpireBuffer
<1>3. CASE \/ ContainerDies(n, s) \/ Detect(n, m) \/ FalseAlarm(n, m)
           \/ JoinOrbit(n) \/ Update(n)
  BY <1>3 DEF ContainerDies, Detect, FalseAlarm, JoinOrbit, Update
<1> QED
  BY <1>1, <1>2, <1>3

(* AppliedOnce speaks of a moment at which a message comes again; what rules
   it out is what the deduplicator keeps: a message the node has acted on is
   remembered, or so old that the announcer does not accept it any more. *)
Remembered == \A n \in Nodes : \A i \in applied[n] : i \in seen[n] \/ Forgettable(i)

Dedup == Remembered /\ AppliedOnce

(* Messages that stay, or only grow older, are remembered as they were. *)
LEMMA RememberedStays ==
  ASSUME TypeOK, Dedup, applied' = applied, seen' = seen,
         \A i \in DOMAIN sent : sent[i].age \in Int /\ sent'[i].age \in Int
                                /\ sent'[i].age >= sent[i].age,
         hist' \subseteq hist \cup {"dropped", "deleted"}
  PROVE  Dedup'
<1>1. AppliedOnce'
  BY DEF Dedup, AppliedOnce
<1>2. Remembered'
  <2> SUFFICES ASSUME NEW n \in Nodes, NEW i \in applied[n] PROVE (i \in seen[n] \/ Forgettable(i))'
    BY DEF Remembered
  <2>1. i \in DOMAIN sent
    BY DEF TypeOK
  <2>2. i \in seen[n] \/ Forgettable(i)
    BY DEF Dedup, Remembered
  <2> QED
    BY <2>1, <2>2 DEF Forgettable
<1> QED
  BY <1>1, <1>2 DEF Dedup

LEMMA AgeType ==
  ASSUME OrbitOK, NEW i \in DOMAIN sent
  PROVE  sent[i].age \in 0 .. 2
<1>1. sent[i] \in Message
  BY DEF OrbitOK
<1> QED
  BY <1>1 DEF Message

LEMMA PublishDedup ==
  ASSUME TypeOK, Dedup, NEW n \in Nodes, CreateEmit(n) \/ UpdateEmit(n) \/ Delete(n)
  PROVE  Dedup'
<1> USE TypeParts
<1>1. /\ \A i \in DOMAIN sent : sent'[i] = sent[i]
      /\ hist' \subseteq hist \cup {"dropped", "deleted"}
  <2>1. CASE CreateEmit(n)
    <3> DEFINE r == [st |-> "created", rep |-> [s \in Slots |-> Nil]]
    <3>1. r \in Capsule
      BY DEF Capsule, Statuses
    <3>2. Broadcast(n, "announcement", r, chan, hist)
      BY <2>1 DEF CreateEmit
    <3> HIDE DEF r
    <3>3. [kind |-> "announcement", from |-> n, row |-> r, age |-> 0] \in Message
      BY <3>1, Announcement
    <3> QED
      BY <3>2, <3>3, BroadcastFacts, OrbitChannels
  <2>2. CASE UpdateEmit(n)
    BY <2>2, HeldRow, BroadcastFacts, OrbitChannels
  <2>3. CASE Delete(n)
    <3>1. hist \cup {"deleted"} \in SUBSET Histories /\ chan \in Channels
      BY OrbitChannels DEF Histories
    <3>2. DeleteHere(n, chan, hist \cup {"deleted"})
      BY <2>3 DEF Delete
    <3> QED
      BY <3>1, <3>2, DeleteHereType DEF OwnOK
  <2> QED
    BY <2>1, <2>2, <2>3
<1>2. seen' = seen /\ applied' = applied
  BY DEF CreateEmit, UpdateEmit, Delete
<1>3. \A i \in DOMAIN sent : sent[i].age \in Int /\ sent'[i].age \in Int
                             /\ sent'[i].age >= sent[i].age
  BY <1>1, AgeType
<1> QED
  BY <1>1, <1>2, <1>3, RememberedStays

(* A message that has been acted on is not accepted again, and its coming
   again leaves everything but the deduplicator alone. *)
LEMMA SecondComing ==
  ASSUME TypeOK, Dedup, NEW n \in Nodes, NEW i \in applied[n], NEW ch,
         OnOrbitMessage(n, i, ch)
  PROVE  /\ ~Accepts(n, i)
         /\ sent' = sent /\ chan' = ch /\ hist' = hist
         /\ UNCHANGED <<row, mach, queue, claimed, applied>>
<1>1. i \in DOMAIN sent
  BY DEF TypeOK
<1>2. sent[i].age \in 0 .. 2
  BY <1>1, AgeType, TypeParts
<1>3. ~Accepts(n, i)
  <2>1. i \in seen[n] \/ Forgettable(i)
    BY DEF Dedup, Remembered
  <2> QED
    BY <1>2, <2>1 DEF Accepts, Stale, Forgettable
<1> QED
  BY <1>3 DEF OnOrbitMessage

LEMMA MessageDedup ==
  ASSUME TypeOK, Dedup, NEW n \in Nodes, NEW i \in DOMAIN sent, NEW ch \in Channels,
         OnOrbitMessage(n, i, ch)
  PROVE  Dedup'
<1> USE TypeParts
<1>1. seen' = [seen EXCEPT ![n] = @ \cup {i}] /\ seen \in [Nodes -> SUBSET DOMAIN sent]
      /\ applied \in [Nodes -> SUBSET DOMAIN sent]
  BY DEF OnOrbitMessage, OrbitOK
<1>2. CASE i \in applied[n]
  <2>1. sent' = sent /\ hist' = hist /\ applied' = applied
    BY <1>2, SecondComing
  <2> QED
    BY <1>1, <2>1 DEF Dedup, Remembered, AppliedOnce, Forgettable
<1>3. CASE i \notin applied[n]
  <2>1. applied' = applied \/ applied' = [applied EXCEPT ![n] = @ \cup {i}]
    BY DEF OnOrbitMessage
  <2>2. /\ \A k \in DOMAIN sent : sent'[k] = sent[k]
        /\ hist' \subseteq hist \cup {"dropped"}
    <3>1. hist \cup {} = hist
      OBVIOUS
    <3>2. CASE DeleteHere(n, ch, hist)
      BY <3>2, DeleteHereType, OrbitChannels DEF OwnOK
    <3>3. CASE sent' = sent /\ (hist' = hist \/ hist' = hist \cup {"dropped"})
      BY <3>3
    <3> QED
      BY <1>3, <3>1, <3>2, <3>3 DEF OnOrbitMessage
  <2>3. Remembered'
    <3> SUFFICES ASSUME NEW m \in Nodes, NEW k \in applied'[m]
                 PROVE  (k \in seen[m] \/ Forgettable(k))'
      BY DEF Remembered
    <3>1. CASE m = n /\ k = i
      BY <1>1, <3>1
    <3>2. CASE k \in applied[m]
      <4>1. k \in seen[m] \/ Forgettable(k)
        BY <3>2 DEF Dedup, Remembered
      <4>2. k \in DOMAIN sent
        BY <1>1, <3>2
      <4> QED
        BY <1>1, <2>2, <4>1, <4>2 DEF Forgettable
    <3> QED
      BY <1>1, <2>1, <3>1, <3>2
  <2> QED
    BY <2>2, <2>3 DEF Dedup, AppliedOnce
<1> QED
  BY <1>2, <1>3

LEMMA OtherDedup ==
  ASSUME TypeOK, Dedup, NEW n \in Nodes,
         DedupCleanup(n) \/ LeaveCluster(n) \/ Die(n)
  PROVE  Dedup'
<1>1. /\ seen \in [Nodes -> SUBSET DOMAIN sent] /\ applied \in [Nodes -> SUBSET DOMAIN sent]
      /\ sent' = sent
  BY DEF TypeOK, DedupCleanup, LeaveCluster, Die
<1>2. CASE DedupCleanup(n)
  BY <1>1, <1>2 DEF DedupCleanup, Dedup, Remembered, AppliedOnce, Forgettable
<1>3. CASE LeaveCluster(n)
  BY <1>1, <1>3 DEF LeaveCluster, Dedup, Remembered, AppliedOnce, Forgettable
<1>4. CASE Die(n)
  BY <1>1, <1>4 DEF Die, Dedup, Remembered, AppliedOnce, Forgettable
<1> QED
  BY <1>2, <1>3, <1>4

LEMMA NextDedup == TypeOK /\ Dedup /\ [Next]_vars => Dedup'
<1> SUFFICES ASSUME TypeOK, Dedup, [Next]_vars PROVE Dedup'
  OBVIOUS
<1>0. ASSUME UNCHANGED Orbit PROVE Dedup'
  BY <1>0 DEF Orbit, Dedup, Remembered, AppliedOnce, Forgettable
<1>1. CASE UNCHANGED vars
  BY <1>0, <1>1 DEF vars, Orbit
<1>2. CASE Delay
  <2>1. \A i \in DOMAIN sent : sent[i].age \in Int /\ sent'[i].age \in Int
                               /\ sent'[i].age >= sent[i].age
    BY <1>2, DelayFacts, TypeParts
  <2>2. applied' = applied /\ seen' = seen /\ hist' \subseteq hist \cup {"dropped", "deleted"}
    BY <1>2 DEF Delay
  <2> QED
    BY <2>1, <2>2, RememberedStays
<1>3. ASSUME NEW n \in Nodes, NEW s \in Slots, NEW m \in Nodes,
             \/ Handle(n) \/ Elect(n, s) \/ ContainerDies(n, s) \/ Detect(n, m)
             \/ FalseAlarm(n, m) \/ JoinOrbit(n) \/ Update(n)
      PROVE  Dedup'
  BY <1>0, <1>3, OrbitStill
<1>4. ASSUME NEW n \in Nodes, CreateEmit(n) \/ UpdateEmit(n) \/ Delete(n) PROVE Dedup'
  BY <1>4, PublishDedup
<1>5. ASSUME NEW n \in Nodes, DedupCleanup(n) \/ LeaveCluster(n) \/ Die(n) PROVE Dedup'
  BY <1>5, OtherDedup
<1>6. ASSUME NEW n \in Nodes, NEW m \in Nodes, Deliver(m, n) PROVE Dedup'
  BY <1>6, TypeParts, Delivery, MessageDedup
<1>7. ASSUME NEW n \in Nodes, NEW i \in DOMAIN sent, Redeliver(n, i) PROVE Dedup'
  BY <1>7, TypeParts, OrbitChannels, MessageDedup DEF Redeliver
<1>8. 0 \in Slots
  BY SlotFacts
<1> QED
  BY <1>1, <1>2, <1>3, <1>4, <1>5, <1>6, <1>7, <1>8 DEF Next

LEMMA InitDedup == Init => Dedup
  BY DEF Init, Dedup, Remembered, AppliedOnce

(* A message of the orbit that gossip brings again, at any later moment, is
   not acted on again (Announcer.HandleMessage, Deduplicator and its cleanup
   loop): for any number of nodes, messages and copies. *)
THEOREM NeverAppliedTwice == Spec => []AppliedOnce
<1>1. Dedup => AppliedOnce
  BY DEF Dedup
<1> QED
  BY <1>1, TypeCorrect, InitDedup, NextDedup, PTL DEF Spec

-----------------------------------------------------------------------------
(* NoStuckElecting speaks of a system at rest; what leads there is that a
   machine in Electing has something left that takes it out: an open round, a
   verdict to record, or, for a capsule that came in Electing, a request. *)
Busy(n) ==
  mach[n] = "electing" =>
    \/ \E s \in Slots : el[n][s] # "none"
    \/ queue[n]["lost"] # <<>> \/ queue[n]["fail"] # <<>>
    \/ "update" \in done /\ queue[n]["req"] # <<>>
    \/ {"update", "leave"} \subseteq done

(* A capsule is announced in Electing by Update only. *)
Quiet == "update" \notin done =>
  \A i \in DOMAIN sent : sent[i].kind = "announcement" => sent[i].row.st # "electing"

Present == "leave" \notin done => joined = alive

Electing == (\A n \in Nodes : Busy(n)) /\ Quiet /\ Present

LEMMA BusyStays ==
  ASSUME NEW k \in Nodes, Busy(k), done \subseteq done',
         mach'[k] = "electing" => mach[k] = "electing",
         \A s \in Slots : el[k][s] # "none" => el'[k][s] # "none",
         \A j \in {"lost", "fail", "req"} : queue[k][j] # <<>> => queue'[k][j] # <<>>
  PROVE  Busy(k)'
<1> SUFFICES ASSUME mach'[k] = "electing" PROVE Busy(k)'
  BY DEF Busy
<1>1. CASE \E s \in Slots : el[k][s] # "none"
  BY <1>1 DEF Busy
<1>2. CASE queue[k]["lost"] # <<>> \/ queue[k]["fail"] # <<>>
  BY <1>2 DEF Busy
<1>3. CASE "update" \in done /\ queue[k]["req"] # <<>>
  BY <1>3 DEF Busy
<1>4. CASE {"update", "leave"} \subseteq done
  BY <1>4 DEF Busy
<1> QED
  BY <1>1, <1>2, <1>3, <1>4 DEF Busy

LEMMA NilIsNotElecting == Nil # "electing" /\ "electing" \in Statuses
  BY NilAssumption DEF Statuses

LEMMA DispatchBusy ==
  ASSUME TypeOK, Electing, NEW n \in Nodes, Dispatch(n), NEW k \in Nodes
  PROVE  Busy(k)'
<1> USE TypeParts
<1> DEFINE s == Slot(n, "req")
           q == Drop(n, "req")
<1>1. /\ s \in Slots /\ q \in Events
      /\ \/ /\ row[n] = Nil \/ n \notin joined \/ el[n][s] # "none"
            /\ queue' = q /\ UNCHANGED <<row, mach, el, heard>>
         \/ /\ Fire(n, "election_started")
            /\ row[n] # Nil /\ el[n][s] = "none"
            /\ heard' \in Buffers /\ el' \in Rounds
            /\ \/ queue' = q /\ el'[n][s] # "none"
               \/ /\ heard[n][s] \in Nodes
                  /\ queue' = Post(q, n, "lost", <<s, heard[n][s]>>)
                  /\ UNCHANGED el
            /\ \A m \in Nodes : m # n => el'[m] = el[m]
            /\ \A t \in Slots : t # s => el'[n][t] = el[n][t]
  BY DispatchFacts
<1>2. n \in alive /\ Takes(n, "req") /\ done' = done /\ Busy(k) /\ {"req", "lost", "fail"} \subseteq Kinds
  BY DEF Dispatch, World, Electing, Takes, Kinds
<1>3. \A m \in Nodes, j \in Kinds : m # n \/ j # "req" => q[m][j] = queue[m][j]
  BY <1>2, DropType
<1> HIDE DEF s, q
<1>4. CASE queue' = Post(q, n, "lost", <<s, heard[n][s]>>) /\ heard[n][s] \in Nodes
  <2>0. <<s, heard[n][s]>> \in Slots \X Nodes
    BY <1>1, <1>4
  <2>1. /\ \A m \in Nodes, j \in Kinds : m # n \/ j # "lost" => queue'[m][j] = q[m][j]
        /\ queue'[n]["lost"] # <<>>
    <3>1. queue' = Post(q, n, "lost", <<s, heard[n][s]>>) /\ q \in Events /\ "lost" \in Kinds
      BY <1>1, <1>2, <1>4
    <3> QED
      BY <2>0, <3>1, PostType
  <2> QED
    <3>1. CASE k = n
      BY <2>1, <3>1 DEF Busy
    <3>2. CASE k # n
      <4>1. mach'[k] = mach[k]
        BY <1>1, <3>2, FireType
      <4>2. el'[k] = el[k]
        BY <1>1, <3>2
      <4>3. \A j \in {"lost", "fail", "req"} : queue'[k][j] = queue[k][j]
        BY <1>2, <1>3, <2>1, <3>2
      <4> QED
        BY <1>2, <4>1, <4>2, <4>3, BusyStays
    <3> QED
      BY <3>1, <3>2
<1>5. CASE queue' = q /\ ~(queue' = Post(q, n, "lost", <<s, heard[n][s]>>) /\ heard[n][s] \in Nodes)
  <2>1. CASE k # n
    <3>1. mach'[k] = mach[k]
      BY <1>1, <2>1, FireType
    <3>2. el'[k] = el[k]
      BY <1>1, <2>1
    <3>3. \A j \in {"lost", "fail", "req"} : queue'[k][j] = queue[k][j]
      BY <1>2, <1>3, <1>5, <2>1
    <3> QED
      BY <1>2, <3>1, <3>2, <3>3, BusyStays
  <2>2. CASE k = n /\ el'[n][s] # "none"
    BY <1>1, <2>2 DEF Busy
  <2>3. CASE k = n /\ el'[n][s] = "none"
    <3>1. /\ UNCHANGED <<mach, el>>
          /\ row[n] = Nil \/ n \notin joined
          /\ queue'[n]["lost"] = queue[n]["lost"] /\ queue'[n]["fail"] = queue[n]["fail"]
      <4>1. queue'[n]["lost"] = queue[n]["lost"] /\ queue'[n]["fail"] = queue[n]["fail"]
        BY <1>2, <1>3, <1>5
      <4> QED
        BY <1>1, <1>5, <2>3, <4>1
    <3>2. CASE row[n] = Nil
      BY <2>3, <3>1, <3>2, NilIsNotElecting DEF Busy, RowsOK
    <3>3. CASE n \notin joined
      <4>1. "leave" \in done
        BY <1>2, <3>3 DEF Electing, Present
      <4> QED
        BY <1>2, <2>3, <3>1, <4>1 DEF Busy
    <3> QED
      BY <3>1, <3>2, <3>3
  <2> QED
    BY <2>1, <2>2, <2>3
<1> QED
  BY <1>1, <1>4, <1>5

LEMMA WinBusy ==
  ASSUME TypeOK, Electing, NEW n \in Nodes, NEW s \in Slots, Win(n, s), NEW k \in Nodes
  PROVE  Busy(k)'
<1> USE TypeParts
<1>1. el \in Rounds /\ heard \in Buffers /\ Busy(k) /\ done' = done /\ Tell(n, s, n)
  BY DEF ElectOK, Rounds, Buffers, Electing, Win, World
<1>2. Fire(n, "election_won")
  BY DEF Win
<1>3. CASE k = n
  <2>1. mach[n] # Nil => mach[n] \in Statuses
    BY DEF RowsOK
  <2>2. mach'[n] # "electing"
    BY <1>2, <2>1, FireType, FireFacts, NilIsNotElecting
  <2> QED
    BY <1>3, <2>2 DEF Busy
<1>4. CASE k # n
  <2>1. /\ \A j \in Kinds : queue[k][j] # <<>> => queue'[k][j] # <<>>
        /\ k \in Hearing(n, s) => queue'[k]["lost"] # <<>>
    BY <1>4, WinQueue DEF Win
  <2>2. mach'[k] = mach[k]
    BY <1>2, <1>4, FireType
  <2>3. CASE k \in Hearing(n, s)
    BY <2>1, <2>3 DEF Busy
  <2>4. CASE k \notin Hearing(n, s)
    <3>1. \A t \in Slots : el'[k][t] = el[k][t]
      BY <1>1, <1>4, <2>4, TellType
    <3>2. {"lost", "fail", "req"} \subseteq Kinds
      BY DEF Kinds
    <3> QED
      BY <1>1, <2>1, <2>2, <3>1, <3>2, BusyStays
  <2> QED
    BY <2>3, <2>4
<1> QED
  BY <1>3, <1>4

LEMMA FailRoundBusy ==
  ASSUME TypeOK, Electing, NEW n \in Nodes, NEW s \in Slots, FailRound(n, s), NEW k \in Nodes
  PROVE  Busy(k)'
<1> USE TypeParts
<1>1. el \in Rounds /\ heard \in Buffers /\ Busy(k) /\ done' = done
      /\ Fire(n, "election_timeout")
  BY DEF ElectOK, Rounds, Buffers, Electing, FailRound, World
<1>2. CASE k = n
  <2>1. mach[n] # Nil => mach[n] \in Statuses
    BY DEF RowsOK
  <2>2. mach'[n] # "electing"
    BY <1>1, <2>1, FireType, FireFacts, NilIsNotElecting
  <2> QED
    BY <1>2, <2>2 DEF Busy
<1>3. CASE k # n
  <2>1. queue' = Post(queue, n, "fail", <<s, n>>) /\ queue \in Events
    BY DEF FailRound, QueueOK
  <2>2. {"lost", "fail", "req"} \subseteq Kinds /\ <<s, n>> \in Slots \X Nodes
    BY DEF Kinds
  <2>3. \A j \in {"lost", "fail", "req"} : queue'[k][j] = queue[k][j]
    BY <1>3, <2>1, <2>2, PostType
  <2>4. mach'[k] = mach[k]
    BY <1>1, <1>3, FireType
  <2>5. \A t \in Slots : el[k][t] # "none" => el'[k][t] # "none"
    <3>1. CASE n \in joined
      <4>1. Tell(n, s, "failure")
        BY <3>1 DEF FailRound
      <4> QED
        BY <1>1, <1>3, <4>1, TellType
    <3>2. CASE n \notin joined
      <4>1. el' = [el EXCEPT ![n] = [el[n] EXCEPT ![s] = "none"]]
        BY <3>2 DEF FailRound, SetEl
      <4> QED
        BY <1>1, <1>3, <4>1 DEF Rounds
    <3> QED
      BY <3>1, <3>2
  <2> QED
    BY <1>1, <2>3, <2>4, <2>5, BusyStays
<1> QED
  BY <1>2, <1>3

(* The other steps of the elections. *)
LEMMA RoundBusy ==
  ASSUME TypeOK, Electing, NEW n \in Nodes, NEW s \in Slots,
         StepAside(n, s) \/ ExpireBuffer(n, s), NEW k \in Nodes
  PROVE  Busy(k)'
<1> USE TypeParts
<1>1. UNCHANGED <<mach, queue, done>> /\ Busy(k) /\ el \in Rounds
  BY DEF StepAside, ExpireBuffer, World, Electing, ElectOK, Rounds
<1>2. \A t \in Slots : el[k][t] # "none" => el'[k][t] # "none"
  <2>1. CASE StepAside(n, s)
    <3>1. el' = [el EXCEPT ![n] = [el[n] EXCEPT ![s] = "aside"]]
      BY <2>1 DEF StepAside, SetEl
    <3> QED
      BY <1>1, <3>1 DEF Rounds
  <2>2. CASE ExpireBuffer(n, s)
    BY <2>2 DEF ExpireBuffer
  <2> QED
    BY <2>1, <2>2
<1> QED
  BY <1>1, <1>2, BusyStays

(* A subscriber takes an event of kind j and leaves the rounds alone. *)
LEMMA TakeBusy ==
  ASSUME TypeOK, Electing, NEW n \in Nodes, NEW j \in Kinds, Takes(n, j),
         done \subseteq done', el' = el, NEW k \in Nodes,
         NEW q \in Events, queue' = q,
         \A m \in Nodes, i \in {"lost", "fail", "req"} :
           (m # n \/ i # j) /\ Drop(n, j)[m][i] # <<>> => q[m][i] # <<>>,
         \A m \in Nodes : mach'[m] = "electing" => mach[m] = "electing",
         j \in {"lost", "fail", "req"} => mach'[n] # "electing"
  PROVE  Busy(k)'
<1> USE TypeParts
<1>1. \A m \in Nodes, i \in Kinds : m # n \/ i # j => Drop(n, j)[m][i] = queue[m][i]
  BY DropType
<1>2. {"lost", "fail", "req"} \subseteq Kinds /\ Busy(k)
  BY DEF Kinds, Electing
<1>3. CASE k # n \/ j \notin {"lost", "fail", "req"}
  <2>1. \A i \in {"lost", "fail", "req"} : queue[k][i] # <<>> => queue'[k][i] # <<>>
    BY <1>1, <1>2, <1>3
  <2> QED
    BY <1>2, <2>1, BusyStays
<1>4. CASE k = n /\ j \in {"lost", "fail", "req"}
  BY <1>4 DEF Busy
<1> QED
  BY <1>3, <1>4

LEMMA HandleBusy ==
  ASSUME TypeOK, Electing, NEW n \in Nodes, Handle(n), NEW k \in Nodes
  PROVE  Busy(k)'
<1> USE TypeParts
<1>0. Kinds = {"req", "won", "rt", "lost", "fail", "node", "crash"} /\ queue \in Events
  BY DEF Kinds, QueueOK
<1>1. CASE Dispatch(n)
  BY <1>1, DispatchBusy
<1>2. CASE OnElectionWon(n)
  <2>1. Takes(n, "won") /\ queue' = Drop(n, "won") /\ UNCHANGED <<mach, el, done>>
    BY <1>2 DEF OnElectionWon, Calm, World, Elections
  <2>2. Drop(n, "won") \in Events
    BY <1>0, <2>1, DropType
  <2> QED
    BY <1>0, <2>1, <2>2, TakeBusy
<1>3. CASE OnElectionLost(n)
  <2>1. Takes(n, "lost") /\ queue' = Drop(n, "lost") /\ UNCHANGED <<el, done>>
    BY <1>3 DEF OnElectionLost, Calm, World, Elections
  <2>2. Drop(n, "lost") \in Events
    BY <1>0, <2>1, DropType
  <2>3. mach'[n] # "electing"
    BY <1>3, OnElectionLostType, NilIsNotElecting
  <2>4. \A m \in Nodes \ {n} : mach'[m] = mach[m]
    BY <1>3 DEF OnElectionLost, RowsOK
  <2> QED
    BY <1>0, <2>1, <2>2, <2>3, <2>4, TakeBusy
<1>4. CASE OnElectionFailed(n)
  <2>1. Takes(n, "fail") /\ queue' = Drop(n, "fail") /\ UNCHANGED <<el, done>>
        /\ Put(n, "announced")
    BY <1>4 DEF OnElectionFailed, Calm, World, Elections
  <2>2. Drop(n, "fail") \in Events
    BY <1>0, <2>1, DropType
  <2>3. "announced" \in Statuses
    BY DEF Statuses
  <2>4. mach'[n] # "electing" /\ \A m \in Nodes \ {n} : mach'[m] = mach[m]
    BY <2>1, <2>3, PutFacts, NilIsNotElecting
  <2> QED
    BY <1>0, <2>1, <2>2, <2>4, TakeBusy
<1>5. ASSUME NEW j \in {"node", "crash"}, Takes(n, j), UNCHANGED <<mach, el, done>>,
             NEW S \in SUBSET Slots,
             queue' = Drop(n, j) \/ queue' = RequestElections(Drop(n, j), n, S)
      PROVE  Busy(k)'
  <2>1. Drop(n, j) \in Events /\ j \in Kinds
    BY <1>0, <1>5, DropType
  <2>2. CASE queue' = Drop(n, j)
    BY <1>0, <1>5, <2>1, <2>2, TakeBusy
  <2>3. CASE queue' = RequestElections(Drop(n, j), n, S)
    <3>1. /\ queue' \in Events
          /\ \A m \in Nodes, i \in Kinds :
              m # n \/ i # "req" => queue'[m][i] = Drop(n, j)[m][i]
          /\ Drop(n, j)[n]["req"] # <<>> => queue'[n]["req"] # <<>>
      BY <2>1, <2>3, RequestType
    <3>2. \A m \in Nodes, i \in {"lost", "fail", "req"} :
            Drop(n, j)[m][i] # <<>> => queue'[m][i] # <<>>
      BY <1>0, <3>1
    <3> QED
      BY <1>0, <1>5, <2>1, <3>1, <3>2, TakeBusy
  <2> QED
    BY <1>5, <2>2, <2>3
<1>6. CASE OnNodeFailed(n)
  <2> DEFINE S == {s \in Slots : row[n].rep[s] = Who(n, "node")}
  <2>1. S \in SUBSET Slots
    OBVIOUS
  <2>2. Takes(n, "node") /\ UNCHANGED <<mach, el, done>>
        /\ (queue' = Drop(n, "node") \/ queue' = RequestElections(Drop(n, "node"), n, S))
    BY <1>6 DEF OnNodeFailed, Calm, World, Elections
  <2> HIDE DEF S
  <2> QED
    BY <1>5, <2>1, <2>2
<1>7. CASE OnContainerCrash(n)
  <2> DEFINE S == {s \in Slots : row[n].rep[s] = n}
  <2>1. S \in SUBSET Slots
    OBVIOUS
  <2>2. Takes(n, "crash") /\ UNCHANGED <<mach, el, done>>
        /\ (queue' = Drop(n, "crash") \/ queue' = RequestElections(Drop(n, "crash"), n, S))
    BY <1>7 DEF OnContainerCrash, Calm, World, Elections
  <2> HIDE DEF S
  <2> QED
    BY <1>5, <2>1, <2>2
<1>8. CASE RuntimeStart(n)
  <2> DEFINE s == Slot(n, "rt")
  <2>1. Takes(n, "rt") /\ el' = el
    BY <1>8 DEF RuntimeStart, Elections
  <2>2. s \in Slots /\ Drop(n, "rt") \in Events
    BY <1>0, <2>1, DropType
  <2>3. queue' = Drop(n, "rt") \/ queue' = Post(Drop(n, "rt"), n, "crash", <<s, n>>)
    BY <1>8 DEF RuntimeStart
  <2>4. \/ mach[n] = "assigned" /\ Put(n, "running")
        \/ Fire(n, "execution_failed")
        \/ UNCHANGED <<row, mach>>
    BY <1>8 DEF RuntimeStart
  <2>5. done \subseteq done'
    BY <1>8 DEF RuntimeStart, Disturbed
  <2> HIDE DEF s
  <2>6. \A m \in Nodes : mach'[m] = "electing" => mach[m] = "electing"
    BY <2>4, RuntimeRows
  <2>7. <<s, n>> \in Slots \X Nodes /\ "crash" \in Kinds
    BY <1>0, <2>2
  <2>8. queue' \in Events /\ \A m \in Nodes, i \in {"lost", "fail", "req"} :
                               queue'[m][i] = Drop(n, "rt")[m][i]
    <3>1. CASE queue' = Drop(n, "rt")
      BY <2>2, <3>1
    <3>2. CASE queue' = Post(Drop(n, "rt"), n, "crash", <<s, n>>)
      <4>1. queue' \in Events /\ \A m \in Nodes, i \in Kinds :
              m # n \/ i # "crash" => queue'[m][i] = Drop(n, "rt")[m][i]
        BY <2>2, <2>7, <3>2, PostType
      <4> QED
        BY <1>0, <4>1
    <3> QED
      BY <2>3, <3>1, <3>2
  <2> QED
    BY <1>0, <2>1, <2>5, <2>6, <2>8, TakeBusy
<1>9. CASE CreateAnnounce(n)
  <2>1. Fire(n, "announce") /\ UNCHANGED <<el, queue, done>> /\ Busy(k)
    BY <1>9 DEF CreateAnnounce, Elections, World, Electing
  <2>2. mach[n] # Nil => mach[n] \in Statuses
    BY DEF RowsOK
  <2>3. mach'[k] = "electing" => mach[k] = "electing"
    BY <2>1, <2>2, FireType, FireFacts, NilIsNotElecting
  <2> QED
    BY <2>1, <2>3, BusyStays
<1> QED
  BY <1>1, <1>2, <1>3, <1>4, <1>6, <1>7, <1>8, <1>9 DEF Handle

LEMMA CreateBusy ==
  ASSUME TypeOK, Electing, NEW n \in Nodes, CreateEmit(n), NEW k \in Nodes
  PROVE  Busy(k)'
<1> USE TypeParts
<1>1. InitialSlots \in SUBSET Slots
  BY SlotFacts DEF InitialSlots, WorldOK
<1>2. UNCHANGED <<el, done>> /\ Busy(k) /\ queue \in Events
      /\ {"lost", "fail", "req"} \subseteq Kinds
  BY DEF CreateEmit, Elections, World, Electing, QueueOK, Kinds
<1>3. \A i \in {"lost", "fail", "req"} : queue[k][i] # <<>> => queue'[k][i] # <<>>
  <2>1. queue' = RequestElections(queue, n, InitialSlots)
    BY DEF CreateEmit
  <2> QED
    BY <1>1, <1>2, <2>1, RequestType
<1>4. mach'[k] = "electing" => mach[k] = "electing"
  <2>1. mach' = [mach EXCEPT ![n] = "created"]
    BY DEF CreateEmit
  <2> QED
    BY <2>1 DEF RowsOK
<1> QED
  BY <1>2, <1>3, <1>4, BusyStays

(* Steps that neither open nor end a round. *)
LEMMA OtherBusy ==
  ASSUME TypeOK, Electing, NEW n \in Nodes, NEW m \in Nodes, NEW s \in Slots, NEW k \in Nodes,
         \/ Update(n) \/ UpdateEmit(n) \/ Delete(n) \/ LeaveCluster(n) \/ JoinOrbit(n)
         \/ DedupCleanup(n) \/ Delay \/ Detect(n, m) \/ FalseAlarm(n, m) \/ ContainerDies(n, s)
  PROVE  Busy(k)'
<1> USE TypeParts
<1>0. Busy(k) /\ queue \in Events /\ {"lost", "fail", "req", "node", "crash"} \subseteq Kinds
  BY DEF Electing, QueueOK, Kinds
<1>1. CASE \/ Update(n) \/ UpdateEmit(n) \/ LeaveCluster(n) \/ JoinOrbit(n)
           \/ DedupCleanup(n) \/ Delay
  <2>1. UNCHANGED <<mach, el, queue>> /\ done \subseteq done'
    BY <1>1 DEF Update, UpdateEmit, LeaveCluster, JoinOrbit, DedupCleanup, Delay, Elections,
                World, Disturbed
  <2> QED
    BY <1>0, <2>1, BusyStays
<1>2. CASE Delete(n)
  <2>1. UNCHANGED <<el, queue, done>> /\ mach' = [mach EXCEPT ![n] = Nil]
    BY <1>2 DEF Delete, DeleteHere, Elections, World
  <2>2. mach'[k] = "electing" => mach[k] = "electing"
    BY <2>1, NilIsNotElecting DEF RowsOK
  <2> QED
    BY <1>0, <2>1, <2>2, BusyStays
<1>3. CASE Detect(n, m) \/ FalseAlarm(n, m)
  <2> DEFINE t == CHOOSE x \in Slots : TRUE
  <2>1. UNCHANGED <<mach, el>> /\ done \subseteq done'
        /\ queue' = Post(queue, n, "node", <<t, m>>)
    BY <1>3 DEF Detect, FalseAlarm, Elections, Disturbed
  <2>2. t \in Slots
    OBVIOUS
  <2> HIDE DEF t
  <2>3. \A i \in {"lost", "fail", "req"} : queue'[k][i] = queue[k][i]
    <3>1. <<t, m>> \in Slots \X Nodes
      BY <2>2
    <3>2. queue \in Events /\ "node" \in Kinds
      BY <1>0
    <3>3. \A x \in Nodes, j \in Kinds : x # n \/ j # "node" => queue'[x][j] = queue[x][j]
      BY <2>1, <3>1, <3>2, PostType
    <3> QED
      BY <1>0, <3>3
  <2> QED
    BY <1>0, <2>1, <2>3, BusyStays
<1>4. CASE ContainerDies(n, s)
  <2>1. el' = el /\ done \subseteq done' /\ queue' = Post(queue, n, "crash", <<s, n>>)
        /\ Fire(n, "execution_failed")
    BY <1>4 DEF ContainerDies, Elections, Disturbed
  <2>2. \A i \in {"lost", "fail", "req"} : queue'[k][i] = queue[k][i]
    <3>1. <<s, n>> \in Slots \X Nodes
      OBVIOUS
    <3>2. queue \in Events /\ "crash" \in Kinds
      BY <1>0
    <3>3. \A x \in Nodes, j \in Kinds : x # n \/ j # "crash" => queue'[x][j] = queue[x][j]
      BY <2>1, <3>1, <3>2, PostType
    <3> QED
      BY <1>0, <3>3
  <2>3. mach'[k] = "electing" => mach[k] = "electing"
    BY <2>1, RuntimeRows
  <2> QED
    BY <1>0, <2>1, <2>2, <2>3, BusyStays
<1> QED
  BY <1>1, <1>2, <1>3, <1>4

LEMMA DieBusy ==
  ASSUME TypeOK, Electing, NEW n \in Nodes, Die(n), NEW k \in Nodes
  PROVE  Busy(k)'
<1> USE TypeParts
<1>1. /\ mach' = [mach EXCEPT ![n] = Nil] /\ queue' = [queue EXCEPT ![n] = NoEvents]
      /\ el' = [el EXCEPT ![n] = NoRounds] /\ done \subseteq done' /\ Busy(k)
  BY DEF Die, Disturbed, Electing
<1>2. CASE k = n
  BY <1>1, <1>2, NilIsNotElecting DEF Busy, RowsOK
<1>3. CASE k # n
  <2>1. mach'[k] = mach[k] /\ queue'[k] = queue[k] /\ el'[k] = el[k]
    BY <1>1, <1>3 DEF RowsOK, QueueOK, Events, ElectOK
  <2> QED
    BY <1>1, <2>1, BusyStays
<1> QED
  BY <1>2, <1>3

(* A capsule that is received in Electing comes with the requests for its
   elections; one that is announced by Update comes so. *)
LEMMA MessageBusy ==
  ASSUME TypeOK, Electing, NEW n \in Nodes, NEW i \in DOMAIN sent, NEW ch,
         OnOrbitMessage(n, i, ch), NEW k \in Nodes
  PROVE  Busy(k)'
<1> USE TypeParts
<1>1. UNCHANGED <<el, done>> /\ Busy(k) /\ queue \in Events
      /\ {"lost", "fail", "req"} \subseteq Kinds
  BY DEF OnOrbitMessage, Elections, World, Electing, QueueOK, Kinds
<1>2. \/ sent[i].kind = "announcement" /\ Receive(n, sent[i].row)
      \/ queue' = queue /\ mach' = [mach EXCEPT ![n] = Nil]
      \/ UNCHANGED <<queue, mach>>
  BY DEF OnOrbitMessage, DeleteHere
<1>3. CASE sent[i].kind = "announcement" /\ Receive(n, sent[i].row)
  <2>1. InitialSlots \in SUBSET Slots /\ InitialSlots # {}
    BY SlotFacts DEF InitialSlots, WorldOK
  <2>2. queue' = RequestElections(queue, n, InitialSlots)
    BY <1>3 DEF Receive
  <2>3. \A j \in {"lost", "fail", "req"} : queue[k][j] # <<>> => queue'[k][j] # <<>>
    BY <1>1, <2>1, <2>2, RequestType
  <2>4. queue'[n]["req"] # <<>>
    BY <1>1, <2>1, <2>2, RequestType
  <2>5. mach' = [mach EXCEPT ![n] = IF row[n] = Nil THEN sent[i].row.st ELSE mach[n]]
    BY <1>3 DEF Receive
  <2>6. CASE mach'[k] = "electing" => mach[k] = "electing"
    BY <1>1, <2>3, <2>6, BusyStays
  <2>7. CASE mach'[k] = "electing" /\ mach[k] # "electing"
    <3>1. k = n /\ sent[i].row.st = "electing"
      BY <2>5, <2>7 DEF RowsOK
    <3>2. "update" \in done
      BY <1>3, <3>1 DEF Electing, Quiet
    <3> QED
      BY <1>1, <2>4, <3>1, <3>2 DEF Busy
  <2> QED
    BY <2>6, <2>7
<1>4. CASE queue' = queue /\ mach' = [mach EXCEPT ![n] = Nil]
  <2>1. mach'[k] = "electing" => mach[k] = "electing"
    BY <1>4, NilIsNotElecting DEF RowsOK
  <2> QED
    BY <1>1, <1>4, <2>1, BusyStays
<1>5. CASE UNCHANGED <<queue, mach>>
  BY <1>1, <1>5, BusyStays
<1> QED
  BY <1>2, <1>3, <1>4, <1>5

LEMMA NextBusy == TypeOK /\ Electing /\ [Next]_vars => \A k \in Nodes : Busy(k)'
<1> SUFFICES ASSUME TypeOK, Electing, [Next]_vars, NEW k \in Nodes PROVE Busy(k)'
  OBVIOUS
<1> USE TypeParts
<1>0. 0 \in Slots
  BY SlotFacts
<1>1. CASE UNCHANGED vars
  BY <1>1 DEF vars, Busy, Electing
<1>2. ASSUME NEW n \in Nodes, Handle(n) PROVE Busy(k)'
  BY <1>2, HandleBusy
<1>3. ASSUME NEW n \in Nodes, NEW s \in Slots, Elect(n, s) PROVE Busy(k)'
  BY <1>3, WinBusy, FailRoundBusy, RoundBusy DEF Elect
<1>4. ASSUME NEW n \in Nodes, CreateEmit(n) \/ Die(n) PROVE Busy(k)'
  BY <1>4, CreateBusy, DieBusy
<1>5. ASSUME NEW n \in Nodes, NEW m \in Nodes, NEW s \in Slots,
             \/ Update(n) \/ UpdateEmit(n) \/ Delete(n) \/ LeaveCluster(n) \/ JoinOrbit(n)
             \/ DedupCleanup(n) \/ Delay \/ Detect(n, m) \/ FalseAlarm(n, m)
             \/ ContainerDies(n, s)
      PROVE  Busy(k)'
  BY <1>5, OtherBusy
<1>6. ASSUME NEW n \in Nodes, NEW m \in Nodes, Deliver(m, n) PROVE Busy(k)'
  BY <1>6, Delivery, MessageBusy
<1>7. ASSUME NEW n \in Nodes, NEW i \in DOMAIN sent, Redeliver(n, i) PROVE Busy(k)'
  BY <1>7, MessageBusy DEF Redeliver
<1>8. CASE Delay
  BY <1>0, <1>5, <1>8
<1> QED
  BY <1>0, <1>1, <1>2, <1>3, <1>4, <1>5, <1>6, <1>7, <1>8 DEF Next

LEMMA NextPresent == TypeOK /\ Present /\ [Next]_vars => Present'
<1> SUFFICES ASSUME TypeOK, Present, [Next]_vars PROVE Present'
  OBVIOUS
<1> USE TypeParts
<1>0. ASSUME UNCHANGED <<joined, alive>>, done \subseteq done' PROVE Present'
  BY <1>0 DEF Present
<1>1. CASE UNCHANGED vars \/ Delay
  BY <1>0, <1>1 DEF vars, Delay, Disturbed
<1>2. ASSUME NEW n \in Nodes, Handle(n) PROVE Present'
  <2>1. UNCHANGED <<joined, alive>> /\ done \subseteq done'
    BY <1>2 DEF Handle, Dispatch, OnElectionWon, OnElectionLost, OnElectionFailed,
                OnNodeFailed, OnContainerCrash, RuntimeStart, CreateAnnounce, Calm, World, Disturbed
  <2> QED
    BY <1>0, <2>1
<1>3. ASSUME NEW n \in Nodes, NEW s \in Slots, Elect(n, s) \/ ContainerDies(n, s) PROVE Present'
  <2>1. UNCHANGED <<joined, alive>> /\ done \subseteq done'
    BY <1>3 DEF Elect, Win, StepAside, FailRound, ExpireBuffer, ContainerDies, World, Disturbed
  <2> QED
    BY <1>0, <2>1
<1>4. ASSUME NEW n \in Nodes,
             CreateEmit(n) \/ Update(n) \/ UpdateEmit(n) \/ Delete(n) \/ DedupCleanup(n)
      PROVE  Present'
  <2>1. UNCHANGED <<joined, alive>> /\ done \subseteq done'
    BY <1>4 DEF CreateEmit, Update, UpdateEmit, Delete, DedupCleanup, World, Disturbed
  <2> QED
    BY <1>0, <2>1
<1>5. ASSUME NEW n \in Nodes, LeaveCluster(n) PROVE Present'
  BY <1>5 DEF LeaveCluster, Disturbed, Present
<1>6. ASSUME NEW n \in Nodes, JoinOrbit(n) PROVE Present'
  BY <1>6 DEF JoinOrbit, Present
<1>7. ASSUME NEW n \in Nodes, Die(n) PROVE Present'
  BY <1>7 DEF Die, Disturbed, Present
<1>8. ASSUME NEW n \in Nodes, NEW m \in Nodes,
             Deliver(m, n) \/ Detect(n, m) \/ FalseAlarm(n, m)
      PROVE  Present'
  <2>1. UNCHANGED <<joined, alive>> /\ done \subseteq done'
    BY <1>8 DEF Deliver, OnOrbitMessage, Detect, FalseAlarm, World, Disturbed
  <2> QED
    BY <1>0, <2>1
<1>9. ASSUME NEW n \in Nodes, NEW i \in DOMAIN sent, Redeliver(n, i) PROVE Present'
  <2>1. UNCHANGED <<joined, alive>> /\ done \subseteq done'
    BY <1>9 DEF Redeliver, OnOrbitMessage, World
  <2> QED
    BY <1>0, <2>1
<1> QED
  BY <1>1, <1>2, <1>3, <1>4, <1>5, <1>6, <1>7, <1>8, <1>9 DEF Next

(* A message more is quiet, unless it announces a capsule in Electing. *)
LEMMA BroadcastQuiet ==
  ASSUME OrbitOK, Quiet, NEW n \in Nodes, NEW kind, NEW r, NEW ch, NEW h,
         Broadcast(n, kind, r, ch, h), done \subseteq done',
         kind = "announcement" => r.st # "electing"
  PROVE  Quiet'
<1>1. CASE n \in joined
  <2> DEFINE e == [kind |-> kind, from |-> n, row |-> r, age |-> 0]
  <2>1. sent' = Append(sent, e)
    BY <1>1 DEF Broadcast
  <2>2. e.kind = "announcement" => e.row.st # "electing"
    OBVIOUS
  <2> HIDE DEF e
  <2>3. ASSUME NEW i \in DOMAIN sent' PROVE (i \in DOMAIN sent /\ sent'[i] = sent[i]) \/ sent'[i] = e
    BY <2>1 DEF OrbitOK
  <2> QED
    BY <2>2, <2>3 DEF Quiet
<1>2. CASE n \notin joined
  BY <1>2 DEF Broadcast, Quiet
<1> QED
  BY <1>1, <1>2

LEMMA MessageQuiet ==
  ASSUME TypeOK, Quiet, NEW n \in Nodes, NEW i \in DOMAIN sent, NEW ch, OnOrbitMessage(n, i, ch)
  PROVE  Quiet'
<1> USE TypeParts
<1>1. done' = done
  BY DEF OnOrbitMessage, World
<1>2. sent' = sent \/ \E h : DeleteHere(n, ch, h)
  BY DEF OnOrbitMessage
<1>3. CASE sent' = sent
  BY <1>1, <1>3 DEF Quiet
<1>4. CASE \E h : DeleteHere(n, ch, h)
  <2>1. PICK h : Broadcast(n, "withdrawal", Nil, ch, h)
    BY <1>4 DEF DeleteHere
  <2> QED
    BY <1>1, <2>1, BroadcastQuiet
<1> QED
  BY <1>2, <1>3, <1>4

LEMMA NextQuiet == TypeOK /\ Quiet /\ [Next]_vars => Quiet'
<1> SUFFICES ASSUME TypeOK, Quiet, [Next]_vars PROVE Quiet'
  OBVIOUS
<1> USE TypeParts
<1>0. ASSUME sent' = sent, done \subseteq done' PROVE Quiet'
  BY <1>0 DEF Quiet
<1>1. CASE UNCHANGED vars
  BY <1>0, <1>1 DEF vars
<1>2. CASE Delay
  <2>1. done \subseteq done'
    BY <1>2 DEF Delay, Disturbed
  <2> QED
    BY <1>2, <2>1, DelayFacts DEF Quiet
<1>3. ASSUME NEW n \in Nodes, NEW s \in Slots, NEW m \in Nodes,
             \/ Handle(n) \/ Elect(n, s) \/ ContainerDies(n, s) \/ Detect(n, m)
             \/ FalseAlarm(n, m) \/ JoinOrbit(n)
      PROVE  Quiet'
  <2>1. sent' = sent
    BY <1>3, OrbitStill DEF Orbit
  <2>2. CASE Handle(n)
    BY <1>0, <2>1, <2>2 DEF Handle, Dispatch, OnElectionWon, OnElectionLost, OnElectionFailed,
         OnNodeFailed, OnContainerCrash, RuntimeStart, CreateAnnounce, Calm, World, Disturbed
  <2>3. CASE Elect(n, s) \/ ContainerDies(n, s)
    BY <1>0, <2>1, <2>3 DEF Elect, Win, StepAside, FailRound, ExpireBuffer, ContainerDies, World,
                            Disturbed
  <2>4. CASE Detect(n, m) \/ FalseAlarm(n, m) \/ JoinOrbit(n)
    BY <1>0, <2>1, <2>4 DEF Detect, FalseAlarm, JoinOrbit, Disturbed
  <2> QED
    BY <1>3, <2>2, <2>3, <2>4
<1>4. ASSUME NEW n \in Nodes, CreateEmit(n) PROVE Quiet'
  <2> DEFINE r == [st |-> "created", rep |-> [s \in Slots |-> Nil]]
  <2>1. Broadcast(n, "announcement", r, chan, hist) /\ done' = done /\ r.st # "electing"
    BY <1>4 DEF CreateEmit, World
  <2> QED
    BY <2>1, BroadcastQuiet
<1>5. ASSUME NEW n \in Nodes, Update(n) \/ UpdateEmit(n) PROVE Quiet'
  <2>1. "update" \in done'
    BY <1>5 DEF Update, UpdateEmit, Disturbed, World, HeldOK
  <2> QED
    BY <2>1 DEF Quiet
<1>6. ASSUME NEW n \in Nodes, Delete(n) PROVE Quiet'
  <2>1. PICK h : Broadcast(n, "withdrawal", Nil, chan, h) /\ done' = done
    BY <1>6 DEF Delete, DeleteHere, World
  <2> QED
    BY <2>1, BroadcastQuiet
<1>7. ASSUME NEW n \in Nodes, LeaveCluster(n) \/ DedupCleanup(n) \/ Die(n) PROVE Quiet'
  BY <1>0, <1>7 DEF LeaveCluster, DedupCleanup, Die, World, Disturbed
<1>8. ASSUME NEW n \in Nodes, NEW m \in Nodes, Deliver(m, n) PROVE Quiet'
  BY <1>8, Delivery, MessageQuiet
<1>9. ASSUME NEW n \in Nodes, NEW i \in DOMAIN sent, Redeliver(n, i) PROVE Quiet'
  BY <1>9, MessageQuiet DEF Redeliver
<1>10. 0 \in Slots
  BY SlotFacts
<1> QED
  BY <1>1, <1>2, <1>3, <1>4, <1>5, <1>6, <1>7, <1>8, <1>9, <1>10 DEF Next

LEMMA InitElecting == Init => Electing
<1> SUFFICES ASSUME Init PROVE Electing
  OBVIOUS
<1>1. \A n \in Nodes : mach[n] # "electing"
  BY NilIsNotElecting DEF Init
<1>2. sent = <<>> /\ joined = alive
  BY DEF Init
<1> QED
  BY <1>1, <1>2 DEF Electing, Busy, Quiet, Present

LEMMA RestElecting == TypeOK /\ Electing => NoStuckElecting
<1> SUFFICES ASSUME TypeOK, Electing, Settled, ~({"update", "leave"} \subseteq done), NEW n \in alive,
                    n \in Nodes, mach[n] = "electing"
             PROVE  FALSE
  BY DEF NoStuckElecting, TypeOK
<1>1. queue[n] = NoEvents /\ el[n] = NoRounds
  BY DEF Settled
<1>2. \A s \in Slots : el[n][s] = "none"
  BY <1>1 DEF NoRounds
<1>3. \A j \in {"lost", "fail", "req"} : queue[n][j] = <<>>
  BY <1>1 DEF NoEvents, Kinds
<1> QED
  BY <1>2, <1>3 DEF Electing, Busy

(* No machine stays in Electing once nothing is left to do
   (handleElectionLost and handleElectionFailed in capsule_handler.go), for any
   cluster and any number of replicas, whoever crashes, dies or misses
   messages: only a node that received a capsule in Electing from an update,
   and left the cluster, may. *)
THEOREM ElectingEnds == Spec => []NoStuckElecting
<1>1. TypeOK /\ Electing /\ [Next]_vars => Electing'
  BY NextBusy, NextQuiet, NextPresent DEF Electing
<1>2. Spec => []Electing
  BY <1>1, TypeCorrect, InitElecting, PTL DEF Spec
<1> QED
  BY <1>2, TypeCorrect, RestElecting, PTL

-----------------------------------------------------------------------------
(* The slots that a sequence of events is about, and the nodes it names. *)
Asked(q) == {q[i][1] : i \in DOMAIN q}
Named(q) == {q[i][2] : i \in DOMAIN q}

LEMMA EmptyEvents == Asked(<<>>) = {} /\ Named(<<>>) = {}
  BY DEF Asked, Named

LEMMA AppendEvents ==
  ASSUME NEW q \in Seq(Slots \X Nodes), NEW e \in Slots \X Nodes
  PROVE  /\ Asked(Append(q, e)) = Asked(q) \cup {e[1]}
         /\ Named(Append(q, e)) = Named(q) \cup {e[2]}
<1> DEFINE x == Append(q, e)
<1>1. /\ DOMAIN x = DOMAIN q \cup {Len(q) + 1} /\ x[Len(q) + 1] = e
      /\ \A i \in DOMAIN q : x[i] = q[i]
  OBVIOUS
<1> HIDE DEF x
<1>2. Asked(x) = Asked(q) \cup {e[1]}
  BY <1>1 DEF Asked
<1>3. Named(x) = Named(q) \cup {e[2]}
  BY <1>1 DEF Named
<1> QED
  BY <1>2, <1>3 DEF x

LEMMA TailEvents ==
  ASSUME NEW q \in Seq(Slots \X Nodes), q # <<>>
  PROVE  /\ Asked(q) = Asked(Tail(q)) \cup {Head(q)[1]}
         /\ Named(q) = Named(Tail(q)) \cup {Head(q)[2]}
<1> DEFINE x == Tail(q)
           h == Head(q)
<1>1. /\ Len(q) \in Nat /\ Len(q) >= 1 /\ DOMAIN q = 1 .. Len(q)
      /\ DOMAIN x = 1 .. Len(q) - 1 /\ \A i \in 1 .. Len(q) - 1 : x[i] = q[i + 1]
      /\ h = q[1]
  OBVIOUS
<1> HIDE DEF x, h
<1>2. \A i \in DOMAIN q : i = 1 \/ (i - 1 \in DOMAIN x /\ q[i] = x[i - 1])
  BY <1>1
<1>3. 1 \in DOMAIN q /\ \A i \in DOMAIN x : i + 1 \in DOMAIN q /\ x[i] = q[i + 1]
  BY <1>1
<1>4. Asked(q) \subseteq Asked(x) \cup {h[1]} /\ Named(q) \subseteq Named(x) \cup {h[2]}
  <2>1. ASSUME NEW i \in DOMAIN q
        PROVE  q[i][1] \in Asked(x) \cup {h[1]} /\ q[i][2] \in Named(x) \cup {h[2]}
    <3>1. CASE i = 1
      BY <1>1, <3>1
    <3>2. CASE i - 1 \in DOMAIN x /\ q[i] = x[i - 1]
      BY <3>2 DEF Asked, Named
    <3> QED
      BY <1>2, <3>1, <3>2
  <2>2. Asked(q) = {q[i][1] : i \in DOMAIN q} /\ Named(q) = {q[i][2] : i \in DOMAIN q}
    BY DEF Asked, Named
  <2> QED
    BY <2>1, <2>2
<1>5. Asked(x) \cup {h[1]} \subseteq Asked(q) /\ Named(x) \cup {h[2]} \subseteq Named(q)
  BY <1>1, <1>3 DEF Asked, Named
<1> QED
  BY <1>4, <1>5 DEF x, h

LEMMA ConcatEvents ==
  ASSUME NEW q \in Seq(Slots \X Nodes), NEW r \in Seq(Slots \X Nodes)
  PROVE  Asked(q \o r) = Asked(q) \cup Asked(r)
<1> DEFINE x == q \o r
<1>1. /\ Len(q) \in Nat /\ Len(r) \in Nat
      /\ DOMAIN q = 1 .. Len(q) /\ DOMAIN r = 1 .. Len(r) /\ DOMAIN x = 1 .. Len(q) + Len(r)
      /\ \A i \in 1 .. Len(q) + Len(r) : x[i] = IF i <= Len(q) THEN q[i] ELSE r[i - Len(q)]
  OBVIOUS
<1> HIDE DEF x
<1>2. \A i \in DOMAIN x : \/ i \in DOMAIN q /\ x[i] = q[i]
                          \/ i - Len(q) \in DOMAIN r /\ x[i] = r[i - Len(q)]
  BY <1>1
<1>3. \A i \in DOMAIN q : i \in DOMAIN x /\ x[i] = q[i]
  BY <1>1
<1>4. \A i \in DOMAIN r : i + Len(q) \in DOMAIN x /\ x[i + Len(q)] = r[i]
  BY <1>1
<1>5. Asked(x) \subseteq Asked(q) \cup Asked(r)
  BY <1>2 DEF Asked
<1>6. Asked(q) \cup Asked(r) \subseteq Asked(x)
  BY <1>3, <1>4 DEF Asked
<1> QED
  BY <1>5, <1>6 DEF x

(* requestElection leaves none of its slots out. *)
LEMMA RequestAll ==
  ASSUME NEW n \in Nodes, NEW S \in SUBSET Slots
  PROVE  Asked(SetToSeq({<<s, n>> : s \in S})) = S
<1> DEFINE R == {<<s, n>> : s \in S}
           f == SetToSeq(R)
<1>1. IsFiniteSet(R)
  <2>1. IsFiniteSet(S \X {n})
    BY SlotFacts, FS_Subset, FS_Singleton, FS_Product
  <2>2. R \in SUBSET (S \X {n})
    OBVIOUS
  <2> QED
    BY <2>1, <2>2, FS_Subset
<1>2. (\A e \in R : e[1] \in S) /\ (\A s \in S : \E e \in R : e[1] = s)
  <2>1. \A e \in R : e[1] \in S
    OBVIOUS
  <2>2. ASSUME NEW s \in S PROVE \E e \in R : e[1] = s
    <3>1. <<s, n>> \in R /\ <<s, n>>[1] = s
      OBVIOUS
    <3> QED
      BY <3>1
  <2> QED
    BY <2>1, <2>2
<1> DEFINE c == Cardinality(R)
<1>3. c \in Nat /\ ExistsBijection(1 .. c, R)
  BY <1>1, FS_CardinalityType
<1> HIDE DEF R
<1>4. \E g \in [1 .. c -> R] : IsInjective(g)
  BY <1>3, Zenon DEF ExistsBijection, Bijection, Injection, Surjection, IsInjective
<1>5. f \in [1 .. c -> R] /\ IsInjective(f)
  BY <1>4, Zenon DEF SetToSeq
<1> HIDE DEF f
<1>6. f \in Injection(1 .. c, R)
  BY <1>5 DEF Injection, IsInjective
<1>7. Cardinality(1 .. c) = c
  BY <1>3, FS_Interval
<1>8. f \in Surjection(1 .. c, R)
  BY <1>1, <1>6, <1>7, FS_Injection
<1>9. DOMAIN f = 1 .. c /\ (\A i \in DOMAIN f : f[i] \in R) /\ (\A e \in R : \E i \in DOMAIN f : f[i] = e)
  BY <1>5, <1>8 DEF Surjection
<1>10. Asked(f) = S
  BY <1>2, <1>9 DEF Asked
<1> QED
  BY <1>10 DEF f, R

(* The same for the queues. *)
LEMMA PostEvents ==
  ASSUME NEW q \in Events, NEW n \in Nodes, NEW k \in Kinds, NEW e \in Slots \X Nodes
  PROVE  /\ Asked(Post(q, n, k, e)[n][k]) = Asked(q[n][k]) \cup {e[1]}
         /\ Named(Post(q, n, k, e)[n][k]) = Named(q[n][k]) \cup {e[2]}
<1>1. q[n][k] \in Seq(Slots \X Nodes)
  BY DEF Events
<1>2. Post(q, n, k, e)[n][k] = Append(q[n][k], e)
  BY DEF Post, Events
<1> DEFINE x == q[n][k]
           y == Post(q, n, k, e)[n][k]
<1>3. x \in Seq(Slots \X Nodes) /\ y = Append(x, e)
  BY <1>1, <1>2
<1> HIDE DEF x, y
<1>4. Asked(Append(x, e)) = Asked(x) \cup {e[1]} /\ Named(Append(x, e)) = Named(x) \cup {e[2]}
  BY <1>3, AppendEvents
<1>5. Asked(y) = Asked(x) \cup {e[1]} /\ Named(y) = Named(x) \cup {e[2]}
  BY <1>3, <1>4
<1> QED
  BY <1>5 DEF x, y

LEMMA PostFacts ==
  ASSUME NEW q \in Events, NEW n \in Nodes, NEW k \in Kinds, NEW s \in Slots, NEW m \in Nodes,
         queue' = Post(q, n, k, <<s, m>>)
  PROVE  /\ queue' \in Events
         /\ \A i \in Nodes, j \in Kinds : i # n \/ j # k => queue'[i][j] = q[i][j]
         /\ Asked(queue'[n][k]) = Asked(q[n][k]) \cup {s}
         /\ Named(queue'[n][k]) = Named(q[n][k]) \cup {m}
<1> DEFINE e == <<s, m>>
<1>1. e \in Slots \X Nodes /\ e[1] = s /\ e[2] = m /\ queue' = Post(q, n, k, e)
  OBVIOUS
<1> HIDE DEF e
<1>2. /\ queue' \in Events
      /\ \A i \in Nodes, j \in Kinds : i # n \/ j # k => queue'[i][j] = q[i][j]
  BY <1>1, PostType
<1>3. /\ Asked(Post(q, n, k, e)[n][k]) = Asked(q[n][k]) \cup {e[1]}
      /\ Named(Post(q, n, k, e)[n][k]) = Named(q[n][k]) \cup {e[2]}
  BY <1>1, PostEvents
<1> QED
  BY <1>1, <1>2, <1>3

LEMMA DropEvents ==
  ASSUME QueueOK, NEW n \in Nodes, NEW k \in Kinds, Takes(n, k)
  PROVE  /\ Asked(queue[n][k]) = Asked(Drop(n, k)[n][k]) \cup {Slot(n, k)}
         /\ Named(queue[n][k]) = Named(Drop(n, k)[n][k]) \cup {Who(n, k)}
<1>1. queue[n][k] \in Seq(Slots \X Nodes) /\ queue[n][k] # <<>>
  BY DEF QueueOK, Events, Takes
<1>2. Drop(n, k)[n][k] = Tail(queue[n][k])
  BY DEF Drop, QueueOK, Events
<1> QED
  BY <1>1, <1>2, TailEvents DEF Slot, Who

LEMMA RequestEvents ==
  ASSUME NEW q \in Events, NEW n \in Nodes, NEW S \in SUBSET Slots
  PROVE  Asked(RequestElections(q, n, S)[n]["req"]) = Asked(q[n]["req"]) \cup S
<1> DEFINE x == SetToSeq({<<s, n>> : s \in S})
<1>1. x \in Seq(Slots \X Nodes) /\ Asked(x) = S
  BY RequestSeq, RequestAll
<1>2. "req" \in Kinds /\ q[n]["req"] \in Seq(Slots \X Nodes)
  BY DEF Events, Kinds
<1>3. RequestElections(q, n, S)[n]["req"] = q[n]["req"] \o x
  BY <1>2 DEF RequestElections, Events
<1> HIDE DEF x
<1> QED
  BY <1>1, <1>2, <1>3, ConcatEvents

-----------------------------------------------------------------------------
(* OrphanIsReplaced speaks of a system at rest too.  Before that, for each node
   that has the capsule and each of its slots, either a host is recorded whose
   death, if it died, is still to be reported or handled, or the slot is asked
   for, voted on or decided here and the verdict still to be recorded.  It
   takes that only initial slots occur anywhere, and that nothing still to be
   recorded names a node whose death was reported. *)
Verdicts == {"req", "won", "lost"}

Fits(r) == \A s \in Slots : r.rep[s] # Nil => s \in InitialSlots

Fit(n) ==
  /\ \A j \in Verdicts : Asked(queue[n][j]) \subseteq InitialSlots
  /\ \A s \in Slots : el[n][s] # "none" => s \in InitialSlots
  /\ row[n] # Nil => Fits(row[n])

Living(n) ==
  /\ Named(queue[n]["won"]) \subseteq {n}
  /\ failedOn[n] \cap (alive \cup Named(queue[n]["lost"])) = {}
  /\ \A s \in Slots : heard[n][s] \notin failedOn[n]

Hosted(n, s) ==
  /\ row[n].rep[s] \in Nodes
  /\ row[n].rep[s] \in failedOn[n] => row[n].rep[s] \in Named(queue[n]["node"])

Pending(n, s) == el[n][s] # "none" \/ \E j \in Verdicts : s \in Asked(queue[n][j])

Followed(n) ==
  n \in alive /\ row[n] # Nil /\ "leave" \notin done =>
    \A s \in InitialSlots \ failed : Hosted(n, s) \/ Pending(n, s)

SentFit == \A i \in DOMAIN sent : sent[i].kind = "announcement" => Fits(sent[i].row)
HeldFit == \A n \in Nodes : upd[n] \in Capsule => Fits(upd[n])

Tracked(n) == Fit(n) /\ Living(n) /\ Followed(n)

Hosts == (\A n \in Nodes : Tracked(n)) /\ SentFit /\ HeldFit /\ won \subseteq InitialSlots

(* What never goes back. *)
Onward ==
  /\ count' = count /\ alive' \subseteq alive /\ failed \subseteq failed' /\ done \subseteq done'

LEMMA Constant ==
  ASSUME TypeOK, count' = count
  PROVE  /\ InitialSlots' = InitialSlots /\ InitialSlots \subseteq Slots
         /\ \A r : Fits(r)' <=> Fits(r)
<1>1. InitialSlots' = InitialSlots
  BY DEF InitialSlots
<1>2. InitialSlots \subseteq Slots
  BY SlotFacts DEF InitialSlots, TypeOK
<1> QED
  BY <1>1, <1>2 DEF Fits

(* A node whose queues, rounds and row lose nothing that was pending. *)
LEMMA TrackedStays ==
  ASSUME TypeOK, Onward, NEW k \in Nodes, Tracked(k),
         failedOn'[k] = failedOn[k],
         row'[k] # Nil => row[k] # Nil /\ row'[k].rep = row[k].rep,
         \A j \in Verdicts : /\ Asked(queue[k][j]) \subseteq Asked(queue'[k][j])
                             /\ Asked(queue'[k][j]) \subseteq Asked(queue[k][j]) \cup InitialSlots,
         Named(queue'[k]["won"]) \subseteq Named(queue[k]["won"]),
         Named(queue'[k]["lost"]) \subseteq Named(queue[k]["lost"]) \cup alive,
         Named(queue[k]["node"]) \subseteq Named(queue'[k]["node"]),
         \A s \in Slots : el'[k][s] # "none" => el[k][s] # "none",
         \A s \in Slots : el[k][s] # "none" =>
            el'[k][s] # "none" \/ s \in Asked(queue'[k]["lost"]),
         \A s \in Slots : heard'[k][s] \in {heard[k][s], Nil, "failure"} \cup alive
  PROVE  Tracked(k)'
<1>1. /\ InitialSlots' = InitialSlots /\ InitialSlots \subseteq Slots
      /\ \A r : Fits(r)' <=> Fits(r)
  BY Constant DEF Onward
<1>2. Fit(k)'
  <2>1. \A j \in Verdicts : Asked(queue'[k][j]) \subseteq InitialSlots
    BY DEF Tracked, Fit
  <2>2. \A s \in Slots : el'[k][s] # "none" => s \in InitialSlots
    BY DEF Tracked, Fit
  <2>3. row'[k] # Nil => Fits(row'[k])
    BY DEF Tracked, Fit, Fits
  <2> QED
    BY <1>1, <2>1, <2>2, <2>3 DEF Fit, Fits
<1>3. Living(k)'
  <2>1. failedOn[k] \subseteq Nodes /\ Nil \notin Nodes /\ "failure" \notin Nodes
    BY FlowAssumption DEF TypeOK
  <2>2. alive \cap failedOn[k] = {} /\ \A s \in Slots : heard[k][s] \notin failedOn[k]
    BY DEF Tracked, Living
  <2>3. \A s \in Slots : heard'[k][s] \notin failedOn'[k]
    BY <2>1, <2>2
  <2>4. failedOn'[k] \cap (alive' \cup Named(queue'[k]["lost"])) = {}
    BY <2>2 DEF Tracked, Living, Onward
  <2>5. Named(queue'[k]["won"]) \subseteq {k}
    BY DEF Tracked, Living
  <2> QED
    BY <2>3, <2>4, <2>5 DEF Living
<1>4. Followed(k)'
  <2> SUFFICES ASSUME k \in alive', row'[k] # Nil, "leave" \notin done',
                      NEW s \in InitialSlots, s \notin failed'
               PROVE  Hosted(k, s)' \/ Pending(k, s)'
    BY <1>1 DEF Followed
  <2>1. Hosted(k, s) \/ Pending(k, s)
    BY DEF Tracked, Followed, Onward
  <2>2. CASE Hosted(k, s)
    BY <2>2 DEF Hosted
  <2>3. CASE Pending(k, s)
    BY <1>1, <2>3 DEF Pending, Verdicts
  <2> QED
    BY <2>1, <2>2, <2>3
<1> QED
  BY <1>2, <1>3, <1>4 DEF Tracked

(* What a trigger leaves of the record of the replicas. *)
LEMMA PutRep ==
  ASSUME RowsOK, NEW n \in Nodes, NEW u, Put(n, u), NEW k \in Nodes
  PROVE  row'[k] # Nil => row[k] # Nil /\ row'[k].rep = row[k].rep
<1>1. CASE row[n] = Nil
  BY <1>1 DEF Put
<1>2. CASE row[n] # Nil
  <2>1. row' = [row EXCEPT ![n] = [row[n] EXCEPT !.st = u]] /\ row[n] \in Capsule
    BY <1>2 DEF Put, RowsOK
  <2>2. [row[n] EXCEPT !.st = u].rep = row[n].rep
    BY <2>1 DEF Capsule
  <2> QED
    BY <1>2, <2>1, <2>2 DEF RowsOK
<1> QED
  BY <1>1, <1>2

LEMMA FireRep ==
  ASSUME RowsOK, NEW n \in Nodes, NEW t, Fire(n, t), NEW k \in Nodes
  PROVE  row'[k] # Nil => row[k] # Nil /\ row'[k].rep = row[k].rep
<1>1. UNCHANGED row \/ Put(n, FireState(mach[n], t))
  BY DEF Fire
<1> QED
  BY <1>1, PutRep

(* Nodes that a step leaves alone. *)
LEMMA TrackedStill ==
  ASSUME TypeOK, Onward, NEW k \in Nodes, Tracked(k),
         failedOn'[k] = failedOn[k], queue'[k] = queue[k], el'[k] = el[k], heard'[k] = heard[k],
         row'[k] # Nil => row[k] # Nil /\ row'[k].rep = row[k].rep
  PROVE  Tracked(k)'
  BY TrackedStays

LEMMA DispatchTracked ==
  ASSUME TypeOK, Hosts, Present, NEW n \in Nodes, Dispatch(n), NEW k \in Nodes
  PROVE  Tracked(k)'
<1> USE TypeParts
<1> DEFINE s == Slot(n, "req")
           q == Drop(n, "req")
<1>1. /\ s \in Slots /\ q \in Events
      /\ \/ /\ row[n] = Nil \/ n \notin joined \/ el[n][s] # "none"
            /\ queue' = q /\ UNCHANGED <<row, mach, el, heard>>
         \/ /\ Fire(n, "election_started")
            /\ row[n] # Nil /\ el[n][s] = "none"
            /\ heard' \in Buffers /\ el' \in Rounds
            /\ \/ queue' = q /\ el'[n][s] # "none"
               \/ /\ heard[n][s] \in Nodes
                  /\ queue' = Post(q, n, "lost", <<s, heard[n][s]>>)
                  /\ UNCHANGED el
            /\ \A m \in Nodes : m # n => el'[m] = el[m]
            /\ \A t \in Slots : t # s => el'[n][t] = el[n][t]
  BY DispatchFacts
<1>2. n \in alive /\ Takes(n, "req") /\ UNCHANGED <<failedOn, done, alive, failed, count>>
  BY DEF Dispatch, World, History, Takes
<1>3. Tracked(k) /\ Onward /\ "req" \in Kinds /\ "lost" \in Kinds
  BY <1>2 DEF Hosts, Onward, Kinds
<1>4. /\ \A m \in Nodes, j \in Kinds : m # n \/ j # "req" => q[m][j] = queue[m][j]
      /\ Asked(queue[n]["req"]) = Asked(q[n]["req"]) \cup {s}
  BY <1>2, <1>3, DropType, DropEvents
<1>5. heard' = heard \/ heard' = [heard EXCEPT ![n] = [heard[n] EXCEPT ![s] = Nil]]
  BY DEF Dispatch, Slot
<1>6. row'[k] # Nil => row[k] # Nil /\ row'[k].rep = row[k].rep
  BY <1>1, FireRep
<1> HIDE DEF s, q
<1>7. \/ queue' = q
      \/ /\ heard[n][s] \in Nodes /\ queue' \in Events
         /\ \A m \in Nodes, j \in Kinds : m # n \/ j # "lost" => queue'[m][j] = q[m][j]
         /\ Asked(queue'[n]["lost"]) = Asked(q[n]["lost"]) \cup {s}
         /\ Named(queue'[n]["lost"]) = Named(q[n]["lost"]) \cup {heard[n][s]}
  <2>1. ASSUME heard[n][s] \in Nodes, queue' = Post(q, n, "lost", <<s, heard[n][s]>>)
        PROVE  /\ queue' \in Events
               /\ \A m \in Nodes, j \in Kinds : m # n \/ j # "lost" => queue'[m][j] = q[m][j]
               /\ Asked(queue'[n]["lost"]) = Asked(q[n]["lost"]) \cup {s}
               /\ Named(queue'[n]["lost"]) = Named(q[n]["lost"]) \cup {heard[n][s]}
    <3>1. q \in Events /\ s \in Slots /\ "lost" \in Kinds
      BY <1>1, <1>3
    <3> QED
      BY <2>1, <3>1, PostFacts
  <2> QED
    BY <1>1, <2>1
<1>8. CASE k # n
  <2>1. el'[k] = el[k] /\ heard'[k] = heard[k]
    BY <1>1, <1>5, <1>8 DEF ElectOK
  <2>2. queue'[k] = queue[k]
    <3>1. \A j \in Kinds : queue'[k][j] = queue[k][j]
      BY <1>4, <1>7, <1>8
    <3>2. queue'[k] \in [Kinds -> Seq(Slots \X Nodes)] /\ queue[k] \in [Kinds -> Seq(Slots \X Nodes)]
      BY <1>1, <1>7 DEF QueueOK, Events
    <3> QED
      BY <3>1, <3>2
  <2> QED
    BY <1>2, <1>3, <1>6, <2>1, <2>2, TrackedStill
<1>9. CASE k = n
  <2>0. /\ InitialSlots' = InitialSlots /\ InitialSlots \subseteq Slots
        /\ \A r : Fits(r)' <=> Fits(r)
    BY <1>3, Constant DEF Onward
  <2>1. s \in InitialSlots /\ Fit(n) /\ Living(n) /\ Followed(n)
    BY <1>3, <1>4, <1>9 DEF Tracked, Fit, Verdicts
  <2>2. /\ queue'[n]["won"] = queue[n]["won"] /\ queue'[n]["node"] = queue[n]["node"]
        /\ queue'[n]["req"] = q[n]["req"]
        /\ \/ queue'[n]["lost"] = queue[n]["lost"]
           \/ /\ heard[n][s] \in Nodes
              /\ Asked(queue'[n]["lost"]) = Asked(queue[n]["lost"]) \cup {s}
              /\ Named(queue'[n]["lost"]) = Named(queue[n]["lost"]) \cup {heard[n][s]}
    <3>1. {"won", "node", "req", "lost"} \subseteq Kinds
      BY DEF Kinds
    <3> QED
      BY <1>4, <1>7, <3>1
  <2>3. Fit(n)'
    <3>1. \A j \in Verdicts : Asked(queue'[n][j]) \subseteq InitialSlots
      BY <1>4, <2>1, <2>2 DEF Fit, Verdicts
    <3>2. \A t \in Slots : el'[n][t] # "none" => t \in InitialSlots
      BY <1>1, <2>1 DEF Fit
    <3>3. row'[n] # Nil => Fits(row'[n])
      BY <1>6, <1>9, <2>1 DEF Fit, Fits
    <3> QED
      BY <2>0, <3>1, <3>2, <3>3 DEF Fit, Fits
  <2>4. Living(n)'
    <3>1. failedOn[n] \subseteq Nodes /\ Nil \notin Nodes
      BY FlowAssumption DEF TypeOK
    <3>2. \A t \in Slots : heard'[n][t] \in {heard[n][t], Nil}
      BY <1>1, <1>5 DEF ElectOK
    <3>3. heard[n][s] \notin failedOn[n]
      BY <1>1, <2>1 DEF Living
    <3>4. failedOn[n] \cap (alive \cup Named(queue'[n]["lost"])) = {}
      BY <2>1, <2>2, <3>3 DEF Living
    <3>5. \A t \in Slots : heard'[n][t] \notin failedOn[n]
      BY <2>1, <3>1, <3>2 DEF Living
    <3> QED
      BY <1>2, <2>1, <2>2, <3>4, <3>5 DEF Living
  <2>5. Followed(n)'
    <3> SUFFICES ASSUME row'[n] # Nil, "leave" \notin done, NEW t \in InitialSlots, t \notin failed
                 PROVE  Hosted(n, t)' \/ Pending(n, t)'
      BY <1>2, <2>0 DEF Followed
    <3>1. Hosted(n, t) \/ Pending(n, t)
      BY <1>2, <1>6, <1>9, <2>1 DEF Followed
    <3>2. CASE Hosted(n, t)
      BY <1>2, <1>6, <1>9, <2>2, <3>2 DEF Hosted
    <3>3. CASE Pending(n, t) /\ t # s
      <4>1. el[n][t] # "none" => el'[n][t] # "none"
        BY <1>1, <2>0, <3>3
      <4>2. \A j \in Verdicts : t \in Asked(queue[n][j]) => t \in Asked(queue'[n][j])
        BY <1>4, <2>2, <3>3 DEF Verdicts
      <4> QED
        BY <3>3, <4>1, <4>2 DEF Pending
    <3>4. CASE t = s
      <4>1. n \in joined /\ row[n] # Nil
        BY <1>2, <1>6, <1>9 DEF Present
      <4>2. el'[n][s] # "none" \/ s \in Asked(queue'[n]["lost"])
        <5>1. CASE queue' = q
          <6>1. CASE el[n][s] # "none" /\ el' = el
            BY <6>1
          <6>2. CASE el'[n][s] # "none"
            BY <6>2
          <6>3. CASE heard[n][s] \in Nodes /\ queue' = Post(q, n, "lost", <<s, heard[n][s]>>)
            <7>1. q \in Events /\ s \in Slots /\ "lost" \in Kinds
              BY <1>1, <1>3
            <7>2. Asked(queue'[n]["lost"]) = Asked(q[n]["lost"]) \cup {s}
              BY <6>3, <7>1, PostFacts
            <7> QED
              BY <7>2
          <6> QED
            BY <1>1, <4>1, <6>1, <6>2, <6>3
        <5>2. CASE Asked(queue'[n]["lost"]) = Asked(q[n]["lost"]) \cup {s}
          BY <5>2
        <5> QED
          BY <1>7, <5>1, <5>2
      <4> QED
        BY <3>4, <4>2 DEF Pending, Verdicts
    <3> QED
      BY <3>1, <3>2, <3>3, <3>4
  <2> QED
    BY <1>9, <2>3, <2>4, <2>5 DEF Tracked
<1> QED
  BY <1>8, <1>9

(* The queues of the other nodes, and of other kinds, after an event is taken. *)
LEMMA OthersKeep ==
  ASSUME QueueOK, QueueOK', NEW n \in Nodes, NEW k \in Nodes, k # n,
         \A j \in Kinds : queue'[k][j] = queue[k][j]
  PROVE  queue'[k] = queue[k]
<1>1. queue'[k] \in [Kinds -> Seq(Slots \X Nodes)] /\ queue[k] \in [Kinds -> Seq(Slots \X Nodes)]
  BY DEF QueueOK, Events
<1> QED
  BY <1>1

(* A verdict is recorded. *)
LEMMA RecordTracked ==
  ASSUME TypeOK, Hosts, QueueOK', NEW n \in Nodes, NEW j \in {"won", "lost"}, Takes(n, j),
         queue' = Drop(n, j), UNCHANGED <<el, heard, failedOn, alive, failed, done, count>>,
         \A m \in Nodes \ {n} : row'[m] = row[m],
         row'[n] # Nil => /\ row[n] # Nil
                          /\ row'[n].rep = [row[n].rep EXCEPT ![Slot(n, j)] = Who(n, j)],
         NEW k \in Nodes
  PROVE  Tracked(k)'
<1> USE TypeParts
<1> DEFINE s == Slot(n, j)
           w == Who(n, j)
<1>1. j \in Kinds /\ {"won", "lost", "req", "node"} \subseteq Kinds
  BY DEF Kinds
<1>2. /\ \A m \in Nodes, i \in Kinds : m # n \/ i # j => queue'[m][i] = queue[m][i]
      /\ s \in Slots /\ w \in Nodes
      /\ Asked(queue[n][j]) = Asked(queue'[n][j]) \cup {s}
      /\ Named(queue[n][j]) = Named(queue'[n][j]) \cup {w}
  <2>1. /\ \A m \in Nodes, i \in Kinds : m # n \/ i # j => Drop(n, j)[m][i] = queue[m][i]
        /\ Slot(n, j) \in Slots /\ Who(n, j) \in Nodes
    BY <1>1, DropType
  <2>2. /\ Asked(queue[n][j]) = Asked(Drop(n, j)[n][j]) \cup {Slot(n, j)}
        /\ Named(queue[n][j]) = Named(Drop(n, j)[n][j]) \cup {Who(n, j)}
    BY <1>1, DropEvents
  <2> QED
    BY <2>1, <2>2
<1>3. Tracked(k) /\ Onward /\ n \in alive
  BY DEF Hosts, Onward, Takes
<1> HIDE DEF s, w
<1>4. CASE k # n
  <2>1. queue'[k] = queue[k]
    BY <1>2, <1>4, OthersKeep
  <2> QED
    BY <1>3, <1>4, <2>1, TrackedStill
<1>5. CASE k = n
  <2>0. /\ InitialSlots' = InitialSlots /\ InitialSlots \subseteq Slots
        /\ \A r : Fits(r)' <=> Fits(r)
    BY <1>3, Constant DEF Onward
  <2>1. s \in InitialSlots /\ Fit(n) /\ Living(n) /\ Followed(n) /\ w \notin failedOn[n]
    <3>1. Fit(n) /\ Living(n) /\ Followed(n)
      BY <1>3, <1>5 DEF Tracked
    <3>2. s \in InitialSlots
      BY <1>2, <3>1 DEF Fit, Verdicts
    <3>3. w \notin failedOn[n]
      BY <1>2, <1>3, <3>1 DEF Living
    <3> QED
      BY <3>1, <3>2, <3>3
  <2>2. \A i \in Kinds : /\ Asked(queue'[n][i]) \subseteq Asked(queue[n][i])
                         /\ Named(queue'[n][i]) \subseteq Named(queue[n][i])
                         /\ Asked(queue[n][i]) \subseteq Asked(queue'[n][i]) \cup {s}
    BY <1>2
  <2>3. queue'[n]["node"] = queue[n]["node"]
    BY <1>1, <1>2
  <2>4. row'[n] # Nil => /\ row[n] # Nil
                         /\ \A t \in Slots : row'[n].rep[t] = IF t = s THEN w ELSE row[n].rep[t]
    <3>1. row[n] # Nil => row[n].rep \in [Slots -> Nodes \cup {Nil}]
      BY DEF RowsOK, Capsule
    <3> QED
      BY <1>2, <3>1 DEF s, w
  <2>5. Fit(n)'
    <3>1. \A i \in Verdicts : Asked(queue'[n][i]) \subseteq InitialSlots
      BY <1>1, <2>1, <2>2 DEF Fit, Verdicts
    <3>2. \A t \in Slots : el'[n][t] # "none" => t \in InitialSlots
      BY <2>1 DEF Fit
    <3>3. row'[n] # Nil => Fits(row'[n])
      BY <2>1, <2>4 DEF Fit, Fits
    <3> QED
      BY <2>0, <3>1, <3>2, <3>3 DEF Fit, Fits
  <2>6. Living(n)'
    <3>1. /\ Named(queue'[n]["won"]) \subseteq Named(queue[n]["won"])
          /\ Named(queue'[n]["lost"]) \subseteq Named(queue[n]["lost"])
      BY <1>1, <2>2
    <3> QED
      BY <2>1, <3>1 DEF Living
  <2>7. Followed(n)'
    <3> SUFFICES ASSUME row'[n] # Nil, "leave" \notin done, NEW t \in InitialSlots, t \notin failed
                 PROVE  Hosted(n, t)' \/ Pending(n, t)'
      BY <2>0 DEF Followed
    <3>1. Hosted(n, t) \/ Pending(n, t)
      BY <1>3, <2>1, <2>4 DEF Followed
    <3>2. CASE t = s
      BY <1>2, <2>0, <2>1, <2>4, <3>2 DEF Hosted
    <3>3. CASE t # s /\ Hosted(n, t)
      BY <2>0, <2>3, <2>4, <3>3 DEF Hosted
    <3>4. CASE t # s /\ Pending(n, t)
      <4>1. \A i \in Verdicts : t \in Asked(queue[n][i]) => t \in Asked(queue'[n][i])
        BY <1>1, <2>2, <3>4 DEF Verdicts
      <4> QED
        BY <3>4, <4>1 DEF Pending
    <3> QED
      BY <3>1, <3>2, <3>3, <3>4
  <2> QED
    BY <1>5, <2>5, <2>6, <2>7 DEF Tracked
<1> QED
  BY <1>4, <1>5

LEMMA WonTracked ==
  ASSUME TypeOK, TypeOK', Hosts, NEW n \in Nodes, OnElectionWon(n), NEW k \in Nodes
  PROVE  Tracked(k)'
<1> USE TypeParts
<1> DEFINE s == Slot(n, "won")
           w == Who(n, "won")
<1>1. Takes(n, "won") /\ queue' = Drop(n, "won")
      /\ UNCHANGED <<el, heard, failedOn, alive, failed, done, count>>
  BY DEF OnElectionWon, Calm, World, Elections, History
<1>2. CASE row[n] = Nil
  <2>1. row' = row
    BY <1>2 DEF OnElectionWon
  <2> QED
    BY <1>1, <1>2, <2>1, RecordTracked
<1>3. CASE row[n] # Nil
  <2>1. row' = [row EXCEPT ![n] = [row[n] EXCEPT !.rep = [row[n].rep EXCEPT ![s] = w]]]
    BY <1>3 DEF OnElectionWon
  <2>2. row[n] \in Capsule
    BY <1>3 DEF RowsOK
  <2> HIDE DEF s, w
  <2>3. [row[n] EXCEPT !.rep = [row[n].rep EXCEPT ![s] = w]].rep = [row[n].rep EXCEPT ![s] = w]
    BY <2>2 DEF Capsule
  <2>4. /\ \A m \in Nodes \ {n} : row'[m] = row[m]
        /\ row'[n].rep = [row[n].rep EXCEPT ![s] = w]
    BY <2>1, <2>3 DEF RowsOK
  <2> QED
    BY <1>1, <1>3, <2>4, RecordTracked DEF s, w
<1> QED
  BY <1>2, <1>3

LEMMA LostTracked ==
  ASSUME TypeOK, TypeOK', Hosts, NEW n \in Nodes, OnElectionLost(n), NEW k \in Nodes
  PROVE  Tracked(k)'
<1> USE TypeParts
<1> DEFINE s == Slot(n, "lost")
           w == Who(n, "lost")
<1>1. Takes(n, "lost") /\ queue' = Drop(n, "lost")
      /\ UNCHANGED <<el, heard, failedOn, alive, failed, done, count>>
  BY DEF OnElectionLost, Calm, World, Elections, History
<1>2. CASE row[n] = Nil
  <2>1. row' = row
    BY <1>2 DEF OnElectionLost
  <2> QED
    BY <1>1, <1>2, <2>1, RecordTracked
<1>3. CASE row[n] # Nil
  <2>1. row' = [row EXCEPT ![n] = [st |-> "assigned", rep |-> [row[n].rep EXCEPT ![s] = w]]]
    BY <1>3 DEF OnElectionLost
  <2> HIDE DEF s, w
  <2>2. /\ \A m \in Nodes \ {n} : row'[m] = row[m]
        /\ row'[n].rep = [row[n].rep EXCEPT ![s] = w]
    BY <2>1 DEF RowsOK
  <2> QED
    BY <1>1, <1>3, <2>2, RecordTracked DEF s, w
<1> QED
  BY <1>2, <1>3

(* onNodeFailed and handleContainerCrash: the replicas recorded on f are asked
   for, which are all that the report of f was for. *)
LEMMA AskTracked ==
  ASSUME TypeOK, TypeOK', Hosts, NEW n \in Nodes, NEW j \in {"node", "crash"}, Takes(n, j),
         UNCHANGED <<row, el, heard, failedOn, alive, failed, done, count>>, NEW f \in Nodes,
         j = "node" => f = Who(n, j),
         queue' = IF row[n] = Nil THEN Drop(n, j)
                  ELSE RequestElections(Drop(n, j), n, {s \in Slots : row[n].rep[s] = f}),
         NEW k \in Nodes
  PROVE  Tracked(k)'
<1> USE TypeParts
<1> DEFINE S == {s \in Slots : row[n].rep[s] = f}
           q == Drop(n, j)
<1>1. j \in Kinds /\ {"won", "lost", "req", "node"} \subseteq Kinds /\ j \notin Verdicts
      /\ Verdicts \subseteq Kinds
  BY DEF Kinds, Verdicts
<1>2. /\ \A m \in Nodes, i \in Kinds : m # n \/ i # j => q[m][i] = queue[m][i]
      /\ q \in Events
      /\ Named(queue[n][j]) = Named(q[n][j]) \cup {Who(n, j)}
  BY <1>1, DropType, DropEvents
<1>3. Tracked(k) /\ Tracked(n) /\ Onward /\ n \in alive
  BY DEF Hosts, Onward, Takes
<1>4. S \in SUBSET Slots /\ (\A s \in S : row[n].rep[s] = f)
      /\ \A s \in Slots : row[n].rep[s] = f => s \in S
  OBVIOUS
<1>5. row[n] # Nil => S \subseteq InitialSlots
  BY <1>3, FlowAssumption DEF Tracked, Fit, Fits
<1>6. \/ row[n] = Nil /\ queue' = q
      \/ row[n] # Nil /\ queue' = RequestElections(q, n, S)
  OBVIOUS
<1> HIDE DEF S, q
<1>7. /\ \A m \in Nodes, i \in Kinds : m # n \/ i # "req" => queue'[m][i] = q[m][i]
      /\ row[n] = Nil => Asked(queue'[n]["req"]) = Asked(q[n]["req"])
      /\ row[n] # Nil => Asked(queue'[n]["req"]) = Asked(q[n]["req"]) \cup S
  <2>1. CASE row[n] = Nil
    BY <1>6, <2>1
  <2>2. CASE row[n] # Nil
    <3>1. Asked(RequestElections(q, n, S)[n]["req"]) = Asked(q[n]["req"]) \cup S
      BY <1>2, <1>4, RequestEvents
    <3>2. \A m \in Nodes, i \in Kinds :
            m # n \/ i # "req" => RequestElections(q, n, S)[m][i] = q[m][i]
      BY <1>2, <1>4, RequestType
    <3> QED
      BY <1>6, <2>2, <3>1, <3>2
  <2> QED
    BY <2>1, <2>2
<1>8. CASE k # n
  <2>0. \A i \in Kinds : queue'[k][i] = queue[k][i]
    BY <1>2, <1>7, <1>8
  <2>1. queue'[k] = queue[k]
    BY <1>8, <2>0, OthersKeep
  <2> QED
    BY <1>3, <1>8, <2>1, TrackedStill
<1>9. CASE k = n
  <2>0. /\ InitialSlots' = InitialSlots /\ InitialSlots \subseteq Slots
        /\ \A r : Fits(r)' <=> Fits(r)
    BY <1>3, Constant DEF Onward
  <2>1. Fit(n) /\ Living(n) /\ Followed(n)
    BY <1>3 DEF Tracked
  <2>2. /\ queue'[n]["won"] = queue[n]["won"] /\ queue'[n]["lost"] = queue[n]["lost"]
        /\ Asked(queue[n]["req"]) \subseteq Asked(queue'[n]["req"])
        /\ row[n] # Nil => S \subseteq Asked(queue'[n]["req"])
        /\ Asked(queue'[n]["req"]) \subseteq Asked(queue[n]["req"]) \cup InitialSlots
    <3>1. queue'[n]["won"] = queue[n]["won"] /\ queue'[n]["lost"] = queue[n]["lost"]
      BY <1>1, <1>2, <1>7 DEF Verdicts
    <3>2. q[n]["req"] = queue[n]["req"]
      BY <1>1, <1>2 DEF Verdicts
    <3> QED
      BY <1>5, <1>7, <3>1, <3>2
  <2>3. /\ Named(queue[n]["node"]) \subseteq Named(queue'[n]["node"]) \cup {f}
    <3>1. CASE j = "node"
      BY <1>1, <1>2, <1>7, <3>1
    <3>2. CASE j # "node"
      BY <1>1, <1>2, <1>7, <3>2
    <3> QED
      BY <3>1, <3>2
  <2>4. Fit(n)'
    <3>1. \A i \in Verdicts : Asked(queue'[n][i]) \subseteq InitialSlots
      BY <2>1, <2>2 DEF Fit, Verdicts
    <3> QED
      BY <2>0, <2>1, <3>1 DEF Fit
  <2>5. Living(n)'
    BY <2>1, <2>2 DEF Living
  <2>6. Followed(n)'
    <3> SUFFICES ASSUME row[n] # Nil, "leave" \notin done, NEW t \in InitialSlots, t \notin failed
                 PROVE  Hosted(n, t)' \/ Pending(n, t)'
      BY <2>0 DEF Followed
    <3>1. Hosted(n, t) \/ Pending(n, t)
      BY <1>3, <2>1 DEF Followed
    <3>2. CASE Hosted(n, t) /\ row[n].rep[t] # f
      BY <2>3, <3>2 DEF Hosted
    <3>3. CASE row[n].rep[t] = f
      <4>1. t \in S
        BY <1>4, <2>0, <3>3
      <4> QED
        BY <2>2, <4>1 DEF Pending, Verdicts
    <3>4. CASE Pending(n, t)
      BY <2>2, <3>4 DEF Pending, Verdicts
    <3> QED
      BY <3>1, <3>2, <3>3, <3>4
  <2> QED
    BY <1>9, <2>4, <2>5, <2>6 DEF Tracked
<1> QED
  BY <1>8, <1>9

(* The runtime posts its events to subscribers of another kind. *)
LEMMA ElseTracked ==
  ASSUME TypeOK, Hosts, Onward, UNCHANGED <<el, heard, failedOn>>, NEW k \in Nodes,
         row'[k] # Nil => row[k] # Nil /\ row'[k].rep = row[k].rep,
         \A i \in {"req", "won", "lost", "node"} : queue'[k][i] = queue[k][i]
  PROVE  Tracked(k)'
  BY TrackedStays DEF Hosts, Verdicts

LEMMA HandleTracked ==
  ASSUME TypeOK, TypeOK', Hosts, Present, NEW n \in Nodes, Handle(n), NEW k \in Nodes
  PROVE  Tracked(k)'
<1> USE TypeParts
<1>0. Kinds = {"req", "won", "rt", "lost", "fail", "node", "crash"} /\ queue \in Events
  BY DEF Kinds, QueueOK
<1>1. CASE Dispatch(n)
  BY <1>1, DispatchTracked
<1>2. CASE OnElectionWon(n) \/ OnElectionLost(n)
  BY <1>2, WonTracked, LostTracked
<1>3. CASE OnElectionFailed(n)
  <2>1. Takes(n, "fail") /\ queue' = Drop(n, "fail") /\ Put(n, "announced")
        /\ UNCHANGED <<el, heard, failedOn>> /\ Onward
    BY <1>3 DEF OnElectionFailed, Calm, World, Elections, History, Onward
  <2>2. \A i \in Kinds : i # "fail" => queue'[k][i] = queue[k][i]
    BY <1>0, <2>1, DropType
  <2>3. row'[k] # Nil => row[k] # Nil /\ row'[k].rep = row[k].rep
    BY <2>1, PutRep
  <2> QED
    BY <1>0, <2>1, <2>2, <2>3, ElseTracked
<1>4. CASE OnNodeFailed(n)
  <2>1. Takes(n, "node") /\ UNCHANGED <<row, el, heard, failedOn, alive, failed, done, count>>
    BY <1>4 DEF OnNodeFailed, Calm, World, Elections, History
  <2>2. Who(n, "node") \in Nodes
    BY <1>0, <2>1, DropType
  <2>3. queue' = IF row[n] = Nil THEN Drop(n, "node")
                 ELSE RequestElections(Drop(n, "node"), n,
                                       {s \in Slots : row[n].rep[s] = Who(n, "node")})
    BY <1>4 DEF OnNodeFailed
  <2> QED
    BY <2>1, <2>2, <2>3, AskTracked
<1>5. CASE OnContainerCrash(n)
  <2>1. Takes(n, "crash") /\ UNCHANGED <<row, el, heard, failedOn, alive, failed, done, count>>
    BY <1>5 DEF OnContainerCrash, Calm, World, Elections, History
  <2>2. queue' = IF row[n] = Nil THEN Drop(n, "crash")
                 ELSE RequestElections(Drop(n, "crash"), n, {s \in Slots : row[n].rep[s] = n})
    BY <1>5 DEF OnContainerCrash
  <2> QED
    BY <2>1, <2>2, AskTracked
<1>6. CASE RuntimeStart(n)
  <2> DEFINE s == Slot(n, "rt")
  <2>1. Takes(n, "rt") /\ UNCHANGED <<el, heard, failedOn, alive, failed>>
    BY <1>6 DEF RuntimeStart, Elections, History
  <2>2. s \in Slots /\ Drop(n, "rt") \in Events
    BY <1>0, <2>1, DropType
  <2>3. queue' = Drop(n, "rt") \/ queue' = Post(Drop(n, "rt"), n, "crash", <<s, n>>)
    BY <1>6 DEF RuntimeStart
  <2>4. Put(n, "running") \/ Fire(n, "execution_failed") \/ UNCHANGED row
    BY <1>6 DEF RuntimeStart
  <2>5. Onward
    BY <1>6, <2>1 DEF RuntimeStart, Disturbed, Onward
  <2> HIDE DEF s
  <2>6. row'[k] # Nil => row[k] # Nil /\ row'[k].rep = row[k].rep
    BY <2>4, PutRep, FireRep
  <2>7. \A i \in Kinds : i # "rt" => Drop(n, "rt")[k][i] = queue[k][i]
    BY <1>0, <2>1, DropType
  <2>8. \A i \in Kinds : i # "rt" /\ i # "crash" => queue'[k][i] = queue[k][i]
    <3>1. CASE queue' = Drop(n, "rt")
      BY <2>7, <3>1
    <3>2. CASE queue' = Post(Drop(n, "rt"), n, "crash", <<s, n>>)
      <4>1. \A m \in Nodes, i \in Kinds : m # n \/ i # "crash" => queue'[m][i] = Drop(n, "rt")[m][i]
        <5>1. "crash" \in Kinds
          BY <1>0
        <5> QED
          BY <2>2, <3>2, <5>1, PostFacts
      <4> QED
        BY <2>7, <4>1
    <3> QED
      BY <2>3, <3>1, <3>2
  <2> QED
    BY <1>0, <2>1, <2>5, <2>6, <2>8, ElseTracked
<1>7. CASE CreateAnnounce(n)
  <2>1. Fire(n, "announce") /\ UNCHANGED <<queue, el, heard, failedOn>> /\ Onward
    BY <1>7 DEF CreateAnnounce, Elections, History, World, Onward
  <2>2. row'[k] # Nil => row[k] # Nil /\ row'[k].rep = row[k].rep
    BY <2>1, FireRep
  <2> QED
    BY <2>1, <2>2, ElseTracked
<1> QED
  BY <1>1, <1>2, <1>3, <1>4, <1>5, <1>6, <1>7 DEF Handle

(* What a win adds to the queues, and what a verdict leaves in the buffers. *)
LEMMA WinEvents ==
  ASSUME QueueOK, NEW n \in Nodes, NEW s \in Slots,
         queue' = [m \in Nodes |->
           IF m = n THEN [queue[m] EXCEPT !["won"] = Append(@, <<s, n>>),
                                          !["rt"] = Append(@, <<s, n>>)]
           ELSE IF m \in Hearing(n, s)
           THEN [queue[m] EXCEPT !["lost"] = Append(@, <<s, n>>)] ELSE queue[m]]
  PROVE  /\ \A j \in {"req", "lost", "node"} : queue'[n][j] = queue[n][j]
         /\ Asked(queue'[n]["won"]) = Asked(queue[n]["won"]) \cup {s}
         /\ Named(queue'[n]["won"]) = Named(queue[n]["won"]) \cup {n}
         /\ \A m \in Nodes \ {n} :
              /\ \A j \in {"req", "won", "node"} : queue'[m][j] = queue[m][j]
              /\ m \notin Hearing(n, s) => queue'[m]["lost"] = queue[m]["lost"]
              /\ m \in Hearing(n, s) =>
                   /\ Asked(queue'[m]["lost"]) = Asked(queue[m]["lost"]) \cup {s}
                   /\ Named(queue'[m]["lost"]) = Named(queue[m]["lost"]) \cup {n}
<1> DEFINE e == <<s, n>>
<1>1. e \in Slots \X Nodes /\ e[1] = s /\ e[2] = n
  OBVIOUS
<1>2. queue' = [m \in Nodes |->
        IF m = n THEN [queue[m] EXCEPT !["won"] = Append(@, e), !["rt"] = Append(@, e)]
        ELSE IF m \in Hearing(n, s)
        THEN [queue[m] EXCEPT !["lost"] = Append(@, e)] ELSE queue[m]]
  OBVIOUS
<1> HIDE DEF e
<1>3. /\ Kinds = {"req", "won", "rt", "lost", "fail", "node", "crash"}
      /\ \A m \in Nodes : queue[m] \in [Kinds -> Seq(Slots \X Nodes)]
  BY DEF Kinds, QueueOK, Events
<1>4. ASSUME NEW m \in Nodes, NEW j \in Kinds
      PROVE  /\ Asked(Append(queue[m][j], e)) = Asked(queue[m][j]) \cup {s}
             /\ Named(Append(queue[m][j], e)) = Named(queue[m][j]) \cup {n}
  <2> DEFINE x == queue[m][j]
  <2>1. x \in Seq(Slots \X Nodes)
    BY <1>3
  <2> HIDE DEF x
  <2>2. Asked(Append(x, e)) = Asked(x) \cup {e[1]} /\ Named(Append(x, e)) = Named(x) \cup {e[2]}
    BY <1>1, <2>1, AppendEvents
  <2> QED
    BY <1>1, <2>2 DEF x
<1>5. /\ queue'[n]["won"] = Append(queue[n]["won"], e)
      /\ \A j \in {"req", "lost", "node"} : queue'[n][j] = queue[n][j]
  BY <1>2, <1>3
<1>6. ASSUME NEW m \in Nodes \ {n}
      PROVE  /\ \A j \in {"req", "won", "node"} : queue'[m][j] = queue[m][j]
             /\ m \notin Hearing(n, s) => queue'[m]["lost"] = queue[m]["lost"]
             /\ m \in Hearing(n, s) => queue'[m]["lost"] = Append(queue[m]["lost"], e)
  BY <1>2, <1>3
<1>7. "won" \in Kinds /\ "lost" \in Kinds
  BY <1>3
<1>8. /\ Asked(queue'[n]["won"]) = Asked(queue[n]["won"]) \cup {s}
      /\ Named(queue'[n]["won"]) = Named(queue[n]["won"]) \cup {n}
  BY <1>4, <1>5, <1>7
<1>9. ASSUME NEW m \in Nodes \ {n}, m \in Hearing(n, s)
      PROVE  /\ Asked(queue'[m]["lost"]) = Asked(queue[m]["lost"]) \cup {s}
             /\ Named(queue'[m]["lost"]) = Named(queue[m]["lost"]) \cup {n}
  <2>1. queue'[m]["lost"] = Append(queue[m]["lost"], e)
    BY <1>6, <1>9
  <2>2. /\ Asked(Append(queue[m]["lost"], e)) = Asked(queue[m]["lost"]) \cup {s}
        /\ Named(Append(queue[m]["lost"], e)) = Named(queue[m]["lost"]) \cup {n}
    BY <1>4, <1>7
  <2> QED
    BY <2>1, <2>2
<1> QED
  BY <1>5, <1>6, <1>8, <1>9

LEMMA TellHeard ==
  ASSUME heard \in Buffers, NEW n \in Nodes, NEW s \in Slots, NEW v, Tell(n, s, v)
  PROVE  /\ heard'[n] = heard[n]
         /\ \A m \in Nodes, t \in Slots : heard'[m][t] \in {heard[m][t], v}
<1>1. heard' = [m \in Nodes |-> IF m \in joined \ {n} /\ Closed(m, s)
                               THEN [heard[m] EXCEPT ![s] = v] ELSE heard[m]]
  BY DEF Tell
<1> QED
  BY <1>1 DEF Buffers

LEMMA WinTracked ==
  ASSUME TypeOK, Hosts, NEW n \in Nodes, NEW s \in Slots, Win(n, s), NEW k \in Nodes
  PROVE  Tracked(k)'
<1> USE TypeParts
<1>1. /\ el \in Rounds /\ heard \in Buffers /\ Tell(n, s, n) /\ Fire(n, "election_won")
      /\ el[n][s] # "none" /\ n \in alive
      /\ UNCHANGED <<failedOn, alive, failed, done, count>>
  BY DEF ElectOK, Rounds, Buffers, Win, World, WorldOK
<1>2. Tracked(k) /\ Tracked(n) /\ Onward
  BY <1>1 DEF Hosts, Onward
<1>3. s \in InitialSlots
  BY <1>1, <1>2 DEF Tracked, Fit
<1>4. row'[k] # Nil => row[k] # Nil /\ row'[k].rep = row[k].rep
  BY <1>1, FireRep
<1>5. /\ heard'[n] = heard[n]
      /\ \A m \in Nodes, t \in Slots : heard'[m][t] \in {heard[m][t], n}
  BY <1>1, TellHeard
<1>6. /\ \A j \in {"req", "lost", "node"} : queue'[n][j] = queue[n][j]
      /\ Asked(queue'[n]["won"]) = Asked(queue[n]["won"]) \cup {s}
      /\ Named(queue'[n]["won"]) = Named(queue[n]["won"]) \cup {n}
      /\ \A m \in Nodes \ {n} :
           /\ \A j \in {"req", "won", "node"} : queue'[m][j] = queue[m][j]
           /\ m \notin Hearing(n, s) => queue'[m]["lost"] = queue[m]["lost"]
           /\ m \in Hearing(n, s) =>
                /\ Asked(queue'[m]["lost"]) = Asked(queue[m]["lost"]) \cup {s}
                /\ Named(queue'[m]["lost"]) = Named(queue[m]["lost"]) \cup {n}
  BY WinEvents DEF Win
<1>7. /\ \A m \in Nodes \ {n}, t \in Slots : el'[m][t] # el[m][t] => m \in Hearing(n, s) /\ t = s
      /\ \A t \in Slots \ {s} : el'[n][t] = el[n][t]
  BY <1>1, TellType
<1>8. CASE k # n
  <2>1. \A j \in Verdicts : /\ Asked(queue[k][j]) \subseteq Asked(queue'[k][j])
                            /\ Asked(queue'[k][j]) \subseteq Asked(queue[k][j]) \cup InitialSlots
    BY <1>3, <1>6, <1>8 DEF Verdicts
  <2>2. /\ Named(queue'[k]["won"]) \subseteq Named(queue[k]["won"])
        /\ Named(queue'[k]["lost"]) \subseteq Named(queue[k]["lost"]) \cup alive
        /\ Named(queue[k]["node"]) \subseteq Named(queue'[k]["node"])
    BY <1>1, <1>6, <1>8
  <2>3. \A t \in Slots : el'[k][t] # "none" => el[k][t] # "none"
    BY <1>7, <1>8 DEF Hearing
  <2>4. \A t \in Slots : el[k][t] # "none" => el'[k][t] # "none" \/ t \in Asked(queue'[k]["lost"])
    BY <1>6, <1>7, <1>8
  <2>5. \A t \in Slots : heard'[k][t] \in {heard[k][t], Nil, "failure"} \cup alive
    BY <1>1, <1>5
  <2> QED
    BY <1>1, <1>2, <1>4, <2>1, <2>2, <2>3, <2>4, <2>5, TrackedStays
<1>9. CASE k = n
  <2>0. /\ InitialSlots' = InitialSlots /\ InitialSlots \subseteq Slots
        /\ \A r : Fits(r)' <=> Fits(r)
    BY <1>2, Constant DEF Onward
  <2>1. Fit(n) /\ Living(n) /\ Followed(n)
    BY <1>2 DEF Tracked
  <2>2. Fit(n)'
    <3>1. \A j \in Verdicts : Asked(queue'[n][j]) \subseteq InitialSlots
      BY <1>3, <1>6, <2>1 DEF Fit, Verdicts
    <3>2. \A t \in Slots : el'[n][t] # "none" => t \in InitialSlots
      BY <1>3, <1>7, <2>1 DEF Fit
    <3>3. row'[n] # Nil => Fits(row'[n])
      BY <1>4, <1>9, <2>1 DEF Fit, Fits
    <3> QED
      BY <2>0, <3>1, <3>2, <3>3 DEF Fit, Fits
  <2>3. Living(n)'
    BY <1>1, <1>5, <1>6, <2>1 DEF Living
  <2>4. Followed(n)'
    <3> SUFFICES ASSUME row'[n] # Nil, "leave" \notin done, NEW t \in InitialSlots, t \notin failed
                 PROVE  Hosted(n, t)' \/ Pending(n, t)'
      BY <1>1, <2>0 DEF Followed
    <3>1. Hosted(n, t) \/ Pending(n, t)
      BY <1>1, <1>4, <1>9, <2>1 DEF Followed
    <3>2. CASE Hosted(n, t)
      BY <1>1, <1>4, <1>6, <1>9, <3>2 DEF Hosted
    <3>3. CASE Pending(n, t) /\ t # s
      <4>1. el'[n][t] = el[n][t]
        BY <1>7, <2>0, <3>3
      <4> QED
        BY <1>6, <3>3, <4>1 DEF Pending, Verdicts
    <3>4. CASE t = s
      BY <1>6, <3>4 DEF Pending, Verdicts
    <3> QED
      BY <3>1, <3>2, <3>3, <3>4
  <2> QED
    BY <1>9, <2>2, <2>3, <2>4 DEF Tracked
<1> QED
  BY <1>8, <1>9

LEMMA FailRoundTracked ==
  ASSUME TypeOK, Hosts, NEW n \in Nodes, NEW s \in Slots, FailRound(n, s), NEW k \in Nodes
  PROVE  Tracked(k)'
<1> USE TypeParts
<1>1. /\ el \in Rounds /\ heard \in Buffers /\ Fire(n, "election_timeout")
      /\ el[n][s] # "none" /\ failed' = failed \cup {s}
      /\ UNCHANGED <<failedOn, alive, done, count>>
      /\ queue' = Post(queue, n, "fail", <<s, n>>)
  BY DEF ElectOK, Rounds, Buffers, FailRound, World
<1>2. Tracked(k) /\ Tracked(n) /\ Onward
  BY <1>1 DEF Hosts, Onward
<1>3. row'[k] # Nil => row[k] # Nil /\ row'[k].rep = row[k].rep
  BY <1>1, FireRep
<1>4. \A i \in {"req", "won", "lost", "node"} : queue'[k][i] = queue[k][i]
  <2>1. "fail" \in Kinds /\ queue \in Events /\ {"req", "won", "lost", "node"} \subseteq Kinds
    BY DEF Kinds, QueueOK
  <2>2. \A m \in Nodes, j \in Kinds : m # n \/ j # "fail" => queue'[m][j] = queue[m][j]
    BY <1>1, <2>1, PostFacts
  <2> QED
    BY <2>1, <2>2
<1>5. /\ \A t \in Slots : heard'[k][t] \in {heard[k][t], "failure"}
      /\ k # n => \A t \in Slots : el'[k][t] # "none" <=> el[k][t] # "none"
      /\ \A t \in Slots \ {s} : el'[n][t] = el[n][t]
  <2>1. CASE n \in joined
    <3>1. Tell(n, s, "failure")
      BY <2>1 DEF FailRound
    <3>2. \A m \in Nodes, t \in Slots : heard'[m][t] \in {heard[m][t], "failure"}
      BY <1>1, <3>1, TellHeard
    <3>3. /\ \A m \in Nodes \ {n}, t \in Slots : el'[m][t] # el[m][t] => m \in Hearing(n, s) /\ t = s
          /\ \A m \in Nodes \ {n}, t \in Slots : el[m][t] # "none" => el'[m][t] # "none"
          /\ \A t \in Slots \ {s} : el'[n][t] = el[n][t]
      BY <1>1, <3>1, TellType
    <3> QED
      BY <3>2, <3>3 DEF Hearing
  <2>2. CASE n \notin joined
    <3>1. heard' = heard /\ el' = [el EXCEPT ![n] = [el[n] EXCEPT ![s] = "none"]]
      BY <2>2 DEF FailRound, SetEl
    <3> QED
      BY <1>1, <3>1 DEF Rounds
  <2> QED
    BY <2>1, <2>2
<1>6. CASE k # n
  <2>1. \A j \in Verdicts : Asked(queue'[k][j]) = Asked(queue[k][j])
    BY <1>4 DEF Verdicts
  <2>2. /\ Named(queue'[k]["won"]) = Named(queue[k]["won"])
        /\ Named(queue'[k]["lost"]) = Named(queue[k]["lost"])
        /\ Named(queue[k]["node"]) = Named(queue'[k]["node"])
    BY <1>4
  <2> QED
    BY <1>1, <1>2, <1>3, <1>5, <1>6, <2>1, <2>2, TrackedStays
<1>7. CASE k = n
  <2>0. /\ InitialSlots' = InitialSlots /\ InitialSlots \subseteq Slots
        /\ \A r : Fits(r)' <=> Fits(r)
    BY <1>2, Constant DEF Onward
  <2>1. Fit(n) /\ Living(n) /\ Followed(n)
    BY <1>2 DEF Tracked
  <2>2. Fit(n)'
    <3>1. \A j \in Verdicts : Asked(queue'[n][j]) \subseteq InitialSlots
      BY <1>4, <1>7, <2>1 DEF Fit, Verdicts
    <3>2. \A t \in Slots : el'[n][t] # "none" => t \in InitialSlots
      BY <1>1, <1>5, <2>1 DEF Fit
    <3>3. row'[n] # Nil => Fits(row'[n])
      BY <1>3, <1>7, <2>1 DEF Fit, Fits
    <3> QED
      BY <2>0, <3>1, <3>2, <3>3 DEF Fit, Fits
  <2>3. Living(n)'
    <3>1. failedOn[n] \subseteq Nodes /\ "failure" \notin Nodes
      BY FlowAssumption DEF TypeOK
    <3>2. \A t \in Slots : heard'[n][t] \notin failedOn[n]
      BY <1>5, <1>7, <2>1, <3>1 DEF Living
    <3> QED
      BY <1>1, <1>4, <1>7, <2>1, <3>2 DEF Living
  <2>4. Followed(n)'
    <3> SUFFICES ASSUME n \in alive, row'[n] # Nil, "leave" \notin done, NEW t \in InitialSlots,
                        t \notin failed, t # s
                 PROVE  Hosted(n, t)' \/ Pending(n, t)'
      BY <1>1, <2>0 DEF Followed
    <3>1. Hosted(n, t) \/ Pending(n, t)
      BY <1>3, <1>7, <2>1 DEF Followed
    <3>2. CASE Hosted(n, t)
      BY <1>1, <1>3, <1>4, <1>7, <3>2 DEF Hosted
    <3>3. CASE Pending(n, t)
      BY <1>4, <1>5, <1>7, <2>0, <3>3 DEF Pending, Verdicts
    <3> QED
      BY <3>1, <3>2, <3>3
  <2> QED
    BY <1>7, <2>2, <2>3, <2>4 DEF Tracked
<1> QED
  BY <1>6, <1>7

LEMMA RoundTracked ==
  ASSUME TypeOK, Hosts, NEW n \in Nodes, NEW s \in Slots,
         StepAside(n, s) \/ ExpireBuffer(n, s), NEW k \in Nodes
  PROVE  Tracked(k)'
<1> USE TypeParts
<1>1. /\ UNCHANGED <<row, queue, failedOn>> /\ Onward /\ Tracked(k)
      /\ el \in Rounds /\ heard \in Buffers
  BY DEF StepAside, ExpireBuffer, World, History, Onward, Hosts, ElectOK, Rounds, Buffers
<1>2. CASE StepAside(n, s)
  <2>1. heard' = heard /\ el[n][s] = "bid" /\ el' = [el EXCEPT ![n] = [el[n] EXCEPT ![s] = "aside"]]
    BY <1>2 DEF StepAside, SetEl
  <2>2. \A t \in Slots : el'[k][t] # "none" <=> el[k][t] # "none"
    BY <1>1, <2>1 DEF Rounds
  <2> QED
    BY <1>1, <2>1, <2>2, TrackedStays
<1>3. CASE ExpireBuffer(n, s)
  <2>1. el' = el /\ heard' = [heard EXCEPT ![n] = [heard[n] EXCEPT ![s] = Nil]]
    BY <1>3 DEF ExpireBuffer
  <2>2. \A t \in Slots : heard'[k][t] \in {heard[k][t], Nil}
    BY <1>1, <2>1 DEF Buffers
  <2> QED
    BY <1>1, <2>1, <2>2, TrackedStays
<1> QED
  BY <1>2, <1>3

(* A node gets a row, with the requests for its slots. *)
LEMMA ArrivalTracked ==
  ASSUME TypeOK, TypeOK', Hosts, Onward, NEW n \in Nodes, NEW r, Fits(r),
         UNCHANGED <<el, heard, failedOn>>, row' = [row EXCEPT ![n] = r],
         queue' = RequestElections(queue, n, InitialSlots), NEW k \in Nodes
  PROVE  Tracked(k)'
<1> USE TypeParts
<1>0. /\ InitialSlots' = InitialSlots /\ InitialSlots \in SUBSET Slots
      /\ \A x : Fits(x)' <=> Fits(x)
  BY Constant DEF Onward
<1>1. Tracked(k) /\ queue \in Events /\ {"req", "won", "lost", "node"} \subseteq Kinds
  BY DEF Hosts, QueueOK, Kinds
<1>2. /\ \A m \in Nodes, j \in Kinds : m # n \/ j # "req" => queue'[m][j] = queue[m][j]
      /\ Asked(queue'[n]["req"]) = Asked(queue[n]["req"]) \cup InitialSlots
  <2>1. \A m \in Nodes, j \in Kinds :
          m # n \/ j # "req" => RequestElections(queue, n, InitialSlots)[m][j] = queue[m][j]
    BY <1>0, <1>1, RequestType
  <2>2. Asked(RequestElections(queue, n, InitialSlots)[n]["req"])
          = Asked(queue[n]["req"]) \cup InitialSlots
    BY <1>0, <1>1, RequestEvents
  <2> QED
    BY <2>1, <2>2
<1>3. CASE k # n
  <2>1. queue'[k] = queue[k] /\ row'[k] = row[k]
    BY <1>2, <1>3, OthersKeep DEF RowsOK
  <2> QED
    BY <1>1, <2>1, TrackedStill
<1>4. CASE k = n
  <2>1. Fit(n) /\ Living(n)
    BY <1>1, <1>4 DEF Tracked
  <2>2. /\ queue'[n]["won"] = queue[n]["won"] /\ queue'[n]["lost"] = queue[n]["lost"]
        /\ row'[n] = r
    BY <1>1, <1>2 DEF RowsOK
  <2>3. Fit(n)'
    <3>1. \A j \in Verdicts : Asked(queue'[n][j]) \subseteq InitialSlots
      BY <1>2, <2>1, <2>2 DEF Fit, Verdicts
    <3>2. \A t \in Slots : el'[n][t] # "none" => t \in InitialSlots
      BY <2>1 DEF Fit
    <3>3. Fits(row'[n])
      BY <2>2
    <3> QED
      BY <1>0, <3>1, <3>2, <3>3 DEF Fit, Fits
  <2>4. Living(n)'
    BY <2>1, <2>2 DEF Living, Onward
  <2>5. Followed(n)'
    BY <1>0, <1>2 DEF Followed, Pending, Verdicts
  <2> QED
    BY <1>4, <2>3, <2>4, <2>5 DEF Tracked
<1> QED
  BY <1>3, <1>4

LEMMA MessageTracked ==
  ASSUME TypeOK, TypeOK', Hosts, NEW n \in Nodes, NEW i \in DOMAIN sent, NEW ch,
         OnOrbitMessage(n, i, ch), NEW k \in Nodes
  PROVE  Tracked(k)'
<1> USE TypeParts
<1>1. UNCHANGED <<el, heard, failedOn>> /\ Onward /\ Tracked(k)
  BY DEF OnOrbitMessage, Elections, History, World, Onward, Hosts
<1>2. \/ sent[i].kind = "announcement" /\ Receive(n, sent[i].row)
      \/ queue' = queue /\ row' = [row EXCEPT ![n] = Nil]
      \/ UNCHANGED <<queue, row>>
  BY DEF OnOrbitMessage, DeleteHere
<1>3. CASE sent[i].kind = "announcement" /\ Receive(n, sent[i].row)
  <2>1. row' = [row EXCEPT ![n] = sent[i].row] /\ queue' = RequestElections(queue, n, InitialSlots)
    BY <1>3 DEF Receive
  <2>2. Fits(sent[i].row)
    BY <1>3 DEF Hosts, SentFit
  <2> QED
    BY <1>1, <2>1, <2>2, ArrivalTracked
<1>4. CASE queue' = queue /\ row' = [row EXCEPT ![n] = Nil]
  <2>1. row'[k] # Nil => row'[k] = row[k]
    BY <1>4 DEF RowsOK
  <2> QED
    BY <1>1, <1>4, <2>1, TrackedStill
<1>5. CASE UNCHANGED <<queue, row>>
  BY <1>1, <1>5, TrackedStill
<1> QED
  BY <1>2, <1>3, <1>4, <1>5

LEMMA DieTracked ==
  ASSUME TypeOK, Hosts, NEW n \in Nodes, Die(n), NEW k \in Nodes
  PROVE  Tracked(k)'
<1> USE TypeParts
<1>1. /\ row' = [row EXCEPT ![n] = Nil] /\ queue' = [queue EXCEPT ![n] = NoEvents]
      /\ el' = [el EXCEPT ![n] = NoRounds]
      /\ heard' = [heard EXCEPT ![n] = [s \in Slots |-> Nil]]
      /\ failedOn' = failedOn /\ alive' = alive \ {n} /\ Tracked(k) /\ Onward
  BY DEF Die, Disturbed, Hosts, History, Onward
<1>2. CASE k = n
  <2>1. /\ row'[n] = Nil /\ \A j \in Kinds : queue'[n][j] = <<>>
        /\ \A s \in Slots : el'[n][s] = "none" /\ heard'[n][s] = Nil
    BY <1>1 DEF RowsOK, QueueOK, Events, ElectOK, NoEvents, NoRounds
  <2>2. \A j \in Kinds : Asked(queue'[n][j]) = {} /\ Named(queue'[n][j]) = {}
    BY <2>1, EmptyEvents
  <2>3. Verdicts \subseteq Kinds /\ "won" \in Kinds /\ "lost" \in Kinds
    BY DEF Verdicts, Kinds
  <2>4. Nil \notin failedOn[n]
    BY FlowAssumption DEF WorldOK
  <2>5. Fit(n)'
    BY <2>1, <2>2, <2>3 DEF Fit
  <2>6. Living(n)'
    BY <1>1, <1>2, <2>1, <2>2, <2>3, <2>4 DEF Living, Tracked
  <2>7. Followed(n)'
    BY <2>1 DEF Followed
  <2> QED
    BY <1>2, <2>5, <2>6, <2>7 DEF Tracked
<1>3. CASE k # n
  <2>1. row'[k] = row[k] /\ queue'[k] = queue[k] /\ el'[k] = el[k] /\ heard'[k] = heard[k]
    BY <1>1, <1>3 DEF RowsOK, QueueOK, Events, ElectOK
  <2> QED
    BY <1>1, <2>1, TrackedStill
<1> QED
  BY <1>2, <1>3

LEMMA DetectTracked ==
  ASSUME TypeOK, TypeOK', Hosts, NEW n \in Nodes, NEW f \in Nodes, Detect(n, f), NEW k \in Nodes
  PROVE  Tracked(k)'
<1> USE TypeParts
<1> DEFINE c == CHOOSE x \in Slots : TRUE
<1>1. /\ f \notin alive /\ UNCHANGED <<row, el, heard, alive, done, failed, count>> /\ Onward
      /\ failedOn' = [failedOn EXCEPT ![n] = @ \cup {f}]
      /\ queue' = Post(queue, n, "node", <<c, f>>)
      /\ queue[n]["lost"] = <<>> /\ \A s \in Slots : heard[n][s] = Nil
  BY DEF Detect, Elections, History, Onward
<1>2. c \in Slots
  BY SlotFacts
<1> HIDE DEF c
<1>3. queue \in Events /\ {"req", "won", "lost", "node"} \subseteq Kinds /\ Tracked(k)
      /\ "node" \in Kinds
  BY DEF QueueOK, Kinds, Hosts
<1>4. /\ \A m \in Nodes, j \in Kinds : m # n \/ j # "node" => queue'[m][j] = queue[m][j]
      /\ Named(queue'[n]["node"]) = Named(queue[n]["node"]) \cup {f}
  <2>1. queue' = Post(queue, n, "node", <<c, f>>) /\ queue \in Events /\ "node" \in Kinds
    BY <1>1, <1>3
  <2> QED
    BY <1>2, <2>1, PostFacts
<1>5. CASE k # n
  <2>1. queue'[k] = queue[k]
    BY <1>4, <1>5, OthersKeep
  <2>2. failedOn'[k] = failedOn[k]
    BY <1>1, <1>5 DEF WorldOK
  <2> QED
    BY <1>1, <1>3, <2>1, <2>2, TrackedStill
<1>6. CASE k = n
  <2>0. /\ InitialSlots' = InitialSlots /\ InitialSlots \subseteq Slots
        /\ \A r : Fits(r)' <=> Fits(r)
    BY <1>1, Constant
  <2>1. Fit(n) /\ Living(n) /\ Followed(n)
    BY <1>3, <1>6 DEF Tracked
  <2>2. failedOn'[n] = failedOn[n] \cup {f}
    BY <1>1 DEF WorldOK
  <2>3. \A j \in {"req", "won", "lost"} : queue'[n][j] = queue[n][j]
    BY <1>3, <1>4
  <2>4. Fit(n)'
    BY <1>1, <2>0, <2>1, <2>3 DEF Fit, Verdicts
  <2>5. Living(n)'
    <3>1. Named(queue'[n]["lost"]) = {}
      BY <1>1, <2>3, EmptyEvents
    <3>2. \A s \in Slots : heard'[n][s] \notin failedOn'[n]
      BY <1>1, <2>1, <2>2, FlowAssumption DEF Living
    <3> QED
      BY <1>1, <2>1, <2>2, <2>3, <3>1, <3>2 DEF Living
  <2>6. Followed(n)'
    BY <1>1, <1>4, <2>0, <2>1, <2>2, <2>3 DEF Followed, Hosted, Pending, Verdicts
  <2> QED
    BY <1>6, <2>4, <2>5, <2>6 DEF Tracked
<1> QED
  BY <1>5, <1>6

LEMMA AlarmTracked ==
  ASSUME TypeOK, TypeOK', Hosts, NEW n \in Nodes, NEW f \in Nodes, FalseAlarm(n, f),
         NEW k \in Nodes
  PROVE  Tracked(k)'
<1> USE TypeParts
<1> DEFINE c == CHOOSE x \in Slots : TRUE
<1>1. /\ UNCHANGED <<row, el, heard, failedOn>> /\ Onward
      /\ queue' = Post(queue, n, "node", <<c, f>>)
  BY DEF FalseAlarm, Elections, History, Disturbed, Onward
<1>2. c \in Slots
  BY SlotFacts
<1> HIDE DEF c
<1>3. queue \in Events /\ {"req", "won", "lost", "node"} \subseteq Kinds /\ Tracked(k)
      /\ "node" \in Kinds
  BY DEF QueueOK, Kinds, Hosts
<1>4. /\ \A m \in Nodes, j \in Kinds : m # n \/ j # "node" => queue'[m][j] = queue[m][j]
      /\ Named(queue'[n]["node"]) = Named(queue[n]["node"]) \cup {f}
  <2>1. queue' = Post(queue, n, "node", <<c, f>>) /\ queue \in Events /\ "node" \in Kinds
    BY <1>1, <1>3
  <2> QED
    BY <1>2, <2>1, PostFacts
<1>5. \A i \in {"req", "won", "lost"} : queue'[k][i] = queue[k][i]
  BY <1>3, <1>4
<1>6. Named(queue[k]["node"]) \subseteq Named(queue'[k]["node"])
  BY <1>3, <1>4
<1> QED
  BY <1>1, <1>3, <1>5, <1>6, TrackedStays DEF Verdicts

LEMMA OtherTracked ==
  ASSUME TypeOK, TypeOK', Hosts, NEW n \in Nodes, NEW s \in Slots, NEW k \in Nodes,
         \/ Update(n) \/ UpdateEmit(n) \/ Delete(n) \/ LeaveCluster(n) \/ JoinOrbit(n)
         \/ DedupCleanup(n) \/ Delay \/ ContainerDies(n, s)
  PROVE  Tracked(k)'
<1> USE TypeParts
<1>1. CASE Update(n) \/ UpdateEmit(n) \/ JoinOrbit(n) \/ DedupCleanup(n) \/ Delay
  <2>1. UNCHANGED <<row, el, heard, failedOn, queue>> /\ Onward /\ Tracked(k)
    BY <1>1 DEF Update, UpdateEmit, JoinOrbit, DedupCleanup, Delay, Elections, History, World, Disturbed,
                Onward, Hosts
  <2> QED
    BY <2>1, TrackedStill
<1>2. CASE Delete(n)
  <2>1. /\ UNCHANGED <<el, heard, failedOn, queue>> /\ Onward /\ Tracked(k)
        /\ row' = [row EXCEPT ![n] = Nil]
    BY <1>2 DEF Delete, DeleteHere, Elections, History, World, Onward, Hosts
  <2>2. row'[k] # Nil => row'[k] = row[k]
    BY <2>1 DEF RowsOK
  <2> QED
    BY <2>1, <2>2, TrackedStill
<1>3. CASE LeaveCluster(n)
  <2>1. /\ UNCHANGED <<row, el, failedOn, queue>> /\ Onward /\ Tracked(k)
        /\ heard' = [heard EXCEPT ![n] = [t \in Slots |-> Nil]]
    BY <1>3 DEF LeaveCluster, History, Disturbed, Onward, Hosts
  <2>2. \A t \in Slots : heard'[k][t] \in {heard[k][t], Nil}
    BY <2>1 DEF ElectOK
  <2> QED
    BY <2>1, <2>2, TrackedStays
<1>4. CASE ContainerDies(n, s)
  <2>1. /\ UNCHANGED <<el, heard, failedOn>> /\ Onward /\ Fire(n, "execution_failed")
        /\ queue' = Post(queue, n, "crash", <<s, n>>)
    BY <1>4 DEF ContainerDies, Elections, History, Disturbed, Onward
  <2>2. row'[k] # Nil => row[k] # Nil /\ row'[k].rep = row[k].rep
    BY <2>1, FireRep
  <2>3. queue \in Events /\ {"req", "won", "lost", "node"} \subseteq Kinds /\ "crash" \in Kinds
    BY DEF QueueOK, Kinds
  <2>4. \A m \in Nodes, j \in Kinds : m # n \/ j # "crash" => queue'[m][j] = queue[m][j]
    BY <2>1, <2>3, PostFacts
  <2>5. \A i \in {"req", "won", "lost", "node"} : queue'[k][i] = queue[k][i]
    BY <2>3, <2>4
  <2> QED
    BY <2>1, <2>2, <2>5, ElseTracked
<1> QED
  BY <1>1, <1>2, <1>3, <1>4

LEMMA NextTracked ==
  ASSUME TypeOK, TypeOK', Hosts, Present, [Next]_vars, NEW k \in Nodes
  PROVE  Tracked(k)'
<1>0. 0 \in Slots
  BY SlotFacts
<1>1. CASE UNCHANGED vars
  <2>1. UNCHANGED <<row, el, heard, failedOn, queue>> /\ Onward /\ Tracked(k)
    BY <1>1 DEF vars, Onward, Hosts
  <2> QED
    BY <2>1, TrackedStill
<1>2. ASSUME NEW n \in Nodes, Handle(n) PROVE Tracked(k)'
  BY <1>2, HandleTracked
<1>3. ASSUME NEW n \in Nodes, NEW s \in Slots, Elect(n, s) PROVE Tracked(k)'
  BY <1>3, WinTracked, FailRoundTracked, RoundTracked DEF Elect
<1>4. ASSUME NEW n \in Nodes, CreateEmit(n) PROVE Tracked(k)'
  <2> DEFINE r == [st |-> "created", rep |-> [s \in Slots |-> Nil]]
  <2>1. /\ UNCHANGED <<el, heard, failedOn>> /\ Onward /\ row' = [row EXCEPT ![n] = r]
        /\ queue' = RequestElections(queue, n, InitialSlots)
    BY <1>4 DEF CreateEmit, Elections, History, World, Onward
  <2>2. Fits(r)
    BY DEF Fits
  <2> HIDE DEF r
  <2> QED
    BY <2>1, <2>2, ArrivalTracked
<1>5. ASSUME NEW n \in Nodes, NEW s \in Slots,
             \/ Update(n) \/ UpdateEmit(n) \/ Delete(n) \/ LeaveCluster(n) \/ JoinOrbit(n)
             \/ DedupCleanup(n) \/ Delay \/ ContainerDies(n, s)
      PROVE  Tracked(k)'
  BY <1>5, OtherTracked
<1>6. ASSUME NEW n \in Nodes, Die(n) PROVE Tracked(k)'
  BY <1>6, DieTracked
<1>7. ASSUME NEW n \in Nodes, NEW m \in Nodes, Deliver(m, n) PROVE Tracked(k)'
  BY <1>7, TypeParts, Delivery, MessageTracked
<1>8. ASSUME NEW n \in Nodes, NEW i \in DOMAIN sent, Redeliver(n, i) PROVE Tracked(k)'
  BY <1>8, MessageTracked DEF Redeliver
<1>9. ASSUME NEW n \in Nodes, NEW m \in Nodes, Detect(n, m) \/ FalseAlarm(n, m)
      PROVE  Tracked(k)'
  BY <1>9, DetectTracked, AlarmTracked
<1>10. CASE Delay
  BY <1>0, <1>5, <1>10
<1> QED
  BY <1>0, <1>1, <1>2, <1>3, <1>4, <1>5, <1>6, <1>7, <1>8, <1>9, <1>10 DEF Next

(* Every step leaves the number of replicas alone. *)
LEMMA NextCount == [Next]_vars => count' = count
<1> SUFFICES ASSUME [Next]_vars PROVE count' = count
  OBVIOUS
<1>1. CASE UNCHANGED vars \/ Delay
  BY <1>1 DEF vars, Delay, Disturbed
<1>2. ASSUME NEW n \in Nodes, Handle(n) PROVE count' = count
  BY <1>2 DEF Handle, Dispatch, OnElectionWon, OnElectionLost, OnElectionFailed,
              OnNodeFailed, OnContainerCrash, RuntimeStart, CreateAnnounce, Calm, World, Disturbed
<1>3. ASSUME NEW n \in Nodes, NEW s \in Slots, Elect(n, s) \/ ContainerDies(n, s)
      PROVE  count' = count
  BY <1>3 DEF Elect, Win, StepAside, FailRound, ExpireBuffer, ContainerDies, World, Disturbed
<1>4. ASSUME NEW n \in Nodes, \/ CreateEmit(n) \/ Update(n) \/ UpdateEmit(n) \/ Delete(n)
                              \/ DedupCleanup(n) \/ LeaveCluster(n) \/ JoinOrbit(n) \/ Die(n)
      PROVE  count' = count
  BY <1>4 DEF CreateEmit, Update, UpdateEmit, Delete, DedupCleanup, LeaveCluster, JoinOrbit,
              Die, World, Disturbed
<1>5. ASSUME NEW n \in Nodes, NEW m \in Nodes,
             Deliver(m, n) \/ Detect(n, m) \/ FalseAlarm(n, m)
      PROVE  count' = count
  BY <1>5 DEF Deliver, OnOrbitMessage, Detect, FalseAlarm, Disturbed, World
<1>6. ASSUME NEW n \in Nodes, NEW i \in DOMAIN sent, Redeliver(n, i) PROVE count' = count
  BY <1>6 DEF Redeliver, OnOrbitMessage, World
<1> QED
  BY <1>1, <1>2, <1>3, <1>4, <1>5, <1>6 DEF Next

LEMMA BroadcastFit ==
  ASSUME OrbitOK, SentFit, NEW n \in Nodes, NEW kind, NEW r, NEW ch, NEW h,
         Broadcast(n, kind, r, ch, h), kind = "announcement" => Fits(r)
  PROVE  \A i \in DOMAIN sent' : sent'[i].kind = "announcement" => Fits(sent'[i].row)
<1>1. CASE n \in joined
  <2> DEFINE e == [kind |-> kind, from |-> n, row |-> r, age |-> 0]
  <2>1. sent' = Append(sent, e)
    BY <1>1 DEF Broadcast
  <2>2. e.kind = "announcement" => Fits(e.row)
    OBVIOUS
  <2> HIDE DEF e
  <2>3. ASSUME NEW i \in DOMAIN sent' PROVE (i \in DOMAIN sent /\ sent'[i] = sent[i]) \/ sent'[i] = e
    BY <2>1 DEF OrbitOK
  <2> QED
    BY <2>2, <2>3 DEF SentFit
<1>2. CASE n \notin joined
  BY <1>2 DEF Broadcast, SentFit
<1> QED
  BY <1>1, <1>2

LEMMA MessageFit ==
  ASSUME TypeOK, SentFit, NEW n \in Nodes, NEW i, NEW ch, OnOrbitMessage(n, i, ch)
  PROVE  \A j \in DOMAIN sent' : sent'[j].kind = "announcement" => Fits(sent'[j].row)
<1> USE TypeParts
<1>1. sent' = sent \/ \E h : DeleteHere(n, ch, h)
  BY DEF OnOrbitMessage
<1>2. CASE sent' = sent
  BY <1>2 DEF SentFit
<1>3. CASE \E h : DeleteHere(n, ch, h)
  <2>1. PICK h : Broadcast(n, "withdrawal", Nil, ch, h)
    BY <1>3 DEF DeleteHere
  <2> QED
    BY <2>1, BroadcastFit
<1> QED
  BY <1>1, <1>2, <1>3

LEMMA NextSentFit ==
  ASSUME TypeOK, Hosts, [Next]_vars
  PROVE  SentFit'
<1> USE TypeParts
<1> DEFINE Good == \A j \in DOMAIN sent' : sent'[j].kind = "announcement" => Fits(sent'[j].row)
<1>0. SentFit /\ \A r : Fits(r)' <=> Fits(r)
  BY NextCount, Constant DEF Hosts
<1> SUFFICES Good
  BY <1>0 DEF SentFit, Fits
<1>s. ASSUME sent' = sent PROVE Good
  BY <1>0, <1>s DEF SentFit
<1>1. CASE UNCHANGED vars
  BY <1>s, <1>1 DEF vars
<1>2. CASE Delay
  <2>1. /\ DOMAIN sent' = DOMAIN sent
        /\ \A i \in DOMAIN sent : sent'[i].kind = sent[i].kind /\ sent'[i].row = sent[i].row
    BY <1>2, DelayFacts
  <2> QED
    BY <1>0, <2>1 DEF SentFit
<1>3. ASSUME NEW n \in Nodes, NEW s \in Slots, NEW m \in Nodes,
             \/ Handle(n) \/ Elect(n, s) \/ ContainerDies(n, s) \/ Detect(n, m)
             \/ FalseAlarm(n, m) \/ JoinOrbit(n) \/ Update(n)
      PROVE  Good
  <2>1. sent' = sent
    BY <1>3, OrbitStill DEF Orbit
  <2> QED
    BY <1>s, <2>1
<1>4. ASSUME NEW n \in Nodes, CreateEmit(n) PROVE Good
  <2> DEFINE r == [st |-> "created", rep |-> [s \in Slots |-> Nil]]
  <2>1. Broadcast(n, "announcement", r, chan, hist)
    BY <1>4 DEF CreateEmit
  <2>2. Fits(r)
    BY DEF Fits
  <2> HIDE DEF r
  <2> QED
    BY <1>0, <2>1, <2>2, BroadcastFit
<1>5. ASSUME NEW n \in Nodes, UpdateEmit(n) PROVE Good
  <2>1. PICK r \in Capsule : /\ r = IF upd[n] = Stored THEN row[n] ELSE upd[n]
                             /\ Broadcast(n, "announcement", r, chan, hist)
    BY <1>5, HeldRow
  <2>2. Fits(r)
    <3>1. row[n] # Nil => Fits(row[n])
      BY DEF Hosts, Tracked, Fit
    <3>2. upd[n] \in Capsule => Fits(upd[n])
      BY DEF Hosts, HeldFit
    <3>3. r = row[n] \/ r = upd[n]
      BY <2>1, Zenon
    <3> QED
      BY <2>1, <3>1, <3>2, <3>3, NilAssumption
  <2> QED
    BY <1>0, <2>1, <2>2, BroadcastFit
<1>6. ASSUME NEW n \in Nodes, Delete(n) PROVE Good
  <2>1. PICK h : Broadcast(n, "withdrawal", Nil, chan, h)
    BY <1>6 DEF Delete, DeleteHere
  <2> QED
    BY <1>0, <2>1, BroadcastFit
<1>7. ASSUME NEW n \in Nodes, LeaveCluster(n) \/ DedupCleanup(n) \/ Die(n) PROVE Good
  BY <1>s, <1>7 DEF LeaveCluster, DedupCleanup, Die
<1>8. ASSUME NEW n \in Nodes, NEW m \in Nodes, Deliver(m, n) PROVE Good
  BY <1>0, <1>8, MessageFit DEF Deliver
<1>9. ASSUME NEW n \in Nodes, NEW i \in DOMAIN sent, Redeliver(n, i) PROVE Good
  BY <1>0, <1>9, MessageFit DEF Redeliver
<1>10. 0 \in Slots
  BY SlotFacts
<1> HIDE DEF Good
<1> QED
  BY <1>1, <1>2, <1>3, <1>4, <1>5, <1>6, <1>7, <1>8, <1>9, <1>10 DEF Next

(* What an Update holds is what the store had. *)
LEMMA ReleaseFit ==
  ASSUME TypeOK, Hosts, NEW n \in Nodes, Release(n), NEW k \in Nodes, upd'[k] \in Capsule
  PROVE  Fits(upd'[k])
<1>1. row[n] # Nil => Fits(row[n])
  BY DEF Hosts, Tracked, Fit
<1>2. upd[k] \in Capsule => Fits(upd[k])
  BY DEF Hosts, HeldFit
<1>3. upd'[k] = upd[k] \/ upd'[k] = row[n]
  <2>1. upd' = [upd EXCEPT ![n] = IF upd[n] = Stored THEN row[n] ELSE upd[n]]
    BY DEF Release
  <2>2. upd \in [Nodes -> Capsule \cup {Stored, Nil}]
    BY TypeParts DEF HeldOK
  <2> QED
    BY <2>1, <2>2
<1> QED
  BY <1>1, <1>2, <1>3, NilAssumption

LEMMA NextHeldFit ==
  ASSUME TypeOK, TypeOK', Hosts, [Next]_vars
  PROVE  HeldFit'
<1> USE TypeParts
<1>0. 0 \in Slots /\ HeldFit /\ \A r : Fits(r)' <=> Fits(r)
  BY SlotFacts, NextCount, Constant DEF Hosts
<1> SUFFICES ASSUME NEW k \in Nodes, upd'[k] \in Capsule PROVE Fits(upd'[k])
  BY <1>0 DEF HeldFit, Fits
<1>1. ASSUME upd'[k] = upd[k] PROVE Fits(upd'[k])
  BY <1>0, <1>1 DEF HeldFit
<1>2. CASE UNCHANGED vars \/ Delay
  BY <1>1, <1>2 DEF vars, Delay
<1>3. ASSUME NEW n \in Nodes, NEW s \in Slots, NEW m \in Nodes,
             \/ Handle(n) \/ Elect(n, s) \/ ContainerDies(n, s) \/ Detect(n, m)
             \/ FalseAlarm(n, m) \/ JoinOrbit(n)
      PROVE  Fits(upd'[k])
  <2>1. upd' = upd
    BY <1>3, RowsStill
  <2> QED
    BY <1>1, <2>1
<1>4. ASSUME NEW n \in Nodes, CreateEmit(n) \/ LeaveCluster(n) \/ DedupCleanup(n)
      PROVE  Fits(upd'[k])
  BY <1>1, <1>4 DEF CreateEmit, LeaveCluster, DedupCleanup
<1>5. ASSUME NEW n \in Nodes, Update(n) \/ UpdateEmit(n) \/ Die(n) PROVE Fits(upd'[k])
  <2>1. \E v \in {Stored, Nil} : upd' = [upd EXCEPT ![n] = v]
    BY <1>5 DEF Update, UpdateEmit, Die
  <2>2. upd'[k] \in {upd[k], Stored, Nil}
    BY <2>1 DEF HeldOK
  <2> QED
    BY <1>1, <2>2, NilAssumption
<1>6. ASSUME NEW n \in Nodes, Delete(n) PROVE Fits(upd'[k])
  <2>1. Release(n)
    BY <1>6 DEF Delete, DeleteHere
  <2> QED
    BY <2>1, ReleaseFit
<1>7. ASSUME NEW n \in Nodes, NEW i, NEW ch, OnOrbitMessage(n, i, ch) PROVE Fits(upd'[k])
  <2>1. Release(n) \/ upd' = upd
    BY <1>7 DEF OnOrbitMessage, Receive, DeleteHere
  <2> QED
    BY <1>1, <2>1, ReleaseFit
<1>8. ASSUME NEW n \in Nodes, NEW m \in Nodes, Deliver(m, n) PROVE Fits(upd'[k])
  BY <1>7, <1>8, Delivery
<1>9. ASSUME NEW n \in Nodes, NEW i \in DOMAIN sent, Redeliver(n, i) PROVE Fits(upd'[k])
  BY <1>7, <1>9 DEF Redeliver
<1> QED
  BY <1>0, <1>2, <1>3, <1>4, <1>5, <1>6, <1>8, <1>9 DEF Next

(* Only initial slots are won. *)
LEMMA NextWon ==
  ASSUME TypeOK, Hosts, [Next]_vars
  PROVE  won' \subseteq InitialSlots'
<1>0. InitialSlots' = InitialSlots /\ won \subseteq InitialSlots
  BY NextCount, Constant DEF Hosts
<1>1. ASSUME NEW n \in Nodes, NEW s \in Slots, Win(n, s) PROVE won' \subseteq InitialSlots
  <2>1. won' = won \cup {s} /\ el[n][s] # "none"
    BY <1>1 DEF Win
  <2>2. s \in InitialSlots
    BY <2>1 DEF Hosts, Tracked, Fit
  <2> QED
    BY <1>0, <2>1, <2>2
<1>2. CASE UNCHANGED vars \/ Delay
  BY <1>0, <1>2 DEF vars, Delay, Elections, History
<1>3. ASSUME NEW n \in Nodes, Handle(n) PROVE won' = won
  BY <1>3 DEF Handle, Dispatch, OnElectionWon, OnElectionLost, OnElectionFailed,
              OnNodeFailed, OnContainerCrash, RuntimeStart, CreateAnnounce, Calm, Elections, History
<1>4. ASSUME NEW n \in Nodes, NEW s \in Slots,
             StepAside(n, s) \/ FailRound(n, s) \/ ExpireBuffer(n, s) \/ ContainerDies(n, s)
      PROVE  won' = won
  BY <1>4 DEF StepAside, FailRound, ExpireBuffer, ContainerDies, Elections, History
<1>5. ASSUME NEW n \in Nodes, \/ CreateEmit(n) \/ Update(n) \/ UpdateEmit(n) \/ Delete(n)
                              \/ DedupCleanup(n) \/ LeaveCluster(n) \/ JoinOrbit(n) \/ Die(n)
      PROVE  won' = won
  BY <1>5 DEF CreateEmit, Update, UpdateEmit, Delete, DedupCleanup, LeaveCluster, JoinOrbit, Die,
              Elections, History
<1>6. ASSUME NEW n \in Nodes, NEW m \in Nodes,
             Deliver(m, n) \/ Detect(n, m) \/ FalseAlarm(n, m)
      PROVE  won' = won
  BY <1>6 DEF Deliver, OnOrbitMessage, Detect, FalseAlarm, Elections, History
<1>7. ASSUME NEW n \in Nodes, NEW i \in DOMAIN sent, Redeliver(n, i) PROVE won' = won
  BY <1>7 DEF Redeliver, OnOrbitMessage, Elections, History
<1> QED
  BY <1>0, <1>1, <1>2, <1>3, <1>4, <1>5, <1>6, <1>7 DEF Next, Elect

LEMMA InitHosts == Init => Hosts
<1> SUFFICES ASSUME Init PROVE Hosts
  OBVIOUS
<1>1. ASSUME NEW n \in Nodes PROVE Tracked(n)
  <2>1. /\ row[n] = Nil /\ failedOn[n] = {} /\ \A j \in Kinds : queue[n][j] = <<>>
        /\ \A s \in Slots : el[n][s] = "none"
    BY DEF Init, NoEvents, NoRounds
  <2>2. \A j \in Kinds : Asked(queue[n][j]) = {} /\ Named(queue[n][j]) = {}
    BY <2>1, EmptyEvents
  <2>3. Verdicts \subseteq Kinds /\ "won" \in Kinds /\ "lost" \in Kinds
    BY DEF Verdicts, Kinds
  <2> QED
    BY <2>1, <2>2, <2>3 DEF Tracked, Fit, Living, Followed
<1>2. sent = <<>> /\ won = {} /\ \A n \in Nodes : upd[n] = Nil
  BY DEF Init
<1> QED
  BY <1>1, <1>2, NilAssumption DEF Hosts, SentFit, HeldFit

LEMMA RestHosts == TypeOK /\ Hosts => OrphanIsReplaced
<1> SUFFICES ASSUME TypeOK, Hosts, Settled, "leave" \notin done, NEW n \in alive,
                    NEW s \in won \ failed, row[n] # Nil
             PROVE  row[n].rep[s] \in alive
  BY DEF OrphanIsReplaced
<1>1. n \in Nodes /\ Followed(n) /\ s \in InitialSlots /\ s \in Slots
  BY DEF TypeOK, Hosts, Tracked
<1>2. queue[n] = NoEvents /\ el[n] = NoRounds /\ Nodes \ alive \subseteq failedOn[n]
  BY DEF Settled
<1>3. \A j \in Kinds : Asked(queue[n][j]) = {} /\ Named(queue[n][j]) = {}
  BY <1>2, EmptyEvents DEF NoEvents
<1>4. Verdicts \subseteq Kinds /\ "node" \in Kinds
  BY DEF Verdicts, Kinds
<1>5. ~Pending(n, s)
  BY <1>1, <1>2, <1>3, <1>4 DEF Pending, NoRounds
<1>6. Hosted(n, s)
  BY <1>1, <1>5 DEF Followed
<1> QED
  BY <1>2, <1>3, <1>4, <1>6 DEF Hosted

(* When the survivors have dealt with a death, every node that has the capsule
   records a living host for every slot that was won and of which no round
   failed (handleElectionLost and onNodeFailed in capsule_handler.go): for any
   number of nodes and replicas, however verdicts, deaths, false alarms, updates
   and crashes overtake each other. *)
THEOREM OrphansReplaced == Spec => []OrphanIsReplaced
<1>1. TypeOK /\ TypeOK' /\ Hosts /\ Present /\ [Next]_vars => Hosts'
  BY NextTracked, NextSentFit, NextHeldFit, NextWon DEF Hosts
<1>2. Init => Present
  BY DEF Init, Present
<1>3. Spec => []Present
  BY <1>2, TypeCorrect, NextPresent, PTL DEF Spec
<1>4. Spec => []Hosts
  BY <1>1, <1>3, TypeCorrect, InitHosts, PTL DEF Spec
<1> QED
  BY <1>4, TypeCorrect, RestHosts, PTL
=============================================================================
