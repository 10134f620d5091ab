--------------------------- MODULE EventBusProofs ---------------------------
(***************************************************************************)
(* Proofs about EventBus for every set of publishers, every finite set of  *)
(* subscriber channels, all types and all capacities: its type invariant,  *)
(* the order in which subscribers receive, the account of the events that  *)
(* were dropped, and what can crash the process.                           *)
(***************************************************************************)
EXTENDS EventBus, SequenceTheorems, FunctionTheorems, FiniteSetTheorems, TLAPS

(* Events are numbered in the order of acceptance: a sequence of them is in
   order, and lies between two numbers. *)
Increasing(q) == \A i, j \in 1 .. Len(q) : i < j => q[i].id < q[j].id
Within(q, lo, hi) == \A i \in 1 .. Len(q) : lo < q[i].id /\ q[i].id <= hi

(* InOrder is not inductive: that an event put into a channel is later than
   all before it follows from the whole pipeline.  What is in the input is
   later than what the dispatcher holds, which is later than what was fanned
   out, and a channel holds only what was fanned out. *)
OrderedFor(c) ==
  /\ last[c] <= fanned
  /\ Increasing(queue[c]) /\ Within(queue[c], last[c], fanned)

Pipeline ==
  /\ fanned <= sent
  /\ Increasing(input) /\ Within(input, fanned, sent)
  /\ hand # <<>> => /\ fanned < hand[1].id /\ hand[1].id <= sent
                    /\ Within(input, hand[1].id, sent)

Ordered == Pipeline /\ \A c \in Chans : OrderedFor(c)

(* PanicsOnlyAfterClose needs the order of Close: channels are shut after the
   dispatcher has returned, and it returns with empty hands. *)
Closing ==
  /\ closer = "idle" <=> ~closed
  /\ ~running => hand = <<>>
  /\ closer = "done" => ~running
  /\ \A c \in Chans : sub[c] = "shut" => closer = "done"

-----------------------------------------------------------------------------
(* The events of a sequence have numbers. *)
LEMMA Numbered ==
  ASSUME NEW q \in Seq(Events)
  PROVE  /\ Len(q) \in Nat
         /\ \A i \in 1 .. Len(q) : q[i] \in Events /\ q[i].id \in Nat
<1>1. \A e \in Events : e.id \in Nat
  BY BusAssumption DEF Events
<1>2. Len(q) \in Nat /\ \A i \in 1 .. Len(q) : q[i] \in Events
  OBVIOUS
<1> QED
  BY <1>1, <1>2

(* A later event at the end keeps a sequence in order. *)
LEMMA AppendOrdered ==
  ASSUME NEW q \in Seq(Events), NEW e \in Events, NEW lo \in Nat, NEW mid \in Nat,
         Increasing(q), Within(q, lo, mid), lo <= mid, mid < e.id
  PROVE  /\ Append(q, e) \in Seq(Events) /\ Len(Append(q, e)) = Len(q) + 1
         /\ Increasing(Append(q, e)) /\ Within(Append(q, e), lo, e.id)
<1> DEFINE r == Append(q, e)
<1>1. /\ r \in Seq(Events) /\ Len(r) = Len(q) + 1 /\ Len(q) \in Nat
      /\ \A i \in 1 .. Len(q) : r[i] = q[i]
      /\ r[Len(q) + 1] = e
  <2>1. r \in Seq(Events) /\ Len(r) = Len(q) + 1 /\ Len(q) \in Nat
    OBVIOUS
  <2>2. \A i \in 1 .. Len(q) : r[i] = q[i]
    OBVIOUS
  <2>3. r[Len(q) + 1] = e
    OBVIOUS
  <2> QED
    BY <2>1, <2>2, <2>3
<1>2. (\A i \in 1 .. Len(q) : q[i].id \in Nat) /\ e.id \in Nat
  <2>1. \A i \in 1 .. Len(q) : q[i].id \in Nat
    BY Numbered
  <2>2. e.id \in Nat
    BY BusAssumption DEF Events
  <2> QED
    BY <2>1, <2>2
<1>3. Increasing(r)
  <2> SUFFICES ASSUME NEW i \in 1 .. Len(r), NEW j \in 1 .. Len(r), i < j
               PROVE  r[i].id < r[j].id
    BY DEF Increasing
  <2>1. CASE j = Len(q) + 1
    BY <1>1, <1>2, <2>1 DEF Within
  <2>2. CASE j # Len(q) + 1
    BY <1>1, <2>2 DEF Increasing
  <2> QED
    BY <2>1, <2>2
<1>4. Within(r, lo, e.id)
  <2> SUFFICES ASSUME NEW i \in 1 .. Len(r)
               PROVE  lo < r[i].id /\ r[i].id <= e.id
    BY DEF Within
  <2>1. CASE i = Len(q) + 1
    BY <1>1, <2>1, BusAssumption DEF Events
  <2>2. CASE i # Len(q) + 1
    BY <1>1, <1>2, <2>2 DEF Within
  <2> QED
    BY <2>1, <2>2
<1> QED
  BY <1>1, <1>3, <1>4

(* Taking the first event keeps the rest in order and after it. *)
LEMMA TailOrdered ==
  ASSUME NEW q \in Seq(Events), q # <<>>, NEW lo \in Nat, NEW hi \in Nat,
         Increasing(q), Within(q, lo, hi)
  PROVE  /\ Head(q) = q[1] /\ Head(q) \in Events
         /\ lo < Head(q).id /\ Head(q).id <= hi
         /\ Tail(q) \in Seq(Events) /\ Len(Tail(q)) = Len(q) - 1
         /\ Increasing(Tail(q)) /\ Within(Tail(q), Head(q).id, hi)
         /\ Within(Tail(q), lo, hi)
<1>1. /\ Head(q) \in Events /\ Tail(q) \in Seq(Events) /\ Len(Tail(q)) = Len(q) - 1
      /\ \A i \in 1 .. Len(Tail(q)) : Tail(q)[i] = q[i + 1]
  BY HeadTailProperties
<1>2. Len(q) \in Nat \ {0} /\ Head(q) = q[1] /\ 1 \in 1 .. Len(q)
  BY EmptySeq
<1>3. \A i \in 1 .. Len(Tail(q)) : i + 1 \in 1 .. Len(q) /\ 1 < i + 1
  BY <1>1, <1>2
<1>4. Increasing(Tail(q))
  <2> SUFFICES ASSUME NEW i \in 1 .. Len(Tail(q)), NEW j \in 1 .. Len(Tail(q)), i < j
               PROVE  Tail(q)[i].id < Tail(q)[j].id
    BY DEF Increasing
  <2>1. i + 1 < j + 1
    OBVIOUS
  <2> QED
    BY <1>1, <1>3, <2>1 DEF Increasing
<1>5. Within(Tail(q), Head(q).id, hi)
  BY <1>1, <1>2, <1>3 DEF Increasing, Within
<1>6. Within(Tail(q), lo, hi)
  BY <1>1, <1>3 DEF Within
<1> QED
  BY <1>1, <1>2, <1>4, <1>5, <1>6 DEF Within

(* Bounds may be widened. *)
LEMMA WithinWider ==
  ASSUME NEW q \in Seq(Events), NEW lo \in Nat, NEW hi \in Nat, NEW up \in Nat,
         Within(q, lo, hi), hi <= up
  PROVE  Within(q, lo, up)
  BY Numbered DEF Within

(* A number in front of a sequence of numbers. *)
LEMMA ConsProperties ==
  ASSUME NEW x \in Nat, NEW s \in Seq(Nat)
  PROVE  /\ Len(<<x>> \o s) = Len(s) + 1
         /\ (<<x>> \o s)[1] = x
         /\ \A i \in 2 .. Len(s) + 1 : (<<x>> \o s)[i] = s[i - 1]
<1>1. <<x>> \in Seq(Nat) /\ Len(<<x>>) = 1 /\ <<x>>[1] = x /\ Len(s) \in Nat
  OBVIOUS
<1>2. /\ Len(<<x>> \o s) = Len(<<x>>) + Len(s)
      /\ \A i \in 1 .. Len(<<x>>) + Len(s) :
           (<<x>> \o s)[i] = IF i <= Len(<<x>>) THEN <<x>>[i] ELSE s[i - Len(<<x>>)]
  BY <1>1, ConcatProperties
<1> QED
  BY <1>1, <1>2

(* The invariant gives the property of the run. *)
LEMMA OrderedMeans ==
  ASSUME TypeOK, Ordered
  PROVE  InOrder
<1> SUFFICES ASSUME NEW c \in Chans
             PROVE  LET seen == <<last[c]>> \o [i \in 1 .. Len(queue[c]) |-> queue[c][i].id]
                    IN  \A i, j \in 1 .. Len(seen) : i < j => seen[i] < seen[j]
  BY DEF InOrder
<1> DEFINE q == queue[c]
           ids == [i \in 1 .. Len(q) |-> q[i].id]
           seen == <<last[c]>> \o ids
<1>1. q \in Seq(Events) /\ Len(q) \in Nat /\ last[c] \in Nat
  BY LenProperties DEF TypeOK
<1>2. \A i \in 1 .. Len(q) : q[i].id \in Nat
  BY <1>1, Numbered
<1>3. ids \in Seq(Nat) /\ Len(ids) = Len(q) /\ \A i \in 1 .. Len(q) : ids[i] = q[i].id
  <2> HIDE DEF q
  <2> QED
    BY <1>1, <1>2
<1>5. /\ Len(seen) = Len(q) + 1
      /\ seen[1] = last[c]
      /\ \A i \in 2 .. Len(q) + 1 : seen[i] = q[i - 1].id
  <2> HIDE DEF ids, q
  <2>1. /\ Len(seen) = Len(ids) + 1 /\ seen[1] = last[c]
        /\ \A i \in 2 .. Len(ids) + 1 : seen[i] = ids[i - 1]
    BY <1>1, <1>3, ConsProperties
  <2>2. \A i \in 2 .. Len(q) + 1 : i - 1 \in 1 .. Len(q)
    BY <1>1
  <2> QED
    BY <1>3, <2>1, <2>2
<1>6. Increasing(q) /\ Within(q, last[c], fanned)
  BY DEF Ordered, OrderedFor
<1>7. ASSUME NEW i \in 1 .. Len(seen), NEW j \in 1 .. Len(seen), i < j
      PROVE  seen[i] < seen[j]
  <2> HIDE DEF seen, q
  <2>1. j \in 2 .. Len(q) + 1 /\ j - 1 \in 1 .. Len(q)
    BY <1>1, <1>5, <1>7
  <2>2. CASE i = 1
    BY <1>5, <1>6, <2>1, <2>2 DEF Within
  <2>3. CASE i # 1
    <3>1. i - 1 \in 1 .. Len(q) /\ i - 1 < j - 1 /\ i \in 2 .. Len(q) + 1
      BY <1>1, <1>5, <1>7, <2>3
    <3> QED
      BY <1>5, <1>6, <2>1, <3>1 DEF Increasing
  <2> QED
    BY <2>2, <2>3
<1> QED
  BY <1>7

-----------------------------------------------------------------------------
(* The account of the drops.  Lost is the set that DropsAccounted counts. *)
Got(c) == taken[c] + Len(queue[c])
Lost == UNION {{c} \X (1 .. due[c] - Got(c)) : c \in Chans}

(* Balanced is DropsAccounted, with what Cardinality needs: a finite set. *)
Balanced ==
  /\ \A c \in Chans : Got(c) <= due[c]
  /\ IsFiniteSet(Lost) /\ dropped = Cardinality(Lost)

(* What is counted is a number. *)
LEMMA GotTyped ==
  /\ TypeOK => \A c \in Chans : due[c] \in Nat /\ Got(c) \in Nat
  /\ TypeOK' => \A c \in Chans : due'[c] \in Nat /\ Got(c)' \in Nat
<1>1. ASSUME TypeOK, NEW c \in Chans
      PROVE  due[c] \in Nat /\ Got(c) \in Nat
  <2>1. queue[c] \in Seq(Events) /\ due[c] \in Nat /\ taken[c] \in Nat
    BY <1>1 DEF TypeOK
  <2> QED
    BY <2>1, LenProperties DEF Got
<1>2. ASSUME TypeOK', NEW c \in Chans
      PROVE  due'[c] \in Nat /\ Got(c)' \in Nat
  <2>1. queue'[c] \in Seq(Events) /\ due'[c] \in Nat /\ taken'[c] \in Nat
    BY <1>2 DEF TypeOK
  <2> QED
    BY <2>1, LenProperties DEF Got
<1> QED
  BY <1>1, <1>2

(* A step that leaves the difference of what is due and what was got, for
   every channel, leaves the account. *)
LEMMA BalancedKept ==
  ASSUME TypeOK, TypeOK', Balanced, dropped' = dropped,
         \A c \in Chans : due'[c] - Got(c)' = due[c] - Got(c)
  PROVE  Balanced'
<1>1. \A c \in Chans : /\ due[c] \in Nat /\ Got(c) \in Nat
                        /\ due'[c] \in Nat /\ Got(c)' \in Nat
  BY GotTyped
<1>2. Lost' = Lost
  BY <1>1 DEF Lost
<1>3. \A c \in Chans : Got(c)' <= due'[c]
  BY <1>1 DEF Balanced
<1> QED
  BY <1>2, <1>3 DEF Balanced

(* A pair for each channel of a finite set: as many pairs as channels. *)
LEMMA PairsCount ==
  ASSUME NEW S, IsFiniteSet(S), NEW f
  PROVE  LET T == {<<c, f[c]>> : c \in S}
         IN  IsFiniteSet(T) /\ Cardinality(T) = Cardinality(S)
<1> DEFINE T == {<<c, f[c]>> : c \in S}
           g == [c \in S |-> <<c, f[c]>>]
<1>1. g \in Bijection(S, T)
  <2>1. g \in [S -> T]
    OBVIOUS
  <2>2. \A a, b \in S : g[a] = g[b] => a = b
    OBVIOUS
  <2>3. \A t \in T : \E s \in S : g[s] = t
    OBVIOUS
  <2> HIDE DEF g, T
  <2> QED
    BY <2>1, <2>2, <2>3, Fun_IsBij
<1>2. ExistsBijection(S, T)
  BY <1>1 DEF ExistsBijection
<1> HIDE DEF T
<1>3. IsFiniteSet(T) /\ Cardinality(T) = Cardinality(S)
  BY <1>2, FS_Bijection
<1> QED
  BY <1>3 DEF T

(* A fanout that the channels of full do not get: each of them is due one
   event more, and as many drops are recorded as there are such channels. *)
LEMMA BalancedDrops ==
  ASSUME TypeOK, TypeOK', Balanced, NEW full \in SUBSET Chans,
         dropped' = dropped + Cardinality(full),
         \A c \in Chans : due'[c] - Got(c)' =
                            IF c \in full THEN due[c] - Got(c) + 1 ELSE due[c] - Got(c)
  PROVE  Balanced'
<1> DEFINE f == [c \in full |-> due[c] - Got(c) + 1]
           T == {<<c, f[c]>> : c \in full}
<1>1. \A c \in Chans : /\ due[c] \in Nat /\ Got(c) \in Nat /\ Got(c) <= due[c]
                        /\ due'[c] \in Nat /\ Got(c)' \in Nat
  BY GotTyped DEF Balanced
<1>2. IsFiniteSet(full)
  BY BusAssumption, FS_Subset
<1>3. IsFiniteSet(T) /\ Cardinality(T) = Cardinality(full)
  <2> HIDE DEF f
  <2> QED
    BY <1>2, PairsCount
<1>4. Lost' = Lost \cup T
  <2>1. ASSUME NEW x \in Lost'
        PROVE  x \in Lost \cup T
    <3>1. PICK c \in Chans : \E k \in 1 .. due'[c] - Got(c)' : x = <<c, k>>
      BY <2>1 DEF Lost
    <3>a. PICK k \in 1 .. due'[c] - Got(c)' : x = <<c, k>>
      BY <3>1
    <3>2. CASE c \in full /\ k = due[c] - Got(c) + 1
      BY <3>a, <3>2
    <3>3. CASE ~(c \in full /\ k = due[c] - Got(c) + 1)
      <4>1. k \in 1 .. due[c] - Got(c)
        BY <1>1, <3>a, <3>3
      <4> QED
        BY <3>a, <4>1 DEF Lost
    <3> QED
      BY <3>2, <3>3
  <2>2. ASSUME NEW x \in Lost
        PROVE  x \in Lost'
    <3>1. PICK c \in Chans : \E k \in 1 .. due[c] - Got(c) : x = <<c, k>>
      BY <2>2 DEF Lost
    <3>a. PICK k \in 1 .. due[c] - Got(c) : x = <<c, k>>
      BY <3>1
    <3>2. k \in 1 .. due'[c] - Got(c)'
      BY <1>1, <3>a
    <3> QED
      BY <3>a, <3>2 DEF Lost
  <2>3. ASSUME NEW x \in T
        PROVE  x \in Lost'
    <3>1. PICK c \in full : x = <<c, due[c] - Got(c) + 1>>
      BY <2>3
    <3>2. due[c] - Got(c) + 1 \in 1 .. due'[c] - Got(c)'
      BY <1>1, <3>1
    <3> QED
      BY <3>1, <3>2 DEF Lost
  <2> QED
    BY <2>1, <2>2, <2>3
<1>5. Lost \cap T = {}
  <2> SUFFICES ASSUME NEW x \in Lost, x \in T PROVE FALSE
    OBVIOUS
  <2>1. PICK c \in Chans : \E k \in 1 .. due[c] - Got(c) : x = <<c, k>>
    BY DEF Lost
  <2>a. PICK k \in 1 .. due[c] - Got(c) : x = <<c, k>>
    BY <2>1
  <2>2. PICK d \in full : x = <<d, due[d] - Got(d) + 1>>
    OBVIOUS
  <2>3. c = d /\ k = due[c] - Got(c) + 1
    BY <2>a, <2>2
  <2> QED
    BY <1>1, <2>a, <2>3
<1>6. IsFiniteSet(Lost') /\ dropped' = Cardinality(Lost')
  <2> HIDE DEF T
  <2>1. /\ IsFiniteSet(Lost \cup T)
        /\ Cardinality(Lost \cup T) =
             Cardinality(Lost) + Cardinality(T) - Cardinality(Lost \cap T)
    BY <1>3, FS_Union DEF Balanced
  <2>2. Cardinality(Lost \cap T) = 0
    BY <1>5, FS_EmptySet
  <2>3. Cardinality(Lost) \in Nat /\ Cardinality(T) \in Nat
    BY <1>3, FS_CardinalityType DEF Balanced
  <2> QED
    BY <1>3, <1>4, <2>1, <2>2, <2>3 DEF Balanced
<1>7. \A c \in Chans : Got(c)' <= due'[c]
  BY <1>1
<1> QED
  BY <1>6, <1>7 DEF Balanced

-----------------------------------------------------------------------------
Inv == TypeOK /\ Ordered /\ Closing /\ PanicsOnlyAfterClose /\ Balanced

(* Steps that leave the pipeline alone keep it in order. *)
LEMMA OrderedKept ==
  ASSUME Ordered, UNCHANGED <<input, hand, queue, sent, fanned, last>>
  PROVE  Ordered'
  BY DEF Ordered, Pipeline, OrderedFor, Increasing, Within

(* Steps that leave Close, the dispatcher and the channels' states alone. *)
LEMMA ClosingKept ==
  ASSUME Closing, UNCHANGED <<closer, closed, running, hand, sub>>
  PROVE  Closing'
  BY DEF Closing

(* Steps that neither fan out nor receive keep the account. *)
LEMMA AccountKept ==
  ASSUME TypeOK, TypeOK', Balanced, UNCHANGED <<queue, due, taken, dropped>>
  PROVE  Balanced'
<1>1. \A c \in Chans : due'[c] - Got(c)' = due[c] - Got(c)
  BY DEF Got
<1> QED
  BY <1>1, BalancedKept

(* Steps that do not crash the process; Close is never undone. *)
LEMMA NoPanic ==
  ASSUME PanicsOnlyAfterClose, UNCHANGED panic, closed => closed'
  PROVE  PanicsOnlyAfterClose'
  BY DEF PanicsOnlyAfterClose

(* The initial state. *)
LEMMA InitInv == Init => Inv
<1> SUFFICES ASSUME Init PROVE Inv
  OBVIOUS
<1>0. <<>> \in Seq(Events) /\ Len(<<>>) = 0
  BY EmptySeq
<1>1. TypeOK
  <2>1. /\ queue \in [Chans -> Seq(Events)] /\ input \in Seq(Events) /\ hand \in Seq(Events)
        /\ Len(input) = 0 /\ Len(hand) = 0 /\ \A c \in Chans : Len(queue[c]) = 0
    BY <1>0 DEF Init
  <2>2. /\ pub \in [Publishers -> Types \cup {"idle"}]
        /\ sub \in [Chans -> {"none", "listed", "removed", "shut"}]
        /\ due \in [Chans -> Nat] /\ taken \in [Chans -> Nat] /\ last \in [Chans -> Nat]
    BY DEF Init
  <2>3. /\ running \in BOOLEAN /\ closed \in BOOLEAN /\ ctxDone \in BOOLEAN
        /\ closer \in {"idle", "waiting", "done"}
        /\ panic \in {"none", "publish", "unsubscribe", "fanout"}
    BY DEF Init
  <2>4. dropped \in Nat /\ sent \in 0 .. MaxEvents /\ fanned \in 0 .. MaxEvents
    BY BusAssumption DEF Init
  <2> QED
    BY <2>1, <2>2, <2>3, <2>4, BusAssumption DEF TypeOK
<1>2. Ordered
  BY <1>0 DEF Init, Ordered, Pipeline, OrderedFor, Increasing, Within
<1>3. Closing /\ PanicsOnlyAfterClose
  BY DEF Init, Closing, PanicsOnlyAfterClose
<1>4. Balanced
  <2>1. \A c \in Chans : Got(c) = 0 /\ due[c] = 0
    BY <1>0 DEF Init, Got
  <2>2. Lost = {}
    BY <2>1 DEF Lost
  <2> QED
    BY <2>1, <2>2, FS_EmptySet DEF Init, Balanced
<1> QED
  BY <1>1, <1>2, <1>3, <1>4 DEF Inv

(* Publishers. *)
LEMMA PublishInv ==
  ASSUME Inv, NEW p \in Publishers, Alive,
         \/ \E type \in Types : PublishCheck(p, type)
         \/ PublishSend(p) \/ PublishGiveUp(p) \/ PublishOnClosed(p)
  PROVE  Inv'
<1> USE DEF Inv
<1>1. ASSUME NEW type \in Types, PublishCheck(p, type)
      PROVE  Inv'
  <2>1. TypeOK'
    BY <1>1 DEF PublishCheck, TypeOK
  <2> QED
    BY <1>1, <2>1, OrderedKept, ClosingKept, AccountKept, NoPanic DEF PublishCheck
<1>2. CASE PublishSend(p)
  <2> DEFINE e == [id |-> sent + 1, type |-> pub[p]]
  <2>1. /\ e \in Events /\ e.id = sent + 1 /\ input \in Seq(Events)
        /\ sent \in Nat /\ fanned \in Nat /\ sent' \in 0 .. MaxEvents
        /\ input' = Append(input, e) /\ sent' = e.id
    BY <1>2, BusAssumption DEF PublishSend, TypeOK, Events
  <2>2. /\ Increasing(input) /\ Within(input, fanned, sent) /\ fanned <= sent
    BY DEF Ordered, Pipeline
  <2> HIDE DEF e
  <2>3. /\ input' \in Seq(Events) /\ Len(input') = Len(input) + 1
        /\ Increasing(input') /\ Within(input', fanned, sent')
    BY <2>1, <2>2, AppendOrdered
  <2>4. hand # <<>> => Within(input', hand[1].id, sent')
    <3> SUFFICES ASSUME hand # <<>> PROVE Within(input', hand[1].id, sent')
      OBVIOUS
    <3>1. hand[1].id \in Nat
      BY EmptySeq, Numbered DEF TypeOK
    <3>2. Within(input, hand[1].id, sent) /\ hand[1].id <= sent
      BY DEF Ordered, Pipeline
    <3> QED
      BY <2>1, <2>2, <3>1, <3>2, AppendOrdered
  <2>5. TypeOK'
    <3>1. Len(input') <= InputCap
      BY <1>2, <2>1, <2>3, LenProperties, BusAssumption DEF PublishSend
    <3> QED
      BY <1>2, <2>1, <2>3, <3>1 DEF PublishSend, TypeOK
  <2>6. Ordered'
    <3>1. hand # <<>> => hand[1].id \in Nat
      BY EmptySeq, Numbered DEF TypeOK
    <3>2. Pipeline'
      BY <1>2, <2>1, <2>3, <2>4, <3>1 DEF PublishSend, Ordered, Pipeline
    <3>3. \A c \in Chans : OrderedFor(c)'
      BY <1>2 DEF PublishSend, Ordered, OrderedFor, Increasing, Within
    <3> QED
      BY <3>2, <3>3 DEF Ordered
  <2> QED
    BY <1>2, <2>5, <2>6, ClosingKept, AccountKept, NoPanic DEF PublishSend
<1>3. CASE PublishGiveUp(p)
  <2>1. TypeOK'
    BY <1>3 DEF PublishGiveUp, TypeOK
  <2> QED
    BY <1>3, <2>1, OrderedKept, ClosingKept, AccountKept, NoPanic DEF PublishGiveUp
<1>4. CASE PublishOnClosed(p)
  <2>1. TypeOK' /\ PanicsOnlyAfterClose'
    BY <1>4 DEF PublishOnClosed, Panic, TypeOK, PanicsOnlyAfterClose
  <2> QED
    BY <1>4, <2>1, OrderedKept, ClosingKept, AccountKept DEF PublishOnClosed, Panic
<1> QED
  BY <1>1, <1>2, <1>3, <1>4

(* Subscribers. *)
LEMMA SubscriberInv ==
  ASSUME Inv, NEW c \in Chans, Alive,
         Subscribe(c) \/ Unsubscribe(c) \/ Receive(c)
  PROVE  Inv'
<1> USE DEF Inv
<1>1. CASE Subscribe(c)
  <2>1. TypeOK' /\ Closing'
    BY <1>1 DEF Subscribe, TypeOK, Closing
  <2> QED
    BY <1>1, <2>1, OrderedKept, AccountKept, NoPanic DEF Subscribe
<1>2. CASE Unsubscribe(c)
  <2>1. CASE sub' = [sub EXCEPT ![c] = "removed"] /\ UNCHANGED panic
    <3>1. TypeOK' /\ Closing'
      BY <1>2, <2>1 DEF Unsubscribe, Panic, TypeOK, Closing
    <3> QED
      BY <1>2, <2>1, <3>1, OrderedKept, AccountKept, NoPanic DEF Unsubscribe, Panic
  <2>2. CASE sub[c] = "shut" /\ Panic("unsubscribe")
    <3>1. TypeOK' /\ PanicsOnlyAfterClose'
      BY <2>2 DEF Panic, TypeOK, PanicsOnlyAfterClose, Closing
    <3> QED
      BY <2>2, <3>1, OrderedKept, ClosingKept, AccountKept DEF Panic
  <2> QED
    BY <1>2, <2>1, <2>2 DEF Unsubscribe
<1>3. CASE Receive(c)
  <2> DEFINE q == queue[c]
  <2>1. /\ q \in Seq(Events) /\ q # <<>> /\ last[c] \in Nat /\ fanned \in Nat
        /\ OrderedFor(c)
    BY <1>3 DEF Receive, TypeOK, Ordered
  <2>2. /\ Head(q) \in Events /\ Head(q).id <= fanned
        /\ Tail(q) \in Seq(Events) /\ Len(Tail(q)) = Len(q) - 1
        /\ Increasing(Tail(q)) /\ Within(Tail(q), Head(q).id, fanned)
    <3> HIDE DEF q
    <3> QED
      BY <2>1, TailOrdered DEF OrderedFor, q
  <2>3. /\ queue' = [queue EXCEPT ![c] = Tail(q)]
        /\ taken' = [taken EXCEPT ![c] = @ + 1]
        /\ last' = [last EXCEPT ![c] = Head(q).id]
    BY <1>3 DEF Receive
  <2>4. Head(q).id \in Nat /\ Len(q) \in Nat /\ Len(q) <= SubCap
    BY <2>1, <2>2, LenProperties, BusAssumption DEF TypeOK, Events
  <2> HIDE DEF q
  <2>5. TypeOK'
    <3>1. queue' \in [Chans -> Seq(Events)]
      BY <2>2, <2>3 DEF TypeOK
    <3>2. \A d \in Chans : Len(queue'[d]) <= SubCap
      BY <2>2, <2>3, <2>4, BusAssumption DEF TypeOK
    <3>3. taken' \in [Chans -> Nat] /\ last' \in [Chans -> Nat]
      BY <2>3, <2>4 DEF TypeOK
    <3> QED
      BY <1>3, <3>1, <3>2, <3>3 DEF Receive, TypeOK
  <2>6. Ordered'
    <3>1. OrderedFor(c)'
      BY <1>3, <2>2, <2>3 DEF Receive, OrderedFor, TypeOK
    <3>2. ASSUME NEW d \in Chans, d # c
          PROVE  OrderedFor(d)'
      <4>1. queue'[d] = queue[d] /\ last'[d] = last[d] /\ fanned' = fanned
        BY <1>3, <2>3, <3>2 DEF TypeOK, Receive
      <4> QED
        BY <4>1 DEF Ordered, OrderedFor, Increasing, Within
    <3>3. Pipeline'
      BY <1>3 DEF Receive, Ordered, Pipeline, Increasing, Within
    <3> QED
      BY <3>1, <3>2, <3>3 DEF Ordered
  <2>7. Balanced'
    <3>1. \A d \in Chans : due'[d] - Got(d)' = due[d] - Got(d)
      <4> SUFFICES ASSUME NEW d \in Chans PROVE Got(d)' = Got(d) /\ due'[d] = due[d]
        OBVIOUS
      <4>1. CASE d = c
        BY <1>3, <2>2, <2>3, <2>4, <4>1 DEF Got, TypeOK, Receive, q
      <4>2. CASE d # c
        BY <1>3, <2>3, <4>2 DEF Got, TypeOK, Receive
      <4> QED
        BY <4>1, <4>2
    <3> QED
      BY <1>3, <2>5, <3>1, BalancedKept DEF Receive
  <2> QED
    BY <1>3, <2>5, <2>6, <2>7, ClosingKept, NoPanic DEF Receive
<1> QED
  BY <1>1, <1>2, <1>3

(* The dispatcher. *)
LEMMA DispatcherInv ==
  ASSUME Inv, Alive, Dispatcher
  PROVE  Inv'
<1> USE DEF Inv
<1>1. CASE DispatchTake
  <2>1. /\ input \in Seq(Events) /\ input # <<>> /\ fanned \in Nat /\ sent \in Nat
        /\ Increasing(input) /\ Within(input, fanned, sent) /\ fanned <= sent
    BY <1>1, BusAssumption DEF DispatchTake, TypeOK, Ordered, Pipeline
  <2>2. /\ Head(input) \in Events
        /\ fanned < Head(input).id /\ Head(input).id <= sent
        /\ Tail(input) \in Seq(Events) /\ Len(Tail(input)) = Len(input) - 1
        /\ Increasing(Tail(input)) /\ Within(Tail(input), Head(input).id, sent)
        /\ Within(Tail(input), fanned, sent)
    BY <2>1, TailOrdered
  <2>3. hand' = <<Head(input)>> /\ input' = Tail(input)
    BY <1>1 DEF DispatchTake
  <2>4. hand' \in Seq(Events) /\ Len(hand') = 1 /\ hand'[1] = Head(input)
    BY <2>2, <2>3
  <2>5. Len(input') <= InputCap
    BY <2>1, <2>2, <2>3, LenProperties, BusAssumption DEF TypeOK
  <2>6. TypeOK'
    BY <1>1, <2>2, <2>3, <2>4, <2>5 DEF DispatchTake, TypeOK
  <2>7. Ordered'
    <3>1. Pipeline'
      BY <1>1, <2>1, <2>2, <2>3, <2>4 DEF DispatchTake, Pipeline
    <3>2. \A c \in Chans : OrderedFor(c)'
      BY <1>1 DEF DispatchTake, Ordered, OrderedFor
    <3> QED
      BY <3>1, <3>2 DEF Ordered
  <2>8. Closing'
    BY <1>1 DEF DispatchTake, Closing
  <2> QED
    BY <1>1, <2>6, <2>7, <2>8, AccountKept, NoPanic DEF DispatchTake
<1>2. CASE DispatchExit
  <2>1. TypeOK' /\ Closing'
    BY <1>2 DEF DispatchExit, TypeOK, Closing
  <2> QED
    BY <1>2, <2>1, OrderedKept, AccountKept, NoPanic DEF DispatchExit
<1>3. CASE Fanout
  <2> DEFINE e == hand[1]
             M == Matching(e)
             ok == {c \in M : Room(c)}
             full == M \ ok
  <2>1. hand # <<>> /\ SendTo(e, ok, Cardinality(full))
    BY <1>3 DEF Fanout
  <2>2. e \in Events /\ e.id \in Nat /\ e.id \in 0 .. MaxEvents
    <3>1. hand \in Seq(Events) /\ hand # <<>>
      BY <2>1 DEF TypeOK
    <3>2. hand[1] \in Events
      BY <3>1
    <3> QED
      BY <3>2, BusAssumption DEF Events
  <2>3. /\ fanned \in Nat /\ sent \in Nat /\ fanned < e.id /\ e.id <= sent
        /\ Within(input, e.id, sent) /\ Increasing(input)
    BY <2>1, BusAssumption DEF TypeOK, Ordered, Pipeline
  <2>4. \A c \in Chans : sub[c] # "shut"
    BY <2>1 DEF Closing
  <2>5. M \in SUBSET Chans /\ ok \in SUBSET M /\ full \in SUBSET Chans
    BY DEF Matching
  <2>6. \A c \in ok : Len(queue[c]) < SubCap
    BY DEF Room
  <2>7. UNCHANGED panic
    <3>1. ~\E c \in M : sub[c] = "shut"
      BY <2>4, <2>5
    <3> HIDE DEF ok, full
    <3> QED
      BY <2>1, <3>1 DEF SendTo
  <2>8. /\ queue' = [c \in Chans |-> IF c \in ok THEN Append(queue[c], e) ELSE queue[c]]
        /\ dropped' = dropped + Cardinality(full)
        /\ due' = [c \in Chans |-> IF c \in M THEN due[c] + 1 ELSE due[c]]
        /\ fanned' = e.id /\ hand' = <<>>
        /\ UNCHANGED <<pub, input, running, sub, closed, ctxDone, closer, sent, taken, last>>
    BY <2>1 DEF SendTo
  <2>9. \A c \in M : c \in ok \/ c \in full
    OBVIOUS
  <2>10. full \cap ok = {} /\ full \subseteq M
    OBVIOUS
  <2> HIDE DEF e, M, ok, full
  <2>11. \A c \in Chans : /\ queue[c] \in Seq(Events) /\ Len(queue[c]) \in Nat
                          /\ last[c] \in Nat /\ taken[c] \in Nat /\ due[c] \in Nat
                          /\ last[c] <= fanned /\ Increasing(queue[c])
                          /\ Within(queue[c], last[c], fanned)
    BY LenProperties DEF TypeOK, Ordered, OrderedFor
  <2>12. ASSUME NEW c \in ok
         PROVE  /\ queue'[c] \in Seq(Events) /\ Len(queue'[c]) = Len(queue[c]) + 1
                /\ Increasing(queue'[c]) /\ Within(queue'[c], last[c], e.id)
    <3>1. c \in Chans /\ queue'[c] = Append(queue[c], e)
      BY <2>5, <2>8, <2>12
    <3> QED
      BY <2>2, <2>3, <2>11, <3>1, AppendOrdered
  <2>13. ASSUME NEW c \in Chans, c \notin ok
         PROVE  queue'[c] = queue[c] /\ Within(queue[c], last[c], e.id)
    <3>1. queue'[c] = queue[c]
      BY <2>8, <2>13
    <3>2. Within(queue[c], last[c], e.id)
      BY <2>2, <2>3, <2>11, WithinWider
    <3> QED
      BY <3>1, <3>2
  <2>14. Cardinality(full) \in Nat
    BY <2>5, BusAssumption, FS_Subset, FS_CardinalityType
  <2>15. TypeOK'
    <3>1. queue' \in [Chans -> Seq(Events)]
      <4>1. \A c \in Chans : queue'[c] \in Seq(Events)
        BY <2>11, <2>12, <2>13
      <4> QED
        BY <2>8, <4>1
    <3>2. \A c \in Chans : Len(queue'[c]) <= SubCap
      <4>1. \A c \in Chans : Len(queue[c]) <= SubCap
        BY DEF TypeOK
      <4> QED
        BY <2>6, <2>11, <2>12, <2>13, <4>1, BusAssumption
    <3>3. due' \in [Chans -> Nat]
      BY <2>8, <2>11
    <3>4. dropped' \in Nat /\ fanned' \in 0 .. MaxEvents
      BY <2>2, <2>8, <2>14 DEF TypeOK
    <3>5. hand' \in Seq(Events) /\ Len(hand') <= 1
      BY <2>8, EmptySeq
    <3> QED
      BY <2>7, <2>8, <3>1, <3>2, <3>3, <3>4, <3>5 DEF TypeOK
  <2>16. Ordered'
    <3>1. Pipeline'
      BY <2>2, <2>3, <2>8 DEF Pipeline, Within
    <3>2. ASSUME NEW c \in Chans
          PROVE  OrderedFor(c)'
      <4>1. last'[c] = last[c] /\ last[c] <= e.id /\ fanned' = e.id
        BY <2>2, <2>3, <2>8, <2>11
      <4>2. Increasing(queue'[c]) /\ Within(queue'[c], last[c], e.id)
        BY <2>11, <2>12, <2>13
      <4> QED
        BY <4>1, <4>2 DEF OrderedFor
    <3> QED
      BY <3>1, <3>2 DEF Ordered
  <2>17. Closing'
    BY <2>8 DEF Closing
  <2>18. Balanced'
    <3>1. ASSUME NEW c \in Chans
          PROVE  due'[c] - Got(c)' =
                   IF c \in full THEN due[c] - Got(c) + 1 ELSE due[c] - Got(c)
      <4>1. taken'[c] = taken[c] /\ due'[c] = IF c \in M THEN due[c] + 1 ELSE due[c]
        BY <2>8
      <4>2. CASE c \in ok
        <5>1. c \in M /\ c \notin full /\ Len(queue'[c]) = Len(queue[c]) + 1
          BY <2>5, <2>10, <2>12, <4>2
        <5>2. Got(c)' = Got(c) + 1 /\ Got(c) \in Nat
          <6>1. Got(c)' = taken'[c] + Len(queue'[c]) /\ Got(c) = taken[c] + Len(queue[c])
            BY DEF Got
          <6>2. taken[c] \in Nat /\ Len(queue[c]) \in Nat
            BY <2>11
          <6> QED
            BY <4>1, <5>1, <6>1, <6>2
        <5> QED
          BY <2>11, <4>1, <5>1, <5>2
      <4>3. CASE c \notin ok
        <5>1. queue'[c] = queue[c] /\ (c \in M <=> c \in full)
          BY <2>9, <2>10, <2>13, <4>3
        <5> QED
          BY <2>11, <4>1, <5>1 DEF Got
      <4> QED
        BY <4>2, <4>3
    <3> QED
      BY <2>5, <2>8, <2>15, <3>1, BalancedDrops
  <2> QED
    BY <2>7, <2>8, <2>15, <2>16, <2>17, <2>18, NoPanic
<1> QED
  BY <1>1, <1>2, <1>3 DEF Dispatcher

(* Close and the node's context. *)
LEMMA CloseInv ==
  ASSUME Inv, Alive, CancelParent \/ CloseBegin \/ CloseFinish
  PROVE  Inv'
<1> USE DEF Inv
<1>1. CASE CancelParent
  <2>1. TypeOK'
    BY <1>1 DEF CancelParent, TypeOK
  <2> QED
    BY <1>1, <2>1, OrderedKept, ClosingKept, AccountKept, NoPanic DEF CancelParent
<1>2. CASE CloseBegin
  <2>1. TypeOK' /\ Closing'
    BY <1>2 DEF CloseBegin, TypeOK, Closing
  <2> QED
    BY <1>2, <2>1, OrderedKept, AccountKept, NoPanic DEF CloseBegin
<1>3. CASE CloseFinish
  <2>1. TypeOK' /\ Closing'
    BY <1>3 DEF CloseFinish, TypeOK, Closing
  <2> QED
    BY <1>3, <2>1, OrderedKept, AccountKept, NoPanic DEF CloseFinish
<1> QED
  BY <1>1, <1>2, <1>3

(* Every step keeps the invariant. *)
LEMMA NextInv == Inv /\ [Next]_vars => Inv'
<1> SUFFICES ASSUME Inv, [Next]_vars PROVE Inv'
  OBVIOUS
<1>1. CASE Next
  BY <1>1, PublishInv, SubscriberInv, DispatcherInv, CloseInv DEF Next
<1>2. CASE UNCHANGED vars
  <2>1. TypeOK'
    BY <1>2 DEF vars, Inv, TypeOK
  <2> QED
    BY <1>2, <2>1, OrderedKept, ClosingKept, AccountKept, NoPanic DEF vars, Inv
<1> QED
  BY <1>1, <1>2

-----------------------------------------------------------------------------
(* The inductive invariant of the bus holds in every reachable state. *)
LEMMA Invariant == Spec => []Inv
<1> QED
  BY InitInv, NextInv, PTL DEF Spec

(* The state of the bus has its type: the channels never hold more than
   their capacity (bus.go:133-160). *)
THEOREM TypeCorrect == Spec => []TypeOK
<1>1. Inv => TypeOK
  BY DEF Inv
<1> QED
  BY <1>1, Invariant, PTL

(* Every subscriber receives the events it receives in the order of their
   acceptance and none of them twice (bus.go:286-306). *)
THEOREM SubscribersInOrder == Spec => []InOrder
<1>1. Inv => InOrder
  BY OrderedMeans DEF Inv
<1> QED
  BY <1>1, Invariant, PTL

(* droppedCount is exactly the number of events that listed subscribers did
   not get (bus.go:61-64), however many channels were full at once. *)
THEOREM DropsCounted == Spec => []DropsAccounted
<1>1. Inv => DropsAccounted
  BY DEF Inv, Balanced, Lost, Got, DropsAccounted
<1> QED
  BY <1>1, Invariant, PTL

(* Nothing crashes the process before Close, and the dispatcher never does
   (bus.go:263-264). *)
THEOREM PanicsAfterClose == Spec => []PanicsOnlyAfterClose
<1>1. Inv => PanicsOnlyAfterClose
  BY DEF Inv
<1> QED
  BY <1>1, Invariant, PTL
=============================================================================
