----------------------------- MODULE AuthProofs -----------------------------
(***************************************************************************)
(* Proofs about Auth for every set of nodes and of members: its type       *)
(* invariant, which ties every open tracker to a handshake that waits for  *)
(* it, that an admission is on record with its voucher, and that a         *)
(* newcomer only rejections were heard about is refused.  JoinReturns is   *)
(* liveness and left to TLC.                                               *)
(***************************************************************************)
EXTENDS Auth, TLAPS

(* The parts of TypeOK: the variables of one node each, the handshakes with
   the goroutine behind them, and the trackers with their handshakes. *)
Plain ==
  /\ keys \subseteq Nodes /\ topic \subseteq open /\ open \subseteq Nodes
  /\ book \in [Nodes -> SUBSET Nodes] /\ adds \in [Nodes -> SUBSET Nodes]
  /\ lost \subseteq Nodes \X Nodes
  /\ rev \in [Nodes -> SUBSET Nodes] /\ sess \in [Nodes -> Session]
  /\ due \subseteq Nodes /\ joined \subseteq Nodes /\ crashed \subseteq Nodes
  /\ join \in [Nodes -> {"idle", "asked", "keyed", "joining", "joined", "failed"}]
  /\ boot \in [Nodes -> SUBSET Nodes]
  /\ thr \in [Nodes -> Thread \cup {Nil}]
  /\ net \subseteq Message
  /\ starts \in 0 .. MaxStarts /\ ops \in 0 .. MaxOps

Attached ==
  /\ hs \in [Nodes -> Handshake \cup {Nil}]
  /\ \A n \in Nodes : hs[n] # Nil => thr[n] # Nil \/ n \in crashed

Tracked ==
  /\ pend \in [Nodes -> [Nodes -> Pending \cup {Nil}]]
  /\ \A v, n \in Nodes \ crashed :
       pend[v][n] # Nil => hs[n] # Nil /\ hs[n].v = v /\ hs[n].pc = "waiting"

(* AdmissionIsRecorded is about sessions; before the session there is the
   handshake, whose client is on record from the moment it is vouched for. *)
OnRecord(n, v) == n \in book[v] \cup adds[v] \/ <<v, n>> \in lost

Vouched(n) ==
  hs[n] # Nil /\ hs[n].pc \in {"vouched", "built", "waiting", "ok"} => OnRecord(n, hs[n].v)

Recorded == \A n \in Nodes : Vouched(n)

(* RejectedIsRefused needs that Done says yes only after a confirmation. *)
Confirmed ==
  \A v, n \in Nodes :
    pend[v][n] # Nil /\ pend[v][n].done = "yes" => pend[v][n].conf # {}

Inv == Plain /\ Attached /\ Tracked /\ Recorded /\ AdmissionIsRecorded /\ Confirmed

-----------------------------------------------------------------------------
(* The three parts are the type invariant. *)
LEMMA PartsOfTypeOK == Plain /\ Attached /\ Tracked <=> TypeOK
  BY DEF Plain, Attached, Tracked, TypeOK

(* Steps that leave the handshakes and do not end a goroutine. *)
LEMMA AttachedKept ==
  ASSUME Attached, UNCHANGED hs, crashed \subseteq crashed',
         \A n \in Nodes : hs[n] # Nil /\ thr[n] # Nil => thr'[n] # Nil
  PROVE  Attached'
  BY DEF Attached

(* Steps that leave handshakes and trackers. *)
LEMMA TrackedKept ==
  ASSUME Tracked, UNCHANGED <<hs, pend>>, crashed \subseteq crashed'
  PROVE  Tracked'
  BY DEF Tracked

(* What is on record stays on record: nothing leaves a phonebook or the way to
   it without a mark in lost. *)
LEMMA RecordedKept ==
  ASSUME Recorded, Attached, UNCHANGED hs,
         \A n, v \in Nodes : OnRecord(n, v) => OnRecord(n, v)'
  PROVE  Recorded'
<1> SUFFICES ASSUME NEW n \in Nodes, hs[n] # Nil,
                    hs[n].pc \in {"vouched", "built", "waiting", "ok"}
             PROVE  OnRecord(n, hs[n].v)'
  BY DEF Recorded, Vouched
<1>1. OnRecord(n, hs[n].v)
  BY DEF Recorded, Vouched
<1>2. hs[n].v \in Nodes
  BY DEF Attached, Handshake
<1> QED
  BY <1>1, <1>2

(* Sessions stay, end, or lose their voucher. *)
LEMMA AdmissionKept ==
  ASSUME AdmissionIsRecorded, Plain,
         \A n \in Nodes : sess'[n].voucher \in {sess[n].voucher, Nil},
         \A n, v \in Nodes : OnRecord(n, v) => OnRecord(n, v)'
  PROVE  AdmissionIsRecorded'
<1> SUFFICES ASSUME NEW n \in Nodes, sess'[n].voucher # Nil
             PROVE  OnRecord(n, sess[n].voucher)'
  BY DEF AdmissionIsRecorded, OnRecord
<1>1. sess'[n].voucher = sess[n].voucher /\ sess[n].voucher # Nil
  OBVIOUS
<1>2. sess[n].voucher \in Nodes
  BY <1>1 DEF Plain, Session
<1>3. OnRecord(n, sess[n].voucher)
  BY <1>1 DEF AdmissionIsRecorded, OnRecord
<1> QED
  BY <1>1, <1>2, <1>3 DEF OnRecord

(* Steps that leave the trackers. *)
LEMMA ConfirmedKept ==
  ASSUME Confirmed, UNCHANGED pend
  PROVE  Confirmed'
  BY DEF Confirmed

(* Steps that leave the phonebooks leave what is on record. *)
LEMMA RecordKept ==
  ASSUME UNCHANGED <<book, adds, lost>>
  PROVE  \A n, v \in Nodes : OnRecord(n, v) => OnRecord(n, v)'
  BY DEF OnRecord

(* Steps of the node alone: no handshake, tracker, session or phonebook. *)
LEMMA OtherKept ==
  ASSUME Inv, Plain', UNCHANGED <<hs, pend, book, adds, lost>>, crashed \subseteq crashed',
         \A n \in Nodes : hs[n] # Nil /\ thr[n] # Nil => thr'[n] # Nil,
         \A n \in Nodes : sess'[n].voucher \in {sess[n].voucher, Nil}
  PROVE  Inv'
<1>1. \A n, v \in Nodes : OnRecord(n, v) => OnRecord(n, v)'
  BY RecordKept
<1>2. Attached' /\ Tracked'
  BY AttachedKept, TrackedKept DEF Inv
<1>3. Recorded' /\ AdmissionIsRecorded'
  BY <1>1, RecordedKept, AdmissionKept DEF Inv
<1>4. Confirmed'
  BY ConfirmedKept DEF Inv
<1> QED
  BY <1>2, <1>3, <1>4 DEF Inv

(* A message is published, or its sender crashes. *)
LEMMA PublishTyped ==
  ASSUME Plain, NEW n \in Nodes, NEW z \in Nodes, NEW M \in SUBSET Message,
         NEW kind \in {"new_member", "auth_confirmed", "auth_rejected", "cert_revoked"},
         Publish(n, kind, z, M)
  PROVE  net' \subseteq Message /\ crashed \subseteq crashed' /\ crashed' \subseteq Nodes
<1>1. CASE n \in topic
  <2>1. \A m \in open : [kind |-> kind, from |-> n, about |-> z, to |-> m] \in Message
    BY DEF Plain, Message
  <2>2. UNCHANGED crashed
    BY <1>1 DEF Publish
  <2>3. net' \subseteq M \cup {[kind |-> kind, from |-> n, about |-> z, to |-> m] : m \in open}
    BY <1>1 DEF Publish
  <2> QED
    BY <2>1, <2>2, <2>3 DEF Plain
<1>2. CASE n \notin topic
  BY <1>2 DEF Publish, Plain
<1> QED
  BY <1>1, <1>2

(* Goto moves one handshake. *)
LEMMA GotoMoves ==
  ASSUME Attached, NEW n \in Nodes, hs[n] # Nil,
         NEW pc \in {"request", "challenge", "mismatch", "vouched", "built", "waiting",
                     "ok", "refused"},
         Goto(n, pc)
  PROVE  /\ hs' \in [Nodes -> Handshake \cup {Nil}]
         /\ hs'[n] # Nil /\ hs'[n].v = hs[n].v /\ hs'[n].pc = pc
         /\ \A k \in Nodes : k # n => hs'[k] = hs[k]
<1>1. hs \in [Nodes -> Handshake \cup {Nil}] /\ hs[n] \in Handshake
  BY DEF Attached
<1> DEFINE x == [hs[n] EXCEPT !.pc = pc]
<1>2. x \in Handshake /\ x.v = hs[n].v /\ x.pc = pc
  BY <1>1 DEF Handshake
<1>3. hs' = [hs EXCEPT ![n] = x]
  BY DEF Goto
<1> HIDE DEF x
<1>4. x # Nil
  BY <1>2, NilAssumption
<1> QED
  BY <1>1, <1>2, <1>3, <1>4

(* A handshake that moves on before its wait: the trackers do not care. *)
LEMMA MoveKept ==
  ASSUME Inv, NEW n \in Nodes, hs[n] # Nil, hs[n].pc # "waiting", hs'[n] # Nil,
         hs' \in [Nodes -> Handshake \cup {Nil}],
         \A k \in Nodes : k # n => hs'[k] = hs[k],
         UNCHANGED <<pend, thr>>, crashed \subseteq crashed'
  PROVE  Attached' /\ Tracked' /\ Confirmed'
<1>1. Attached'
  BY DEF Inv, Attached
<1>2. Tracked'
  BY DEF Inv, Tracked
<1> QED
  BY <1>1, <1>2, ConfirmedKept DEF Inv

(* What is on record for the others stays so when one handshake moves. *)
LEMMA OthersRecorded ==
  ASSUME Inv, NEW n \in Nodes, \A k \in Nodes : k # n => hs'[k] = hs[k], Vouched(n)',
         \A k, v \in Nodes : OnRecord(k, v) => OnRecord(k, v)'
  PROVE  Recorded'
<1> SUFFICES ASSUME NEW k \in Nodes, k # n PROVE Vouched(k)'
  BY DEF Recorded
<1>1. hs'[k] = hs[k] /\ Vouched(k)
  BY DEF Inv, Recorded
<1>2. hs[k] # Nil => hs[k].v \in Nodes
  BY DEF Inv, Attached, Handshake
<1> QED
  BY <1>1, <1>2 DEF Vouched

-----------------------------------------------------------------------------
(* The initial states: the members vouched for by the first of them are in
   its phonebook or on their way there. *)
LEMMA InitInv == Init => Inv
<1> SUFFICES ASSUME Init PROVE Inv
  OBVIOUS
<1>0. PICK S \in {Members, Members \ {First}} :
        /\ book = [n \in Nodes |-> IF n \in S THEN Members ELSE {}]
        /\ adds = [n \in Nodes |-> IF n \in Members \ S THEN Members ELSE {}]
  BY DEF Init
<1>1. Plain
  <2>1. book \in [Nodes -> SUBSET Nodes] /\ adds \in [Nodes -> SUBSET Nodes]
    BY <1>0, AuthAssumption
  <2>2. sess \in [Nodes -> Session]
    BY AuthAssumption DEF Init, Session, NoSession
  <2>3. starts \in 0 .. MaxStarts /\ ops \in 0 .. MaxOps
    BY AuthAssumption DEF Init
  <2>4. /\ keys \subseteq Nodes /\ topic \subseteq open /\ open \subseteq Nodes
        /\ lost \subseteq Nodes \X Nodes
        /\ due \subseteq Nodes /\ joined \subseteq Nodes /\ crashed \subseteq Nodes
        /\ net \subseteq Message
    BY AuthAssumption DEF Init
  <2>5. /\ rev \in [Nodes -> SUBSET Nodes] /\ boot \in [Nodes -> SUBSET Nodes]
        /\ join \in [Nodes -> {"idle", "asked", "keyed", "joining", "joined", "failed"}]
        /\ thr \in [Nodes -> Thread \cup {Nil}]
    BY DEF Init
  <2> QED
    BY <2>1, <2>2, <2>3, <2>4, <2>5 DEF Plain
<1>2. Attached /\ Tracked /\ Recorded /\ Confirmed
  BY DEF Init, Attached, Tracked, Recorded, Vouched, Confirmed
<1>3. AdmissionIsRecorded
  <2> SUFFICES ASSUME NEW n \in Nodes, sess[n].voucher # Nil
               PROVE  n \in book[sess[n].voucher] \cup adds[sess[n].voucher]
    BY DEF AdmissionIsRecorded
  <2>1. n \in Members /\ sess[n].voucher = First
    BY DEF Init, NoSession
  <2>2. First \in Members /\ First \in Nodes
    BY <2>1, AuthAssumption
  <2>3. Members = book[First] \cup adds[First]
    BY <1>0, <2>2
  <2> QED
    BY <2>1, <2>3
<1> QED
  BY <1>1, <1>2, <1>3 DEF Inv

(* Join, as far as the handshake. *)
LEMMA JoinInv ==
  ASSUME Inv, NEW n \in Nodes, Join(n) \/ SetClusterPSK(n) \/ JoinReturn(n)
  PROVE  Inv'
<1>1. CASE Join(n)
  <2>1. PICK B \in Bootstraps : boot' = [boot EXCEPT ![n] = B \ {n}]
    BY <1>1 DEF Join
  <2>2. boot' \in [Nodes -> SUBSET Nodes]
    BY <2>1, AuthAssumption DEF Inv, Plain
  <2>3. starts' \in 0 .. MaxStarts
    BY <1>1, AuthAssumption DEF Inv, Plain, Join
  <2>4. Plain'
    BY <1>1, <2>2, <2>3 DEF Inv, Plain, Join
  <2> QED
    BY <1>1, <2>4, OtherKept DEF Join
<1>2. CASE SetClusterPSK(n)
  <2>1. Plain'
    BY <1>2 DEF Inv, Plain, SetClusterPSK, membership
  <2> QED
    BY <1>2, <2>1, OtherKept DEF SetClusterPSK, membership
<1>3. CASE JoinReturn(n)
  <2>1. Plain'
    BY <1>3 DEF Inv, Plain, JoinReturn
  <2> QED
    BY <1>3, <2>1, OtherKept DEF JoinReturn
<1> QED
  BY <1>1, <1>2, <1>3

(* SubscribeToCluster: a topic that is open already, the first node of a
   cluster, or a newcomer. *)
LEMMA SubscribeInv ==
  ASSUME Inv, NEW n \in Nodes, SubscribeToCluster(n)
  PROVE  Inv'
<1> USE DEF SubscribeToCluster, membership
<1>1. CASE n \in open
  <2>1. Plain'
    BY <1>1 DEF Inv, Plain
  <2> QED
    BY <1>1, <2>1, OtherKept
<1>2. CASE n \notin open /\ boot[n] = {}
  <2>1. adds' = [adds EXCEPT ![n] = @ \cup {n}]
        /\ sess' = [sess EXCEPT ![n] = [st |-> "auth", voucher |-> Nil]]
    BY <1>2
  <2>2. sess' \in [Nodes -> Session] /\ adds' \in [Nodes -> SUBSET Nodes]
    BY <2>1 DEF Inv, Plain, Session
  <2>3. Plain'
    BY <1>2, <2>2 DEF Inv, Plain
  <2>4. \A k, v \in Nodes : OnRecord(k, v) => OnRecord(k, v)'
    BY <1>2, <2>1 DEF OnRecord, Inv, Plain
  <2>5. \A k \in Nodes : sess'[k].voucher \in {sess[k].voucher, Nil}
    BY <2>1 DEF Inv, Plain
  <2> QED
    BY <1>2, <2>3, <2>4, <2>5, AttachedKept, TrackedKept, RecordedKept, AdmissionKept,
       ConfirmedKept DEF Inv
<1>3. CASE n \notin open /\ boot[n] # {}
  <2>1. thr' = [thr EXCEPT ![n] = [why |-> "join", todo |-> boot[n]]]
    BY <1>3
  <2>2. [why |-> "join", todo |-> boot[n]] \in Thread
    BY DEF Inv, Plain, Thread
  <2>3. thr' \in [Nodes -> Thread \cup {Nil}] /\ \A k \in Nodes : thr[k] # Nil => thr'[k] # Nil
    BY <2>1, <2>2, NilAssumption DEF Inv, Plain
  <2>4. Plain'
    BY <1>3, <2>3 DEF Inv, Plain
  <2> QED
    BY <1>3, <2>3, <2>4, OtherKept
<1> QED
  BY <1>1, <1>2, <1>3

(* The goroutine that authenticates a node tries the next peer, or gives
   up. *)
LEMMA AuthenticateInv ==
  ASSUME Inv, NEW n \in Nodes, Authenticate(n) \/ GiveUp(n)
  PROVE  Inv'
<1>1. CASE Authenticate(n)
  <2>1. PICK v \in thr[n].todo :
          /\ thr' = [thr EXCEPT ![n].todo = @ \ {v}]
          /\ \/ hs' = [hs EXCEPT ![n] = [v |-> v, members |-> {}, pc |-> "request"]]
             \/ UNCHANGED hs
    BY <1>1 DEF Authenticate
  <2>2. thr[n] \in Thread /\ hs[n] = Nil /\ n \notin crashed
    BY <1>1 DEF Authenticate, Inv, Plain, Up
  <2>3. v \in Nodes /\ [thr[n] EXCEPT !.todo = @ \ {v}] \in Thread
    BY <2>2 DEF Thread
  <2>4. thr' = [thr EXCEPT ![n] = [thr[n] EXCEPT !.todo = @ \ {v}]]
    BY <2>1
  <2>5. thr' \in [Nodes -> Thread \cup {Nil}]
        /\ thr'[n] # Nil /\ \A k \in Nodes : thr[k] # Nil => thr'[k] # Nil
    BY <2>3, <2>4, NilAssumption DEF Inv, Plain
  <2>6. UNCHANGED <<keys, topic, open, adds, sess, due, join, pend, net, crashed, ops,
                    book, lost, rev, joined, boot, starts>>
    BY <1>1 DEF Authenticate, membership
  <2>7. Plain'
    BY <2>5, <2>6 DEF Inv, Plain
  <2>8. CASE UNCHANGED hs
    BY <2>5, <2>6, <2>7, <2>8, OtherKept DEF Inv, Plain
  <2>9. CASE hs' = [hs EXCEPT ![n] = [v |-> v, members |-> {}, pc |-> "request"]]
    <3> DEFINE x == [v |-> v, members |-> {}, pc |-> "request"]
    <3>1. x \in Handshake /\ x # Nil /\ x.pc = "request"
      <4>1. x \in Handshake
        BY <2>3 DEF Handshake
      <4> QED
        BY <4>1, NilAssumption
    <3> HIDE DEF x
    <3>2. /\ hs' \in [Nodes -> Handshake \cup {Nil}] /\ hs'[n] = x
          /\ \A k \in Nodes : k # n => hs'[k] = hs[k]
      BY <2>9, <3>1 DEF Inv, Attached, x
    <3>3. Attached'
      BY <2>5, <2>6, <3>2 DEF Inv, Attached
    <3>4. Tracked'
      BY <2>2, <2>6, <3>2 DEF Inv, Tracked
    <3>5. \A k, u \in Nodes : OnRecord(k, u) => OnRecord(k, u)'
      BY <2>6, RecordKept
    <3>6. Recorded'
      BY <3>1, <3>2, <3>5, OthersRecorded DEF Vouched
    <3>7. AdmissionIsRecorded' /\ Confirmed'
      BY <2>6, <3>5, AdmissionKept, ConfirmedKept DEF Inv, Plain
    <3> QED
      BY <2>7, <3>3, <3>4, <3>6, <3>7 DEF Inv
  <2> QED
    BY <2>1, <2>8, <2>9
<1>2. CASE GiveUp(n)
  <2>1. hs[n] = Nil
    BY <1>2 DEF GiveUp
  <2>2. /\ thr' \in [Nodes -> Thread \cup {Nil}]
        /\ \A k \in Nodes : k # n => thr'[k] = thr[k]
    <3>1. \A T \in SUBSET Nodes : [why |-> "alternate", todo |-> T] \in Thread
      BY DEF Thread
    <3>2. book[n] \ {n, sess[n].voucher} \in SUBSET Nodes
      BY DEF Inv, Plain
    <3>3. PICK t \in Thread \cup {Nil} : thr' = [thr EXCEPT ![n] = t]
      BY <1>2, <3>1, <3>2 DEF GiveUp
    <3> QED
      BY <3>3 DEF Inv, Plain
  <2>3. join' \in [Nodes -> {"idle", "asked", "keyed", "joining", "joined", "failed"}]
    BY <1>2 DEF GiveUp, Inv, Plain
  <2>4. Plain'
    BY <1>2, <2>2, <2>3 DEF GiveUp, membership, Inv, Plain
  <2> QED
    BY <1>2, <2>1, <2>2, <2>4, OtherKept DEF GiveUp, membership
<1> QED
  BY <1>1, <1>2

(* The end of a handshake on the client's side.  An accepted client takes the
   voucher that has it on record. *)
LEMMA ClientEndInv ==
  ASSUME Inv, NEW n \in Nodes, ClientRefused(n) \/ ClientAccepted(n)
  PROVE  Inv'
<1>1. hs[n] \in Handshake /\ hs[n] # Nil /\ hs[n].v \in Nodes /\ n \notin crashed
      /\ thr[n] # Nil
  BY DEF ClientRefused, ClientAccepted, Inv, Attached, Handshake, Up
<1>2. hs' = [hs EXCEPT ![n] = Nil] /\ UNCHANGED <<pend, crashed, net, ops, book, lost, rev, joined,
                                                boot, starts, keys, topic, open, due>>
  BY DEF ClientRefused, ClientAccepted, membership
<1>3. /\ hs' \in [Nodes -> Handshake \cup {Nil}] /\ hs'[n] = Nil
      /\ \A k \in Nodes : k # n => hs'[k] = hs[k]
  BY <1>2 DEF Inv, Attached
<1>4. \A v \in Nodes \ crashed : pend[v][n] = Nil
  BY <1>1 DEF Inv, Tracked, ClientRefused, ClientAccepted, Up
<1>5. Tracked' /\ Confirmed'
  <2>1. Tracked'
    BY <1>2, <1>3, <1>4 DEF Inv, Tracked
  <2> QED
    BY <1>2, <2>1, ConfirmedKept DEF Inv
<1>6. CASE ClientRefused(n)
  <2>1. UNCHANGED <<adds, sess, join, thr>>
    BY <1>6 DEF ClientRefused
  <2>2. Plain'
    BY <1>2, <2>1 DEF Inv, Plain
  <2>3. Attached'
    BY <1>2, <1>3, <2>1 DEF Inv, Attached
  <2>4. \A k, v \in Nodes : OnRecord(k, v) => OnRecord(k, v)'
    BY <1>2, <2>1, RecordKept
  <2>5. Recorded'
    BY <1>3, <2>4, OthersRecorded DEF Vouched
  <2>6. AdmissionIsRecorded'
    BY <2>1, <2>4, AdmissionKept DEF Inv
  <2> QED
    BY <1>5, <2>2, <2>3, <2>5, <2>6 DEF Inv
<1>7. CASE ClientAccepted(n)
  <2>1. /\ hs[n].pc = "ok"
        /\ adds' = [adds EXCEPT ![n] = @ \cup hs[n].members]
        /\ sess' = [sess EXCEPT ![n] = [st |-> "auth", voucher |-> hs[n].v]]
        /\ join' = [join EXCEPT ![n] = IF thr[n].why = "join" THEN "joined" ELSE @]
        /\ thr' = [thr EXCEPT ![n] = Nil]
    BY <1>7 DEF ClientAccepted
  <2>2. [st |-> "auth", voucher |-> hs[n].v] \in Session /\ hs[n].members \subseteq Nodes
    BY <1>1 DEF Session, Handshake
  <2>3. /\ sess' \in [Nodes -> Session] /\ adds' \in [Nodes -> SUBSET Nodes]
        /\ thr' \in [Nodes -> Thread \cup {Nil}]
    BY <2>1, <2>2 DEF Inv, Plain
  <2>4. join' \in [Nodes -> {"idle", "asked", "keyed", "joining", "joined", "failed"}]
    BY <2>1 DEF Inv, Plain
  <2>5. Plain'
    BY <1>2, <2>3, <2>4 DEF Inv, Plain
  <2>6. Attached'
    BY <1>2, <1>3, <2>1 DEF Inv, Attached, Plain
  <2>7. \A k, v \in Nodes : OnRecord(k, v) => OnRecord(k, v)'
    BY <1>2, <2>1 DEF OnRecord, Inv, Plain
  <2>8. Recorded'
    BY <1>3, <2>7, OthersRecorded DEF Vouched
  <2>9. AdmissionIsRecorded'
    <3> SUFFICES ASSUME NEW k \in Nodes, sess'[k].voucher # Nil
                 PROVE  OnRecord(k, sess[k].voucher)'
      BY DEF AdmissionIsRecorded, OnRecord
    <3>1. CASE k = n
      <4>1. sess'[k].voucher = hs[n].v
        BY <2>1, <3>1 DEF Inv, Plain
      <4>2. OnRecord(n, hs[n].v)
        BY <1>1, <2>1 DEF Inv, Recorded, Vouched
      <4> QED
        BY <1>1, <2>7, <3>1, <4>1, <4>2 DEF OnRecord
    <3>2. CASE k # n
      <4>1. sess'[k] = sess[k]
        BY <2>1, <3>2 DEF Inv, Plain
      <4>2. OnRecord(k, sess[k].voucher) /\ sess[k].voucher \in Nodes
        BY <4>1 DEF Inv, AdmissionIsRecorded, OnRecord, Plain, Session
      <4> QED
        BY <2>7, <4>1, <4>2 DEF OnRecord
    <3> QED
      BY <3>1, <3>2
  <2> QED
    BY <1>5, <2>5, <2>6, <2>8, <2>9 DEF Inv
<1> QED
  BY <1>6, <1>7

-----------------------------------------------------------------------------
(* The server before its announcement. *)
LEMMA ServerInv ==
  ASSUME Inv, NEW v \in Nodes, NEW n \in Nodes,
         ServerRequest(v, n) \/ ServerVerify(v, n) \/ BuildNewMemberAnnouncement(v, n)
  PROVE  Inv'
<1>1. hs[n] # Nil /\ hs[n].v = v /\ hs[n].pc # "waiting"
  BY DEF ServerRequest, ServerVerify, BuildNewMemberAnnouncement, At
<1>2. UNCHANGED <<keys, topic, open, sess, due, join, thr, pend, net, crashed,
                  book, lost, rev, joined, boot, starts>>
  BY DEF ServerRequest, ServerVerify, BuildNewMemberAnnouncement, membership
<1>3. ops' \in 0 .. MaxOps /\ adds' \in [Nodes -> SUBSET Nodes]
  BY AuthAssumption DEF ServerRequest, ServerVerify, BuildNewMemberAnnouncement, Bounded,
                        Inv, Plain
<1>4. Plain'
  BY <1>2, <1>3 DEF Inv, Plain
<1>5. \A k, u \in Nodes : OnRecord(k, u) => OnRecord(k, u)'
  BY <1>2 DEF ServerRequest, ServerVerify, BuildNewMemberAnnouncement, OnRecord, Inv, Plain
<1>6. PICK pc \in {"challenge", "vouched", "built", "refused"} :
        /\ Goto(n, pc)
        /\ pc = "vouched" => adds' = [adds EXCEPT ![v] = @ \cup {n}]
        /\ pc = "built" => hs[n].pc = "vouched"
  BY DEF ServerRequest, ServerVerify, BuildNewMemberAnnouncement, At
<1>7. /\ hs' \in [Nodes -> Handshake \cup {Nil}]
      /\ hs'[n] # Nil /\ hs'[n].v = v /\ hs'[n].pc = pc
      /\ \A k \in Nodes : k # n => hs'[k] = hs[k]
  BY <1>1, <1>6, GotoMoves DEF Inv
<1>8. Attached' /\ Tracked' /\ Confirmed'
  BY <1>1, <1>2, <1>7, MoveKept
<1>9. Vouched(n)'
  <2>1. CASE pc = "vouched"
    <3>1. n \in adds'[v]
      BY <1>6, <2>1 DEF Inv, Plain
    <3> QED
      BY <1>7, <3>1 DEF Vouched, OnRecord
  <2>2. CASE pc = "built"
    <3>1. OnRecord(n, v)
      BY <1>1, <1>6, <2>2 DEF Inv, Recorded, Vouched
    <3> QED
      BY <1>5, <1>7, <3>1 DEF Vouched, OnRecord
  <2>3. CASE pc \in {"challenge", "refused"}
    BY <1>7, <2>3 DEF Vouched
  <2> QED
    BY <2>1, <2>2, <2>3
<1>10. Recorded'
  BY <1>5, <1>7, <1>9, OthersRecorded
<1>11. AdmissionIsRecorded'
  BY <1>2, <1>5, AdmissionKept DEF Inv
<1> QED
  BY <1>4, <1>8, <1>10, <1>11 DEF Inv

(* The announcement: no tracker was open for the newcomer, so that the one
   made now is the only one that waits for it. *)
LEMMA AnnounceInv ==
  ASSUME Inv, NEW v \in Nodes, NEW n \in Nodes, ServerAnnounce(v, n)
  PROVE  Inv'
<1>1. hs[n] # Nil /\ hs[n].v = v /\ hs[n].pc = "built"
  BY DEF ServerAnnounce, At
<1>2. UNCHANGED <<keys, topic, open, adds, sess, due, join, thr, book, lost, rev, joined, boot,
                  starts>>
  BY DEF ServerAnnounce, membership
<1>3. \A k, u \in Nodes : OnRecord(k, u) => OnRecord(k, u)'
  BY <1>2, RecordKept
<1>4. OnRecord(n, v)
  BY <1>1 DEF Inv, Recorded, Vouched
<1>5. AdmissionIsRecorded'
  BY <1>2, <1>3, AdmissionKept DEF Inv
<1>6. CASE Publish(v, "new_member", n, net) /\ Goto(n, "waiting") /\ UNCHANGED ops
           /\ pend' = [pend EXCEPT ![v][n] = IF book[v] = {} THEN Nil
                                             ELSE [conf |-> {}, rej |-> {}, done |-> Nil]]
  <2>1. net' \subseteq Message /\ crashed \subseteq crashed' /\ crashed' \subseteq Nodes
    BY <1>6, PublishTyped DEF Inv, Plain
  <2>2. /\ hs' \in [Nodes -> Handshake \cup {Nil}]
        /\ hs'[n] # Nil /\ hs'[n].v = v /\ hs'[n].pc = "waiting"
        /\ \A k \in Nodes : k # n => hs'[k] = hs[k]
    BY <1>1, <1>6, GotoMoves DEF Inv
  <2>3. Plain'
    BY <1>2, <1>6, <2>1 DEF Inv, Plain
  <2>4. Attached'
    BY <1>1, <1>2, <2>1, <2>2 DEF Inv, Attached
  <2> DEFINE p == IF book[v] = {} THEN Nil ELSE [conf |-> {}, rej |-> {}, done |-> Nil]
  <2>5. p \in Pending \cup {Nil} /\ (p # Nil => p.done = Nil /\ p = [conf |-> {}, rej |-> {}, done |-> Nil])
    BY DEF Pending
  <2>6. pend' = [pend EXCEPT ![v][n] = p]
    BY <1>6
  <2> HIDE DEF p
  <2>7. /\ pend' \in [Nodes -> [Nodes -> Pending \cup {Nil}]]
        /\ \A u, k \in Nodes : pend'[u][k] = IF u = v /\ k = n THEN p ELSE pend[u][k]
    BY <2>5, <2>6 DEF Inv, Tracked
  <2>8. Tracked'
    <3> SUFFICES ASSUME NEW u \in Nodes \ crashed', NEW k \in Nodes \ crashed',
                        pend'[u][k] # Nil
                 PROVE  hs'[k] # Nil /\ hs'[k].v = u /\ hs'[k].pc = "waiting"
      BY <2>7 DEF Tracked
    <3>1. CASE u = v /\ k = n
      BY <2>2, <3>1
    <3>2. CASE ~(u = v /\ k = n)
      <4>1. pend[u][k] # Nil /\ u \notin crashed /\ k \notin crashed
        BY <2>1, <2>7, <3>2
      <4>2. hs[k] # Nil /\ hs[k].v = u /\ hs[k].pc = "waiting"
        BY <4>1 DEF Inv, Tracked
      <4>3. k # n
        BY <1>1, <4>2
      <4> QED
        BY <2>2, <4>2, <4>3
    <3> QED
      BY <3>1, <3>2
  <2>9. Confirmed'
    <3> SUFFICES ASSUME NEW u \in Nodes, NEW k \in Nodes, pend'[u][k] # Nil,
                        pend'[u][k].done = "yes"
                 PROVE  pend'[u][k].conf # {}
      BY DEF Confirmed
    <3>1. CASE u = v /\ k = n
      <4>1. p # Nil /\ p.done = "yes" /\ p.done = Nil
        BY <2>5, <2>7, <3>1
      <4> QED
        BY <4>1, NilAssumption
    <3>2. CASE ~(u = v /\ k = n)
      BY <2>7, <3>2 DEF Inv, Confirmed
    <3> QED
      BY <3>1, <3>2
  <2>10. Vouched(n)'
    BY <1>3, <1>4, <2>2 DEF Vouched, OnRecord
  <2>11. Recorded'
    BY <1>3, <2>2, <2>10, OthersRecorded
  <2> QED
    BY <1>5, <2>3, <2>4, <2>8, <2>9, <2>11 DEF Inv
<1>7. CASE Bounded /\ Goto(n, "refused") /\ UNCHANGED <<pend, net, crashed>>
  <2>1. /\ hs' \in [Nodes -> Handshake \cup {Nil}]
        /\ hs'[n] # Nil /\ hs'[n].pc = "refused"
        /\ \A k \in Nodes : k # n => hs'[k] = hs[k]
    BY <1>1, <1>7, GotoMoves DEF Inv
  <2>2. ops' \in 0 .. MaxOps
    BY <1>7, AuthAssumption DEF Bounded, Inv, Plain
  <2>3. Plain'
    BY <1>2, <1>7, <2>2 DEF Inv, Plain
  <2>4. Attached' /\ Tracked' /\ Confirmed'
    BY <1>1, <1>2, <1>7, <2>1, MoveKept
  <2>5. Recorded'
    BY <1>3, <2>1, OthersRecorded DEF Vouched
  <2> QED
    BY <1>5, <2>3, <2>4, <2>5 DEF Inv
<1> QED
  BY <1>6, <1>7 DEF ServerAnnounce

(* The wait ends: the handshake gets its verdict and the tracker goes. *)
LEMMA AnswerInv ==
  ASSUME Inv, NEW v \in Nodes, NEW n \in Nodes, AwaitDone(v, n) \/ AwaitTimeout(v, n)
  PROVE  Inv'
<1>1. hs[n] # Nil /\ hs[n].v = v /\ hs[n].pc = "waiting"
  BY DEF AwaitDone, AwaitTimeout, At
<1>2. UNCHANGED <<keys, topic, open, adds, sess, due, join, thr, net, crashed, ops,
                  book, lost, rev, joined, boot, starts>>
  BY DEF AwaitDone, AwaitTimeout, membership
<1>3. PICK verdict \in {"ok", "refused"} : Answer(v, n, verdict)
  BY DEF AwaitDone, AwaitTimeout
<1> DEFINE x == [v |-> v, pc |-> verdict, members |-> IF verdict = "ok" THEN book[v] ELSE {}]
<1>4. x \in Handshake /\ x # Nil /\ x.v = v
  <2>1. x \in Handshake /\ x.v = v
    BY DEF Handshake, Inv, Plain
  <2> QED
    BY <2>1, NilAssumption
<1>5. hs' = [hs EXCEPT ![n] = x] /\ pend' = [pend EXCEPT ![v][n] = Nil]
  BY <1>3 DEF Answer
<1> HIDE DEF x
<1>6. /\ hs' \in [Nodes -> Handshake \cup {Nil}] /\ hs'[n] = x
      /\ \A k \in Nodes : k # n => hs'[k] = hs[k]
  BY <1>4, <1>5 DEF Inv, Attached
<1>7. /\ pend' \in [Nodes -> [Nodes -> Pending \cup {Nil}]]
      /\ \A u, k \in Nodes : pend'[u][k] = IF u = v /\ k = n THEN Nil ELSE pend[u][k]
  BY <1>5 DEF Inv, Tracked
<1>8. Plain'
  BY <1>2 DEF Inv, Plain
<1>9. Attached'
  BY <1>1, <1>2, <1>6 DEF Inv, Attached
<1>10. Tracked'
  <2> SUFFICES ASSUME NEW u \in Nodes \ crashed', NEW k \in Nodes \ crashed',
                      pend'[u][k] # Nil
               PROVE  hs'[k] # Nil /\ hs'[k].v = u /\ hs'[k].pc = "waiting"
    BY <1>7 DEF Tracked
  <2>1. pend[u][k] # Nil /\ ~(u = v /\ k = n) /\ u \notin crashed /\ k \notin crashed
    BY <1>2, <1>7
  <2>2. hs[k] # Nil /\ hs[k].v = u /\ hs[k].pc = "waiting"
    BY <2>1 DEF Inv, Tracked
  <2>3. k # n
    BY <1>1, <2>1, <2>2
  <2> QED
    BY <1>6, <2>2, <2>3
<1>11. Confirmed'
  BY <1>7 DEF Inv, Confirmed
<1>12. \A k, u \in Nodes : OnRecord(k, u) => OnRecord(k, u)'
  BY <1>2, RecordKept
<1>13. Vouched(n)'
  <2>1. OnRecord(n, v)
    BY <1>1 DEF Inv, Recorded, Vouched
  <2> QED
    BY <1>4, <1>6, <1>12, <2>1 DEF Vouched, OnRecord
<1>14. Recorded' /\ AdmissionIsRecorded'
  BY <1>2, <1>6, <1>12, <1>13, OthersRecorded, AdmissionKept DEF Inv
<1> QED
  BY <1>8, <1>9, <1>10, <1>11, <1>14 DEF Inv

-----------------------------------------------------------------------------
(* The message loop. *)
LEMMA MessageInv ==
  ASSUME Inv, NEW m \in net,
         DropUnknownSender(m) \/ HandleNewMemberAnnouncement(m) \/ HandleCertRevoked(m)
  PROVE  Inv'
<1>0. m \in Message /\ m.to \in Nodes /\ m.from \in Nodes /\ m.about \in Nodes
  BY DEF Inv, Plain, Message
<1>1. CASE DropUnknownSender(m)
  <2>1. Plain'
    BY <1>1 DEF DropUnknownSender, membership, Inv, Plain
  <2> QED
    BY <1>1, <2>1, OtherKept DEF DropUnknownSender, membership
<1>2. CASE HandleCertRevoked(m)
  <2>1. rev' \in [Nodes -> SUBSET Nodes]
    BY <1>0, <1>2 DEF HandleCertRevoked, Inv, Plain
  <2>2. Plain'
    BY <1>2, <2>1 DEF HandleCertRevoked, Inv, Plain
  <2> QED
    BY <1>2, <2>2, OtherKept DEF HandleCertRevoked
<1>3. CASE HandleNewMemberAnnouncement(m)
  <2>1. PICK kind \in {"auth_rejected", "auth_confirmed"} :
          Publish(m.to, kind, m.about, net \ {m})
    BY <1>3 DEF HandleNewMemberAnnouncement
  <2>2. net \ {m} \in SUBSET Message
    BY DEF Inv, Plain
  <2>3. net' \subseteq Message /\ crashed \subseteq crashed' /\ crashed' \subseteq Nodes
    BY <1>0, <2>1, <2>2, PublishTyped DEF Inv
  <2>4. adds' = adds \/ adds' = [adds EXCEPT ![m.to] = @ \cup {m.about}]
    BY <1>3 DEF HandleNewMemberAnnouncement
  <2>5. UNCHANGED <<keys, topic, open, sess, due, join, thr, hs, pend, ops, book, lost, rev, joined,
                    boot, starts>>
    BY <1>3 DEF HandleNewMemberAnnouncement, membership
  <2>6. adds' \in [Nodes -> SUBSET Nodes]
    BY <1>0, <2>4 DEF Inv, Plain
  <2>7. Plain'
    BY <2>3, <2>5, <2>6 DEF Inv, Plain
  <2>8. \A k, u \in Nodes : OnRecord(k, u) => OnRecord(k, u)'
    BY <2>4, <2>5 DEF OnRecord, Inv, Plain
  <2>9. Attached' /\ Tracked' /\ Confirmed'
    BY <2>3, <2>5, AttachedKept, TrackedKept, ConfirmedKept DEF Inv
  <2>10. Recorded' /\ AdmissionIsRecorded'
    BY <2>5, <2>8, RecordedKept, AdmissionKept DEF Inv
  <2> QED
    BY <2>7, <2>9, <2>10 DEF Inv
<1> QED
  BY <1>1, <1>2, <1>3

(* A verdict of a member: Done says yes only with a confirmation. *)
LEMMA VerdictInv ==
  ASSUME Inv, NEW m \in net, HandleVerdict(m)
  PROVE  Inv'
<1> DEFINE v == m.to
           n == m.about
           p == pend[v][n]
           q == IF p = Nil THEN Nil ELSE Verdict(m, p)
<1>0. v \in Nodes /\ m.from \in Nodes /\ n \in Nodes
  BY DEF Inv, Plain, Message
<1>1. UNCHANGED <<keys, topic, open, adds, sess, due, join, thr, hs, crashed, ops,
                  book, lost, rev, joined, boot, starts>> /\ net' = net \ {m}
  BY DEF HandleVerdict, membership
<1>2. pend' = [pend EXCEPT ![v][n] = q]
  BY DEF HandleVerdict, Inv, Tracked
<1>3. q \in Pending \cup {Nil} /\ (q # Nil => p # Nil)
      /\ (q # Nil /\ q.done = "yes" => q.conf # {})
  <2>1. CASE p = Nil
    BY <2>1
  <2>2. CASE p # Nil
    <3>1. p \in Pending /\ (p.done = "yes" => p.conf # {})
      BY <1>0, <2>2 DEF Inv, Tracked, Confirmed
    <3>2. CASE m.kind = "auth_confirmed"
      <4>1. q = [p EXCEPT !.conf = @ \cup {m.from},
                          !.done = IF p.rej = {} /\ p.done = Nil THEN "yes" ELSE @]
        BY <2>2, <3>2 DEF Verdict
      <4> HIDE DEF q, p
      <4> QED
        BY <1>0, <2>2, <3>1, <4>1 DEF Pending
    <3>3. CASE m.kind = "auth_rejected"
      <4>1. q = [p EXCEPT !.rej = @ \cup {m.from}, !.done = IF p.done = Nil THEN "no" ELSE @]
        BY <2>2, <3>3 DEF Verdict
      <4> HIDE DEF q, p
      <4> QED
        BY <1>0, <2>2, <3>1, <4>1 DEF Pending
    <3> QED
      BY <3>2, <3>3 DEF HandleVerdict
  <2> QED
    BY <2>1, <2>2
<1> HIDE DEF q
<1>4. /\ pend' \in [Nodes -> [Nodes -> Pending \cup {Nil}]]
      /\ \A u, k \in Nodes : pend'[u][k] = IF u = v /\ k = n THEN q ELSE pend[u][k]
  BY <1>0, <1>2, <1>3 DEF Inv, Tracked
<1>5. Plain'
  BY <1>1 DEF Inv, Plain
<1>6. Attached'
  BY <1>1, AttachedKept DEF Inv
<1>7. Tracked'
  <2> SUFFICES ASSUME NEW u \in Nodes \ crashed', NEW k \in Nodes \ crashed',
                      pend'[u][k] # Nil
               PROVE  hs'[k] # Nil /\ hs'[k].v = u /\ hs'[k].pc = "waiting"
    BY <1>4 DEF Tracked
  <2>1. pend[u][k] # Nil
    BY <1>3, <1>4
  <2> QED
    BY <1>1, <2>1 DEF Inv, Tracked
<1>8. Confirmed'
  <2> SUFFICES ASSUME NEW u \in Nodes, NEW k \in Nodes, pend'[u][k] # Nil,
                      pend'[u][k].done = "yes"
               PROVE  pend'[u][k].conf # {}
    BY DEF Confirmed
  <2> QED
    BY <1>3, <1>4 DEF Inv, Confirmed
<1>9. \A k, u \in Nodes : OnRecord(k, u) => OnRecord(k, u)'
  BY <1>1, RecordKept
<1>10. Recorded' /\ AdmissionIsRecorded'
  BY <1>1, <1>9, RecordedKept, AdmissionKept DEF Inv
<1> QED
  BY <1>5, <1>6, <1>7, <1>8, <1>10 DEF Inv

(* The phonebook subscriber moves a member from one set to the other; the bus
   drops an event, or a row is removed, and lost says so. *)
LEMMA StoreInv ==
  ASSUME Inv, NEW n \in Nodes,
         AddOrUpdateEntry(n) \/ DropEvent(n) \/ \E z \in Nodes : Remove(n, z)
  PROVE  Inv'
<1>1. PICK z \in Nodes :
        \/ /\ book' = [book EXCEPT ![n] = @ \cup {z}]
           /\ adds' = [adds EXCEPT ![n] = @ \ {z}]
           /\ lost' = lost \ {<<n, z>>}
        \/ /\ book' = book
           /\ adds' = [adds EXCEPT ![n] = @ \ {z}]
           /\ lost' = lost \cup {<<n, z>>}
        \/ /\ book' = [book EXCEPT ![n] = @ \ {z}]
           /\ adds' = adds
           /\ lost' = lost \cup {<<n, z>>}
  BY DEF AddOrUpdateEntry, DropEvent, Remove, Inv, Plain
<1>2. UNCHANGED <<keys, topic, open, rev, sess, due, join, boot, joined, thr, hs,
                  pend, net, crashed, starts>>
  BY DEF AddOrUpdateEntry, DropEvent, Remove
<1>3. /\ book' \in [Nodes -> SUBSET Nodes] /\ adds' \in [Nodes -> SUBSET Nodes]
      /\ lost' \subseteq Nodes \X Nodes
  BY <1>1 DEF Inv, Plain
<1>4. ops' \in 0 .. MaxOps
  BY AuthAssumption DEF AddOrUpdateEntry, DropEvent, Remove, Bounded, Inv, Plain
<1>5. Plain'
  BY <1>2, <1>3, <1>4 DEF Inv, Plain
<1>6. ASSUME NEW k \in Nodes, NEW u \in Nodes, OnRecord(k, u)
      PROVE  OnRecord(k, u)'
  <2>1. CASE k = z /\ u = n
    BY <1>1, <2>1 DEF OnRecord, Inv, Plain
  <2>2. CASE u = n /\ k # z
    BY <1>1, <1>6, <2>2 DEF OnRecord, Inv, Plain
  <2>3. CASE u # n
    BY <1>1, <1>6, <2>3 DEF OnRecord, Inv, Plain
  <2> QED
    BY <2>1, <2>2, <2>3
<1>7. Attached' /\ Tracked' /\ Confirmed'
  BY <1>2, AttachedKept, TrackedKept, ConfirmedKept DEF Inv
<1>8. Recorded' /\ AdmissionIsRecorded'
  BY <1>2, <1>6, RecordedKept, AdmissionKept DEF Inv
<1> QED
  BY <1>5, <1>7, <1>8 DEF Inv

(* Sessions go stale and are renewed or removed, certificates are revoked. *)
LEMMA SessionInv ==
  ASSUME Inv, NEW n \in Nodes,
         \/ GoStale(n) \/ RemoveStale(n) \/ AttemptReauth(n)
         \/ \E z \in Nodes : RevokeCertificate(n, z)
  PROVE  Inv'
<1>1. CASE GoStale(n)
  <2>1. /\ sess' \in [Nodes -> Session]
        /\ \A k \in Nodes : sess'[k].voucher \in {sess[k].voucher, Nil}
    <3>1. sess[n] \in Session /\ sess' = [sess EXCEPT ![n] = [sess[n] EXCEPT !.st = "stale"]]
      BY <1>1 DEF GoStale, Inv, Plain
    <3>2. /\ [sess[n] EXCEPT !.st = "stale"] \in Session
          /\ [sess[n] EXCEPT !.st = "stale"].voucher = sess[n].voucher
      BY <3>1 DEF Session
    <3> QED
      BY <3>1, <3>2 DEF Inv, Plain
  <2>2. starts' \in 0 .. MaxStarts
    BY <1>1, AuthAssumption DEF GoStale, Inv, Plain
  <2>3. Plain'
    BY <1>1, <2>1, <2>2 DEF GoStale, Inv, Plain
  <2> QED
    BY <1>1, <2>1, <2>3, OtherKept DEF GoStale
<1>2. CASE RemoveStale(n)
  <2>1. /\ sess' \in [Nodes -> Session]
        /\ \A k \in Nodes : sess'[k].voucher \in {sess[k].voucher, Nil}
    BY <1>2 DEF RemoveStale, Inv, Plain, NoSession, Session
  <2>2. Plain'
    BY <1>2, <2>1 DEF RemoveStale, membership, Inv, Plain
  <2> QED
    BY <1>2, <2>1, <2>2, OtherKept DEF RemoveStale, membership
<1>3. CASE AttemptReauth(n)
  <2>1. /\ sess' \in [Nodes -> Session]
        /\ \A k \in Nodes : sess'[k].voucher \in {sess[k].voucher, Nil}
    <3>1. CASE UNCHANGED sess
      BY <3>1 DEF Inv, Plain
    <3>2. CASE sess' = [sess EXCEPT ![n].st = "auth"]
      <4>1. sess[n] \in Session /\ sess' = [sess EXCEPT ![n] = [sess[n] EXCEPT !.st = "auth"]]
        BY <3>2 DEF Inv, Plain
      <4>2. /\ [sess[n] EXCEPT !.st = "auth"] \in Session
            /\ [sess[n] EXCEPT !.st = "auth"].voucher = sess[n].voucher
        BY <4>1 DEF Session
      <4> QED
        BY <4>1, <4>2 DEF Inv, Plain
    <3> QED
      BY <1>3, <3>1, <3>2 DEF AttemptReauth
  <2>2. thr' \in [Nodes -> Thread \cup {Nil}] /\ \A k \in Nodes : thr[k] # Nil => thr'[k] # Nil
    <3>1. CASE UNCHANGED thr
      BY <3>1 DEF Inv, Plain
    <3>2. CASE /\ sess[n].voucher # Nil
               /\ thr' = [thr EXCEPT ![n] = [why |-> "reauth", todo |-> {sess[n].voucher}]]
      <4>1. [why |-> "reauth", todo |-> {sess[n].voucher}] \in Thread
        BY <3>2 DEF Inv, Plain, Session, Thread
      <4> QED
        BY <3>2, <4>1, NilAssumption DEF Inv, Plain
    <3> QED
      BY <1>3, <3>1, <3>2 DEF AttemptReauth
  <2>3. Plain'
    BY <1>3, <2>1, <2>2 DEF AttemptReauth, membership, Inv, Plain
  <2> QED
    BY <1>3, <2>1, <2>2, <2>3, OtherKept DEF AttemptReauth, membership
<1>4. ASSUME NEW z \in Nodes, RevokeCertificate(n, z)
      PROVE  Inv'
  <2>1. net' \subseteq Message /\ crashed \subseteq crashed' /\ crashed' \subseteq Nodes
    BY <1>4, PublishTyped DEF RevokeCertificate, Inv, Plain
  <2>2. ops' \in 0 .. MaxOps /\ rev' \in [Nodes -> SUBSET Nodes]
    BY <1>4, AuthAssumption DEF RevokeCertificate, Bounded, Inv, Plain
  <2>3. Plain'
    BY <1>4, <2>1, <2>2 DEF RevokeCertificate, Inv, Plain
  <2> QED
    BY <1>4, <2>1, <2>3, OtherKept DEF RevokeCertificate
<1> QED
  BY <1>1, <1>2, <1>3, <1>4

(* A node leaves or crashes.  Keys that are zeroed spoil the handshakes whose
   response is not verified yet. *)
LEMMA LeaveInv ==
  ASSUME Inv, NEW n \in Nodes, Leave(n) \/ Crash(n)
  PROVE  Inv'
<1>1. CASE Leave(n)
  <2>1. UNCHANGED <<open, book, adds, lost, rev, due, join, boot, thr, pend, net, crashed, starts>>
    BY <1>1 DEF Leave
  <2>2. /\ sess' \in [Nodes -> Session]
        /\ \A k \in Nodes : sess'[k].voucher \in {sess[k].voucher, Nil}
    BY <1>1 DEF Leave, Inv, Plain, NoSession, Session
  <2>3. ops' \in 0 .. MaxOps
    BY <1>1, AuthAssumption DEF Leave, Bounded, Inv, Plain
  <2>4. Plain'
    BY <1>1, <2>1, <2>2, <2>3 DEF Leave, Inv, Plain
  <2>5. ASSUME NEW k \in Nodes
        PROVE  /\ hs'[k] \in Handshake \cup {Nil}
               /\ \/ hs'[k] = hs[k]
                  \/ /\ hs[k] # Nil /\ hs[k].pc = "challenge"
                     /\ hs'[k] # Nil /\ hs'[k].pc = "mismatch"
    <3>1. hs[k] \in Handshake \cup {Nil}
      BY DEF Inv, Attached
    <3>2. CASE hs[k] # Nil /\ hs[k].pc = "challenge" /\ n \in {k, hs[k].v}
      <4>1. hs[k] \in Handshake /\ hs'[k] = [hs[k] EXCEPT !.pc = "mismatch"]
        BY <1>1, <3>1, <3>2 DEF Leave
      <4>2. hs'[k] \in Handshake /\ hs'[k].pc = "mismatch"
        BY <4>1 DEF Handshake
      <4> QED
        BY <3>2, <4>2, NilAssumption
    <3>3. CASE ~(hs[k] # Nil /\ hs[k].pc = "challenge" /\ n \in {k, hs[k].v})
      <4>1. hs'[k] = hs[k]
        BY <1>1, <3>3 DEF Leave
      <4> QED
        BY <3>1, <4>1
    <3> QED
      BY <3>2, <3>3
  <2>6. Attached'
    <3>1. hs' = [k \in Nodes |-> hs'[k]]
      BY <1>1 DEF Leave
    <3>2. hs' \in [Nodes -> Handshake \cup {Nil}]
      BY <2>5, <3>1
    <3> QED
      BY <2>1, <2>5, <3>2 DEF Inv, Attached
  <2>7. Tracked' /\ Confirmed'
    <3>1. Tracked'
      BY <2>1, <2>5 DEF Inv, Tracked
    <3> QED
      BY <2>1, <3>1, ConfirmedKept DEF Inv
  <2>8. Recorded'
    <3> SUFFICES ASSUME NEW k \in Nodes PROVE Vouched(k)'
      BY DEF Recorded
    <3>1. Vouched(k)
      BY DEF Inv, Recorded
    <3> QED
      BY <2>1, <2>5, <3>1 DEF Vouched, OnRecord
  <2>9. AdmissionIsRecorded'
    BY <2>1, <2>2, RecordKept, AdmissionKept DEF Inv
  <2> QED
    BY <2>4, <2>6, <2>7, <2>8, <2>9 DEF Inv
<1>2. CASE Crash(n)
  <2>1. ops' \in 0 .. MaxOps
    BY <1>2, AuthAssumption DEF Crash, Bounded, Inv, Plain
  <2>2. Plain'
    BY <1>2, <2>1 DEF Crash, membership, Inv, Plain
  <2> QED
    BY <1>2, <2>2, OtherKept DEF Crash, membership
<1> QED
  BY <1>1, <1>2

(* Every step keeps the invariant. *)
LEMMA NextInv == Inv /\ [Next]_vars => Inv'
<1> SUFFICES ASSUME Inv, [Next]_vars PROVE Inv'
  OBVIOUS
<1>1. CASE UNCHANGED vars
  <2>1. Plain'
    BY <1>1 DEF vars, Inv, Plain
  <2> QED
    BY <1>1, <2>1, OtherKept DEF vars
<1>2. ASSUME NEW n \in Nodes,
             \/ Join(n) \/ ClientStep(n) \/ AddOrUpdateEntry(n) \/ DropEvent(n)
             \/ \E z \in Nodes : Remove(n, z)
      PROVE  Inv'
  BY <1>2, JoinInv, SubscribeInv, AuthenticateInv, ClientEndInv, StoreInv DEF ClientStep
<1>3. ASSUME NEW n \in Nodes,
             \/ GoStale(n) \/ RemoveStale(n) \/ AttemptReauth(n) \/ Leave(n) \/ Crash(n)
             \/ \E z \in Nodes : RevokeCertificate(n, z)
      PROVE  Inv'
  BY <1>3, SessionInv, LeaveInv
<1>4. ASSUME NEW n \in Nodes, NEW z \in Nodes, ServerStep(n, z)
      PROVE  Inv'
  BY <1>4, ServerInv, AnnounceInv, AnswerInv DEF ServerStep
<1>5. ASSUME NEW m \in net,
             \/ DropUnknownSender(m) \/ HandleNewMemberAnnouncement(m)
             \/ HandleVerdict(m) \/ HandleCertRevoked(m)
      PROVE  Inv'
  BY <1>5, MessageInv, VerdictInv
<1> QED
  BY <1>1, <1>2, <1>3, <1>4, <1>5 DEF Next

-----------------------------------------------------------------------------
(* The inductive invariant holds in every reachable state. *)
LEMMA Invariant == Spec => []Inv
<1> QED
  BY InitInv, NextInv, PTL DEF Spec

(* Types, and what they say of several variables: a handshake has a goroutine
   behind it, and a tracker in pendingAuth belongs to a handshake that waits
   for it, so that no verdict is counted for an earlier attempt
   (handler.go, the deferred delete of pendingAuth). *)
THEOREM TypeCorrect == Spec => []TypeOK
<1>1. Inv => TypeOK
  BY PartsOfTypeOK DEF Inv
<1> QED
  BY <1>1, Invariant, PTL

(* Whoever has a session is in the phonebook of its voucher or on its way
   there, unless the voucher dropped that event or removed that row, for any
   number of members, joins, leaves and crashes (handler.go:144). *)
THEOREM AdmissionRecorded == Spec => []AdmissionIsRecorded
<1>1. Inv => AdmissionIsRecorded
  BY DEF Inv
<1> QED
  BY <1>1, Invariant, PTL

-----------------------------------------------------------------------------
(* Only the end of its own wait turns a handshake that waits into one that
   succeeded. *)
LEMMA AcceptStep ==
  ASSUME Inv, [Next]_vars, NEW v \in Nodes, NEW n \in Nodes,
         At(v, n, "waiting"), hs'[n] # Nil, hs'[n].pc = "ok"
  PROVE  AwaitDone(v, n) \/ AwaitTimeout(v, n)
<1>0. /\ hs[n] # Nil /\ hs[n].v = v /\ hs[n].pc = "waiting"
      /\ hs \in [Nodes -> Handshake \cup {Nil}]
  BY DEF At, Inv, Attached
<1>1. hs'[n] # hs[n]
  BY <1>0
<1>2. ~UNCHANGED hs
  BY <1>1
<1>3. \A k \in Nodes, pc \in {"challenge", "vouched", "built", "waiting", "refused"} :
        Goto(k, pc) => k = n
  BY <1>0, <1>1 DEF Goto
<1>4. \A k \in Nodes : ~(Join(k) \/ SetClusterPSK(k) \/ SubscribeToCluster(k) \/ JoinReturn(k)
                        \/ GiveUp(k) \/ AddOrUpdateEntry(k) \/ DropEvent(k)
                        \/ \E z \in Nodes : Remove(k, z))
  BY <1>2 DEF Join, SetClusterPSK, SubscribeToCluster, JoinReturn, GiveUp, AddOrUpdateEntry,
              DropEvent, Remove
<1>5. \A k \in Nodes : ~(GoStale(k) \/ RemoveStale(k) \/ AttemptReauth(k) \/ Crash(k)
                        \/ \E z \in Nodes : RevokeCertificate(k, z))
  BY <1>2 DEF GoStale, RemoveStale, AttemptReauth, Crash, RevokeCertificate
<1>6. \A k \in Nodes : ~(Authenticate(k) \/ ClientRefused(k) \/ ClientAccepted(k))
  <2> SUFFICES ASSUME NEW k \in Nodes,
                      Authenticate(k) \/ ClientRefused(k) \/ ClientAccepted(k)
               PROVE  FALSE
    OBVIOUS
  <2>1. k = n
    BY <1>0, <1>1 DEF Authenticate, ClientRefused, ClientAccepted
  <2>2. CASE Authenticate(k)
    BY <1>0, <2>1, <2>2 DEF Authenticate
  <2>3. CASE ClientRefused(k) \/ ClientAccepted(k)
    BY <1>0, <2>1, <2>3 DEF ClientRefused, ClientAccepted
  <2> QED
    BY <2>2, <2>3
<1>7. \A k \in Nodes : ~Leave(k)
  BY <1>0, <1>1 DEF Leave
<1>8. \A m \in net : ~(\/ DropUnknownSender(m) \/ HandleNewMemberAnnouncement(m)
                       \/ HandleVerdict(m) \/ HandleCertRevoked(m))
  BY <1>2 DEF DropUnknownSender, HandleNewMemberAnnouncement, HandleVerdict, HandleCertRevoked
<1>9. ASSUME NEW u \in Nodes, NEW k \in Nodes,
             ServerRequest(u, k) \/ ServerVerify(u, k) \/ BuildNewMemberAnnouncement(u, k)
             \/ ServerAnnounce(u, k)
      PROVE  FALSE
  <2>1. PICK pc \in {"challenge", "vouched", "built", "waiting", "refused"} : Goto(k, pc)
    BY <1>9 DEF ServerRequest, ServerVerify, BuildNewMemberAnnouncement, ServerAnnounce
  <2>2. k = n
    BY <1>3, <2>1
  <2> QED
    BY <1>0, <1>9, <2>2 DEF ServerRequest, ServerVerify, BuildNewMemberAnnouncement,
                            ServerAnnounce, At
<1>10. ASSUME NEW u \in Nodes, NEW k \in Nodes, AwaitDone(u, k) \/ AwaitTimeout(u, k)
       PROVE  u = v /\ k = n
  <2>1. k = n
    BY <1>0, <1>1, <1>10 DEF AwaitDone, AwaitTimeout, Answer
  <2> QED
    BY <1>0, <1>10, <2>1 DEF AwaitDone, AwaitTimeout, At
<1>11. Next
  BY <1>2 DEF vars
<1>12. \E u, k \in Nodes : AwaitDone(u, k) \/ AwaitTimeout(u, k)
  BY <1>4, <1>5, <1>6, <1>7, <1>8, <1>9, <1>11 DEF Next, ClientStep, ServerStep
<1> QED
  BY <1>10, <1>12

(* A newcomer that members rejected and none confirmed is not admitted,
   whichever of the verdict and the timeout the select takes
   (handler.go:239). *)
THEOREM RejectionRefuses == Spec => RejectedIsRefused
<1>1. ASSUME Inv, [Next]_vars, NEW v \in Nodes, NEW n \in Nodes,
             At(v, n, "waiting"), hs'[n] # Nil, hs'[n].pc = "ok", pend[v][n] # Nil
      PROVE  pend[v][n].rej = {} \/ pend[v][n].conf # {}
  <2>1. AwaitDone(v, n) \/ AwaitTimeout(v, n)
    BY <1>1, AcceptStep
  <2>2. hs \in [Nodes -> Handshake \cup {Nil}]
    BY <1>1 DEF Inv, Attached
  <2>3. ~Answer(v, n, "refused")
    BY <1>1, <2>2 DEF Answer
  <2>4. CASE AwaitDone(v, n)
    <3>1. pend[v][n].done = "yes"
      BY <1>1, <2>3, <2>4 DEF AwaitDone
    <3> QED
      BY <1>1, <3>1 DEF Inv, Confirmed
  <2>5. CASE AwaitTimeout(v, n)
    BY <2>3, <2>5 DEF AwaitTimeout
  <2> QED
    BY <2>1, <2>4, <2>5
<1>2. Inv /\ [Next]_vars =>
        [\A v, n \in Nodes :
           At(v, n, "waiting") /\ hs'[n] # Nil /\ hs'[n].pc = "ok" /\ pend[v][n] # Nil
             => pend[v][n].rej = {} \/ pend[v][n].conf # {}]_vars
  BY <1>1
<1> QED
  BY <1>2, Invariant, PTL DEF Spec, RejectedIsRefused
=============================================================================
