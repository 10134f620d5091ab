-------------------------------- MODULE Auth --------------------------------
(***************************************************************************)
(* Joining one cluster (node/auth, and Join and Leave of node/node.go).    *)
(* A node asks a voucher over a stream; the voucher checks it, adds it to  *)
(* its phonebook, announces it on the auth topic and waits for a verdict   *)
(* of the other members before it completes the handshake.                 *)
(*                                                                         *)
(* Keys and certificate provider of a cluster are set and dropped together *)
(* (keys).  The topic a node has joined stays open when it leaves: Close   *)
(* refuses while a subscription exists, and the message loop goes on       *)
(* (open), only the entry in authTopics goes (topic).  Publishing without  *)
(* an entry is a nil dereference: the node crashes.  A client has one      *)
(* handshake at a time, and no deadline on its stream.  Signatures hold,   *)
(* every message is delivered once, late or never; revocation lists        *)
(* survive, being on disk.                                                 *)
(***************************************************************************)
EXTENDS Naturals, FiniteSets

CONSTANTS Nodes,
          Members,    \* nodes that are members already
          First,      \* the one of them that started the cluster, if any
          Bootstraps, \* lists of bootstrap peers a Join may be given, as sets
          MaxStarts,  \* bound: calls of Join and sessions that go stale
          MaxOps,     \* bound: leaves, revocations, crashes, rate limits, failed
                      \* broadcasts, lost events and removed rows together
          Nil

ASSUME AuthAssumption ==
  /\ Members \subseteq Nodes /\ First \in Nodes /\ Nil \notin Nodes
  /\ Members = {} \/ First \in Members
  /\ Bootstraps \subseteq SUBSET Nodes
  /\ MaxStarts \in Nat /\ MaxOps \in Nat

VARIABLES
  keys,    \* nodes with the keys and the provider of the cluster
  topic,   \* nodes with an entry in authTopics
  open,    \* nodes whose topic is open and whose message loop runs
  book,    \* book[n]: nodes in the phonebook of n
  adds,    \* adds[n]: members published to the phonebook subscriber of n
  lost,    \* <<n, z>>: n dropped the event about z, or removed its row, and
           \* has stored nothing about z since (a history)
  rev,     \* rev[n]: nodes on the revocation list of n
  sess,    \* sess[n]: the session of n
  due,     \* nodes with a SessionStale event to handle
  join,    \* join[n]: where the call of Join on n stands
  boot,    \* boot[n]: the bootstrap peers it was given
  joined,  \* joinedClusters
  thr,     \* thr[n]: the goroutine that authenticates n, and whom it may try
  hs,      \* hs[n]: the handshake n has open
  pend,    \* pend[v][n]: pendingAuth of v for n
  net,     \* auth messages on their way
  crashed, \* nodes that are gone
  starts,  \* calls of Join and stale sessions so far
  ops      \* how many of the bounded operations there were

vars == <<keys, topic, open, book, adds, lost, rev, sess, due, join, boot, joined,
          thr, hs, pend, net, crashed, starts, ops>>

membership == <<book, lost, rev, joined, boot, starts>>

Session == [st : {"none", "auth", "stale"}, voucher : Nodes \cup {Nil}]
NoSession == [st |-> "none", voucher |-> Nil]
Thread == [why : {"join", "reauth", "alternate"}, todo : SUBSET Nodes]
Handshake ==
  [v : Nodes, members : SUBSET Nodes,
   pc : {"request", "challenge", "mismatch", "vouched", "built", "waiting",
         "ok", "refused"}]
Pending == [conf : SUBSET Nodes, rej : SUBSET Nodes, done : {"yes", "no", Nil}]
Message == [kind : {"new_member", "auth_confirmed", "auth_rejected", "cert_revoked"},
            from : Nodes, about : Nodes, to : Nodes]

ASSUME NilAssumption == Nil \notin Thread \cup Handshake \cup {"yes", "no"}

TypeOK ==
  /\ keys \subseteq Nodes /\ topic \subseteq open /\ open \subseteq Nodes
  /\ book \in [Nodes -> SUBSET Nodes] /\ adds \in [Nodes -> SUBSET Nodes]
  /\ lost \subseteq Nodes \X Nodes
  /\ rev \in [Nodes -> SUBSET Nodes] /\ sess \in [Nodes -> Session]
  /\ due \subseteq Nodes /\ joined \subseteq Nodes /\ crashed \subseteq Nodes
  /\ join \in [Nodes -> {"idle", "asked", "keyed", "joining", "joined", "failed"}]
  /\ boot \in [Nodes -> SUBSET Nodes]
  /\ thr \in [Nodes -> Thread \cup {Nil}]
  /\ hs \in [Nodes -> Handshake \cup {Nil}]
  /\ \A n \in Nodes : hs[n] # Nil => thr[n] # Nil \/ n \in crashed
  /\ pend \in [Nodes -> [Nodes -> Pending \cup {Nil}]]
  /\ \A v, n \in Nodes \ crashed :
       pend[v][n] # Nil => hs[n] # Nil /\ hs[n].v = v /\ hs[n].pc = "waiting"
  /\ net \subseteq Message
  /\ starts \in 0 .. MaxStarts /\ ops \in 0 .. MaxOps

(* First vouched for the other members.  They know each other, or the
   subscriber of First has yet to store what it learnt. *)
Init ==
  /\ keys = Members /\ topic = Members /\ open = Members /\ joined = Members
  /\ \E S \in {Members, Members \ {First}} :
       /\ book = [n \in Nodes |-> IF n \in S THEN Members ELSE {}]
       /\ adds = [n \in Nodes |-> IF n \in Members \ S THEN Members ELSE {}]
  /\ sess = [n \in Nodes |->
               IF n \notin Members THEN NoSession
               ELSE [st |-> "auth", voucher |-> IF n = First THEN Nil ELSE First]]
  /\ rev = [n \in Nodes |-> {}] /\ due = {} /\ lost = {}
  /\ join = [n \in Nodes |-> "idle"] /\ boot = [n \in Nodes |-> {}]
  /\ thr = [n \in Nodes |-> Nil] /\ hs = [n \in Nodes |-> Nil]
  /\ pend = [v \in Nodes |-> [n \in Nodes |-> Nil]]
  /\ net = {} /\ crashed = {} /\ starts = 0 /\ ops = 0

Up(n) == n \notin crashed
Bounded == ops < MaxOps /\ ops' = ops + 1
Goto(n, pc) == hs' = [hs EXCEPT ![n].pc = pc]

(* Who a message can matter to: a verdict on z is used by its voucher, and by
   one that z may yet turn to. *)
Concerned(kind, z) ==
  IF kind \in {"auth_confirmed", "auth_rejected"}
  THEN (IF hs[z] = Nil THEN {} ELSE {hs[z].v}) \cup (IF thr[z] = Nil THEN {} ELSE thr[z].todo)
  ELSE Nodes

(* publishAuthMessage: to every open subscription, or a crash.  M holds the
   messages that are on their way otherwise. *)
Publish(n, kind, about, M) ==
  \/ /\ n \in topic
     /\ net' = M \cup {[kind |-> kind, from |-> n, about |-> about, to |-> m] :
                         m \in (open \cap Concerned(kind, about)) \ ({n} \cup crashed)}
     /\ UNCHANGED crashed
  \/ /\ n \notin topic
     /\ crashed' = crashed \cup {n}
     /\ net' = M

-----------------------------------------------------------------------------
(* Node.Join and handleClusterJoinRequest. *)

Join(n) ==
  /\ Up(n) /\ join[n] = "idle" /\ starts < MaxStarts
  /\ join' = [join EXCEPT ![n] = "asked"]
  /\ \E B \in Bootstraps : boot' = [boot EXCEPT ![n] = B \ {n}]
  /\ starts' = starts + 1
  /\ UNCHANGED <<keys, topic, open, book, adds, lost, rev, sess, due, joined, thr,
                 hs, pend, net, crashed, ops>>

SetClusterPSK(n) ==
  /\ Up(n) /\ join[n] = "asked"
  /\ keys' = keys \cup {n}
  /\ join' = [join EXCEPT ![n] = "keyed"]
  /\ UNCHANGED <<topic, open, adds, sess, due, thr, hs, pend, net, crashed, ops,
                 membership>>

(* SubscribeToCluster fails on a topic that is open; the first node makes
   its session at once, any other begins with its bootstrap peers. *)
SubscribeToCluster(n) ==
  /\ Up(n) /\ join[n] = "keyed"
  /\ \/ /\ n \in open
        /\ join' = [join EXCEPT ![n] = "failed"]
        /\ UNCHANGED <<topic, open, adds, sess, thr>>
     \/ /\ n \notin open
        /\ open' = open \cup {n} /\ topic' = topic \cup {n}
        /\ \/ /\ boot[n] = {}
              /\ sess' = [sess EXCEPT ![n] = [st |-> "auth", voucher |-> Nil]]
              /\ adds' = [adds EXCEPT ![n] = @ \cup {n}]
              /\ join' = [join EXCEPT ![n] = "joined"]
              /\ UNCHANGED thr
           \/ /\ boot[n] # {}
              /\ thr' = [thr EXCEPT ![n] = [why |-> "join", todo |-> boot[n]]]
              /\ join' = [join EXCEPT ![n] = "joining"]
              /\ UNCHANGED <<sess, adds>>
  /\ UNCHANGED <<keys, due, hs, pend, net, crashed, ops, membership>>

(* Join takes ClusterJoined or ClusterJoinFailed from the bus. *)
JoinReturn(n) ==
  /\ Up(n) /\ join[n] \in {"joined", "failed"}
  /\ joined' = IF join[n] = "joined" THEN joined \cup {n} ELSE joined
  /\ join' = [join EXCEPT ![n] = "idle"]
  /\ boot' = [boot EXCEPT ![n] = {}]
  /\ UNCHANGED <<keys, topic, open, book, adds, lost, rev, sess, due, thr, hs, pend,
                 net, crashed, starts, ops>>

-----------------------------------------------------------------------------
(* The client: bootstrapAndAuthenticate, attemptReauth, tryAlternatePeer.  It
   connects to a peer, or cannot (no key any more, nobody there). *)
Authenticate(n) ==
  /\ Up(n) /\ thr[n] # Nil /\ hs[n] = Nil
  /\ \E v \in thr[n].todo :
       /\ thr' = [thr EXCEPT ![n].todo = @ \ {v}]
       /\ \/ /\ n \in keys /\ Up(v)
             /\ hs' = [hs EXCEPT ![n] =
                         [v |-> v, members |-> {}, pc |-> "request"]]
          \/ /\ n \notin keys \/ ~Up(v)
             /\ UNCHANGED hs
  /\ UNCHANGED <<keys, topic, open, adds, sess, due, join, pend, net, crashed, ops,
                 membership>>

(* All candidates failed: the join fails, and a re-authentication goes on
   from the old voucher to the other peers it knows, once. *)
GiveUp(n) ==
  /\ Up(n) /\ thr[n] # Nil /\ hs[n] = Nil /\ thr[n].todo = {}
  /\ \/ /\ thr[n].why = "join"
        /\ join' = [join EXCEPT ![n] = "failed"]
        /\ thr' = [thr EXCEPT ![n] = Nil]
     \/ /\ thr[n].why = "reauth"
        /\ thr' = [thr EXCEPT ![n] =
                     [why |-> "alternate", todo |-> book[n] \ {n, sess[n].voucher}]]
        /\ UNCHANGED join
     \/ /\ thr[n].why = "alternate"
        /\ thr' = [thr EXCEPT ![n] = Nil]
        /\ UNCHANGED join
  /\ UNCHANGED <<keys, topic, open, adds, sess, due, hs, pend, net, crashed, ops,
                 membership>>

(* Step1Result or AuthComplete says no, or the stream broke. *)
ClientRefused(n) ==
  /\ Up(n) /\ hs[n] # Nil
  /\ hs[n].pc = "refused" \/ (hs[n].pc # "ok" /\ ~Up(hs[n].v))
  /\ hs' = [hs EXCEPT ![n] = Nil]
  /\ UNCHANGED <<keys, topic, open, adds, sess, due, join, thr, pend, net, crashed,
                 ops, membership>>

(* AuthComplete says yes: the members go to the phonebook subscriber, the
   session is stored, whatever has become of the old one meanwhile. *)
ClientAccepted(n) ==
  /\ Up(n) /\ hs[n] # Nil /\ hs[n].pc = "ok"
  /\ adds' = [adds EXCEPT ![n] = @ \cup hs[n].members]
  /\ sess' = [sess EXCEPT ![n] = [st |-> "auth", voucher |-> hs[n].v]]
  /\ join' = [join EXCEPT ![n] = IF thr[n].why = "join" THEN "joined" ELSE @]
  /\ thr' = [thr EXCEPT ![n] = Nil]
  /\ hs' = [hs EXCEPT ![n] = Nil]
  /\ UNCHANGED <<keys, topic, open, due, pend, net, crashed, ops, membership>>

-----------------------------------------------------------------------------
(* The server: handleAuthStream, on v for client n. *)

At(v, n, pc) == Up(v) /\ hs[n] # Nil /\ hs[n].v = v /\ hs[n].pc = pc

ServerRequest(v, n) ==
  /\ At(v, n, "request")
  /\ \/ /\ v \notin keys \/ n \in rev[v]
        /\ Goto(n, "refused") /\ UNCHANGED ops
     \/ /\ Bounded                             \* rate limited
        /\ Goto(n, "refused")
     \/ /\ v \in keys /\ n \notin rev[v]
        /\ Goto(n, "challenge") /\ UNCHANGED ops
  /\ UNCHANGED <<keys, topic, open, adds, sess, due, join, thr, pend, net, crashed,
                 membership>>

(* Mutant: the member is announced, but not to its own phonebook. *)
ServerVerifyUnrecorded(v, n) ==
  /\ At(v, n, "challenge") /\ Goto(n, "vouched")
  /\ UNCHANGED <<keys, topic, open, adds, sess, due, join, thr, pend, net, crashed,
                 ops, membership>>

(* The response is verified, and NewMemberAnnounced published.  Keys zeroed
   by a LeaveCluster on either side do not match. *)
ServerVerify(v, n) ==
  /\ \/ /\ At(v, n, "challenge")
        /\ Goto(n, "vouched")
        /\ adds' = [adds EXCEPT ![v] = @ \cup {n}]
     \/ /\ At(v, n, "mismatch")
        /\ Goto(n, "refused")
        /\ UNCHANGED adds
  /\ UNCHANGED <<keys, topic, open, sess, due, join, thr, pend, net, crashed, ops,
                 membership>>

BuildNewMemberAnnouncement(v, n) ==
  /\ At(v, n, "vouched")
  /\ Goto(n, IF v \in keys THEN "built" ELSE "refused")
  /\ UNCHANGED <<keys, topic, open, adds, sess, due, join, thr, pend, net, crashed,
                 ops, membership>>

(* The broadcast, after the tracker is in place if v knows any member. *)
ServerAnnounce(v, n) ==
  /\ At(v, n, "built")
  /\ \/ /\ Publish(v, "new_member", n, net)
        /\ pend' = [pend EXCEPT ![v][n] =
                      IF book[v] = {} THEN Nil
                      ELSE [conf |-> {}, rej |-> {}, done |-> Nil]]
        /\ Goto(n, "waiting") /\ UNCHANGED ops
     \/ /\ Bounded                             \* fails after all retries
        /\ Goto(n, "refused") /\ UNCHANGED <<pend, net, crashed>>
  /\ UNCHANGED <<keys, topic, open, adds, sess, due, join, thr, membership>>

(* Mutant: the tracker is not deleted. *)
AnswerLeaksPending(v, n, verdict) ==
  /\ hs' = [hs EXCEPT ![n] = [v |-> v, pc |-> verdict,
                              members |-> IF verdict = "ok" THEN book[v] ELSE {}]]
  /\ UNCHANGED pend

(* AuthComplete, with the members on success; the deferred delete follows. *)
Answer(v, n, verdict) ==
  /\ hs' = [hs EXCEPT ![n] = [v |-> v, pc |-> verdict,
                              members |-> IF verdict = "ok" THEN book[v] ELSE {}]]
  /\ pend' = [pend EXCEPT ![v][n] = Nil]

(* Done or the timeout is taken, whichever the select finds. *)
AwaitDone(v, n) ==
  /\ At(v, n, "waiting")
  /\ \/ pend[v][n] = Nil /\ Answer(v, n, "ok")
     \/ pend[v][n] # Nil /\ pend[v][n].done = "yes" /\ Answer(v, n, "ok")
     \/ pend[v][n] # Nil /\ pend[v][n].done = "no" /\ Answer(v, n, "refused")
  /\ UNCHANGED <<keys, topic, open, adds, sess, due, join, thr, net, crashed, ops,
                 membership>>

(* Mutants: without the look at the rejections; and waiting for the minimum
   of confirmations. *)
AwaitTimeoutIgnoresRejections(v, n) ==
  /\ At(v, n, "waiting") /\ pend[v][n] # Nil
  /\ Answer(v, n, "ok")
  /\ UNCHANGED <<keys, topic, open, adds, sess, due, join, thr, net, crashed, ops,
                 membership>>
AwaitTimeoutConfirmed(v, n) ==
  /\ At(v, n, "waiting") /\ pend[v][n] # Nil /\ pend[v][n].conf # {}
  /\ Answer(v, n, IF pend[v][n].rej # {} THEN "refused" ELSE "ok")
  /\ UNCHANGED <<keys, topic, open, adds, sess, due, join, thr, net, crashed, ops,
                 membership>>

AwaitTimeout(v, n) ==
  /\ At(v, n, "waiting") /\ pend[v][n] # Nil
  /\ Answer(v, n, IF pend[v][n].rej # {} THEN "refused" ELSE "ok")
  /\ UNCHANGED <<keys, topic, open, adds, sess, due, join, thr, net, crashed, ops,
                 membership>>

-----------------------------------------------------------------------------
(* The message loop of m.to. *)

Read(m) == m \in net /\ m.to \in open /\ Up(m.to)
Heard(m) == Read(m) /\ m.from \in book[m.to]

DropUnknownSender(m) ==
  /\ Read(m) /\ m.from \notin book[m.to]
  /\ net' = net \ {m}
  /\ UNCHANGED <<keys, topic, open, adds, sess, due, join, thr, hs, pend, crashed,
                 ops, membership>>

(* A verdict on the announcement; a confirmed member goes to the phonebook. *)
HandleNewMemberAnnouncement(m) ==
  LET n == m.to
      bad == m.from \in rev[n]
  IN /\ Heard(m) /\ m.kind = "new_member"
     /\ Publish(n, IF bad THEN "auth_rejected" ELSE "auth_confirmed", m.about, net \ {m})
     /\ adds' = IF bad \/ n \notin topic THEN adds
                ELSE [adds EXCEPT ![n] = @ \cup {m.about}]
     /\ UNCHANGED <<keys, topic, open, sess, due, join, thr, hs, pend, ops, membership>>

(* One verdict is enough, and the first one fills Done. *)
Verdict(m, p) ==
  CASE m.kind = "auth_confirmed" ->
         [p EXCEPT !.conf = @ \cup {m.from},
                   !.done = IF p.rej = {} /\ p.done = Nil THEN "yes" ELSE @]
    [] m.kind = "auth_rejected" ->
         [p EXCEPT !.rej = @ \cup {m.from},
                   !.done = IF p.done = Nil THEN "no" ELSE @]

HandleVerdict(m) ==
  /\ Heard(m) /\ m.kind \in {"auth_confirmed", "auth_rejected"}
  /\ net' = net \ {m}
  /\ pend' = [pend EXCEPT ![m.to][m.about] = IF @ = Nil THEN Nil ELSE Verdict(m, @)]
  /\ UNCHANGED <<keys, topic, open, adds, sess, due, join, thr, hs, crashed, ops,
                 membership>>

HandleCertRevoked(m) ==
  /\ Heard(m) /\ m.kind = "cert_revoked"
  /\ net' = net \ {m}
  /\ rev' = [rev EXCEPT ![m.to] = @ \cup {m.about}]
  /\ UNCHANGED <<keys, topic, open, book, adds, lost, sess, due, join, boot, joined, thr,
                 hs, pend, crashed, starts, ops>>

(* The phonebook subscriber stores a member. *)
AddOrUpdateEntry(n) ==
  /\ Up(n)
  /\ \E z \in adds[n] :
       /\ book' = [book EXCEPT ![n] = @ \cup {z}]
       /\ adds' = [adds EXCEPT ![n] = @ \ {z}]
       /\ lost' = lost \ {<<n, z>>}
  /\ UNCHANGED <<keys, topic, open, rev, sess, due, join, boot, joined, thr, hs,
                 pend, net, crashed, starts, ops>>

(* The channel of the subscriber was full: the bus drops the event. *)
DropEvent(n) ==
  /\ Up(n) /\ Bounded
  /\ \E z \in adds[n] :
       /\ adds' = [adds EXCEPT ![n] = @ \ {z}]
       /\ lost' = lost \cup {<<n, z>>}
  /\ UNCHANGED <<keys, topic, open, book, rev, sess, due, join, boot, joined, thr,
                 hs, pend, net, crashed, starts>>

(* The syncer or the health monitor of n removes a member, whose session is
   none of their business. *)
Remove(n, z) ==
  /\ Up(n) /\ z \in book[n] /\ n # z /\ Bounded
  /\ book' = [book EXCEPT ![n] = @ \ {z}]
  /\ lost' = lost \cup {<<n, z>>}
  /\ UNCHANGED <<keys, topic, open, adds, rev, sess, due, join, boot, joined, thr,
                 hs, pend, net, crashed, starts>>

-----------------------------------------------------------------------------
RevokeCertificate(n, z) ==
  /\ Up(n) /\ n # z /\ z \notin rev[n] /\ Bounded
  /\ rev' = [rev EXCEPT ![n] = @ \cup {z}]
  /\ Publish(n, "cert_revoked", z, net)
  /\ UNCHANGED <<keys, topic, open, book, adds, lost, sess, due, join, boot, joined, thr,
                 hs, pend, starts>>

(* checkStaleSessions: no activity for long, then stale for too long. *)
GoStale(n) ==
  /\ Up(n) /\ sess[n].st = "auth" /\ starts < MaxStarts
  /\ starts' = starts + 1
  /\ sess' = [sess EXCEPT ![n].st = "stale"]
  /\ due' = due \cup {n}
  /\ UNCHANGED <<keys, topic, open, book, adds, lost, rev, join, boot, joined, thr, hs,
                 pend, net, crashed, ops>>

RemoveStale(n) ==
  /\ Up(n) /\ sess[n].st = "stale"
  /\ sess' = [sess EXCEPT ![n] = NoSession]
  /\ UNCHANGED <<keys, topic, open, adds, due, join, thr, hs, pend, net, crashed, ops,
                 membership>>

(* attemptReauth, up to its first Authenticate. *)
AttemptReauth(n) ==
  /\ Up(n) /\ n \in due /\ thr[n] = Nil
  /\ due' = due \ {n}
  /\ \/ /\ sess[n].st = "none"
        /\ UNCHANGED <<sess, thr>>
     \/ /\ sess[n].st # "none" /\ sess[n].voucher = Nil
        /\ sess' = [sess EXCEPT ![n].st = "auth"]
        /\ UNCHANGED thr
     \/ /\ sess[n].st # "none" /\ sess[n].voucher # Nil
        /\ thr' = [thr EXCEPT ![n] = [why |-> "reauth", todo |-> {sess[n].voucher}]]
        /\ UNCHANGED sess
  /\ UNCHANGED <<keys, topic, open, adds, join, hs, pend, net, crashed, ops, membership>>

(* Node.Leave, as far as the authenticator goes: LeaveCluster. *)
Leave(n) ==
  /\ Up(n) /\ n \in joined /\ Bounded
  /\ joined' = joined \ {n}
  /\ topic' = topic \ {n}
  /\ sess' = [sess EXCEPT ![n] = NoSession]
  /\ keys' = keys \ {n}
  /\ hs' = [k \in Nodes |->
              IF hs[k] # Nil /\ hs[k].pc = "challenge" /\ n \in {k, hs[k].v}
              THEN [hs[k] EXCEPT !.pc = "mismatch"] ELSE hs[k]]
  /\ UNCHANGED <<open, book, adds, lost, rev, due, join, boot, thr, pend, net, crashed,
                 starts>>

Crash(n) ==
  /\ Up(n) /\ Bounded
  /\ crashed' = crashed \cup {n}
  /\ UNCHANGED <<keys, topic, open, adds, sess, due, join, thr, hs, pend, net,
                 membership>>

-----------------------------------------------------------------------------
ClientStep(n) ==
  \/ SetClusterPSK(n) \/ SubscribeToCluster(n) \/ JoinReturn(n)
  \/ Authenticate(n) \/ GiveUp(n) \/ ClientRefused(n) \/ ClientAccepted(n)

ServerStep(v, n) ==
  \/ ServerRequest(v, n) \/ ServerVerify(v, n) \/ BuildNewMemberAnnouncement(v, n)
  \/ ServerAnnounce(v, n) \/ AwaitDone(v, n) \/ AwaitTimeout(v, n)

Next ==
  \/ \E n \in Nodes :
       \/ Join(n) \/ ClientStep(n) \/ AddOrUpdateEntry(n) \/ DropEvent(n)
       \/ GoStale(n) \/ RemoveStale(n) \/ AttemptReauth(n) \/ Leave(n) \/ Crash(n)
       \/ \E z \in Nodes : ServerStep(n, z) \/ RevokeCertificate(n, z) \/ Remove(n, z)
  \/ \E m \in net :
       \/ DropUnknownSender(m) \/ HandleNewMemberAnnouncement(m)
       \/ HandleVerdict(m) \/ HandleCertRevoked(m)

Spec == Init /\ [][Next]_vars

(* The goroutines of a handshake go on, and the timer of the wait fires. *)
FairSpec ==
  /\ Spec
  /\ \A n \in Nodes : WF_vars(ClientStep(n))
  /\ \A v, n \in Nodes : WF_vars(ServerStep(v, n))

-----------------------------------------------------------------------------
(* The voucher of a node with a session has it in its phonebook or is about
   to store it, so that it hears the node's messages and answers its sync
   requests, unless the voucher itself lost the record: it removed the row, or
   its bus dropped the event.  Joins, leaves, stale sessions, crashes and
   re-authentications in whatever order lose none. *)
AdmissionIsRecorded ==
  \A n \in Nodes : sess[n].voucher # Nil =>
    LET v == sess[n].voucher IN n \in book[v] \cup adds[v] \/ <<v, n>> \in lost

(* "Rejection priority": a newcomer that members rejected and none confirmed
   is not admitted, whether the verdict or the timeout is seen first
   (handler.go:239). *)
RejectedIsRefused ==
  [][\A v, n \in Nodes :
       At(v, n, "waiting") /\ hs'[n] # Nil /\ hs'[n].pc = "ok" /\ pend[v][n] # Nil
         => pend[v][n].rej = {} \/ pend[v][n].conf # {}]_vars

(* Every call of Join on a node that stays up returns: the voucher answers or
   its stream breaks, whatever the other members do. *)
JoinReturns == []<>(\A n \in Nodes : Up(n) => join[n] = "idle")
=============================================================================
