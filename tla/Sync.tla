-------------------------------- MODULE Sync --------------------------------
(***************************************************************************)
(* The member lists of one cluster: the phonebook of each node             *)
(* (node/phonebook) and the syncer that copies entries between them        *)
(* (node/sync/syncer.go), over a network that may be cut.                  *)
(*                                                                         *)
(* Times are left out: a delta request is answered with the rows written   *)
(* since the last sync of the node that asks, whoever answered that one,   *)
(* and by clocks read at different moments.  That is any part of the       *)
(* phonebook, and the model answers with any.  An entry is its failure     *)
(* count: the status that is copied with it decides nothing here           *)
(* but the order of the candidates (Health has what it does to a peer).    *)
(* A node's row about itself, which the program does write, is left out:   *)
(* it is no candidate, and whoever reads it is connected with the node.    *)
(* Auth has the handshake that Admit stands for.                           *)
(*                                                                         *)
(* A node has two syncs at a time: its periodic loop, and the goroutine    *)
(* that answers a sync request.  Each is a sequence of database calls and  *)
(* messages without a lock.                                                *)
(***************************************************************************)
EXTENDS Naturals, FiniteSets

CONSTANTS Nodes,
          First,         \* the node that started the cluster
          RemoveAt,      \* MaxConsecutiveFailsBeforeRemoval
          Cuttable,      \* nodes that may be cut off
          Threads,       \* <<n, "loop">>, the periodic loop of n, and
                         \* <<n, "event">>, its handleSyncRequest
          MaxFaults,     \* bound: cuts, revocations and reports of the monitor
          MaxInFlight,   \* bound: syncs under way at one time
          Watched,       \* rows whose failures the history counts
          Nil

ASSUME SyncAssumption ==
  /\ First \in Nodes /\ Nil \notin Nodes \cup Nat
  /\ RemoveAt \in Nat \ {0} /\ Threads \subseteq Nodes \X {"loop", "event"}
  /\ MaxFaults \in Nat /\ MaxInFlight \in Nat
  /\ Watched \subseteq Nodes \X Nodes /\ Cuttable \subseteq Nodes

VARIABLES
  book,    \* book[n][z]: the connection failures in a row that the entry of z
           \* in the phonebook of n counts (consec_fails), or Nil
  voucher, \* voucher[n]: who vouched for the session of n; Nil before it
           \* joins, "gone" when the session has been removed
  rev,     \* nodes that know of the revocation
  asked,   \* nodes with a sync request to answer
  task,    \* task[t]: what the sync of thread t is at, or Nil
  down,    \* nodes that are cut off
  faults,  \* how many cuts, revocations and reports there were
  streak   \* history: streak[<<n, z>>], failures of n to reach z in a row

vars == <<book, voucher, rev, asked, task, down, faults, streak>>

NewEntry == 0

(* dial: the stream is being opened.  check, remove: recordConnectionFailure
   has recorded the failure, has decided to remove.  rows, resp: the peer has
   read its rows, has also read its revocations.  seen is history: the failures in
   a row there were at the decision. *)
Task == [at : {"dial", "check", "remove", "rows", "resp"}, peer : Nodes,
         mem : SUBSET Nodes, rev : BOOLEAN, seen : 0 .. RemoveAt]

At(stage, p) ==
  [at |-> stage, peer |-> p, mem |-> {}, rev |-> FALSE, seen |-> 0]

TypeOK ==
  /\ book \in [Nodes -> [Nodes -> Nat \cup {Nil}]]
  /\ voucher \in [Nodes -> Nodes \cup {Nil, "gone"}]
  /\ rev \subseteq Nodes /\ down \subseteq Nodes /\ asked \subseteq Nodes
  /\ task \in [Threads -> Task \cup {Nil}]
  /\ faults \in 0 .. MaxFaults
  /\ streak \in [Watched -> 0 .. RemoveAt]

Init ==
  /\ book = [n \in Nodes |-> [z \in Nodes |-> Nil]]
  /\ voucher = [n \in Nodes |-> IF n = First THEN First ELSE Nil]
  /\ rev = {} /\ down = {} /\ faults = 0
  /\ asked = {}
  /\ task = [t \in Threads |-> Nil]
  /\ streak = [w \in Watched |-> 0]

Reach(n, p) == n # p /\ n \notin down /\ p \notin down
Known(n) == {z \in Nodes : book[n][z] # Nil}

-----------------------------------------------------------------------------
(* Voucher v admits n.  addOrUpdateEntry makes the row of n on v, on the
   members that hear the announcement and know v, and on n the rows of all
   that v lists.  A full sync of n is requested (post_auth, post_join). *)
Admit(n, v, heard) ==
  LET R == {<<m, n>> : m \in heard \cup {v}}
             \cup {<<n, z>> : z \in ({v} \cup Known(v)) \ {n}}
  IN /\ book' = [m \in Nodes |-> [z \in Nodes |->
                   IF <<m, z>> \in R THEN NewEntry ELSE book[m][z]]]
     /\ voucher' = [voucher EXCEPT ![n] = v]
     /\ asked' = asked \cup {n}

Listeners(n, v) == {m \in Nodes \ {n, v} : v \in Known(m) /\ Reach(v, m)}

Join(n, v) ==
  /\ voucher[n] = Nil /\ voucher[v] \in Nodes /\ Reach(n, v)
  /\ \E heard \in SUBSET Listeners(n, v) : Admit(n, v, heard)
  /\ UNCHANGED <<rev, task, down, faults, streak>>

(* The session goes stale when no probe succeeds any more.  The reauth
   subscriber tries once, the old voucher first; nobody else it knows can be
   reached.  Without success the session is removed in the end. *)
SessionStale(n) ==
  /\ voucher[n] \in Nodes \ {n}
  /\ \A z \in Known(n) : ~Reach(n, z)
  /\ IF Reach(n, voucher[n])
     THEN \E heard \in SUBSET Listeners(n, voucher[n]) : Admit(n, voucher[n], heard)
     ELSE /\ voucher' = [voucher EXCEPT ![n] = "gone"]
          /\ UNCHANGED <<book, asked>>
  /\ UNCHANGED <<rev, task, down, faults, streak>>

-----------------------------------------------------------------------------
(* A candidate p of n is dialled: any row, as handleSyncRequest, which prefers
   the voucher and the active peers, falls back on the others.  A round goes
   on to the next candidate until one answers and the first is random, so that
   the attempts of successive rounds come in any order.  Whether the candidate
   is the last one of a request is left open. *)
Dial(t, p) ==
  /\ task[t] = Nil /\ p \in Known(t[1])
  /\ Cardinality({u \in Threads : task[u] # Nil}) < MaxInFlight
  /\ \/ t[2] = "loop" /\ UNCHANGED asked
     \/ t[2] = "event" /\ t[1] \in asked /\ asked' \in {asked, asked \ {t[1]}}
  /\ task' = [task EXCEPT ![t] = At("dial", p)]
  /\ UNCHANGED <<book, voucher, rev, down, faults, streak>>

(* Mutant: a success takes one failure off the count. *)
ConnectedEntryDecays(e) == IF e = Nil THEN Nil ELSE e - 1

(* RecordConnectionAttempt: a success starts the count again, a failure adds
   one; a row that was removed meanwhile stays away. *)
ConnectedEntry(e) == IF e = Nil THEN Nil ELSE 0
FailedEntry(e) == IF e = Nil THEN Nil ELSE e + 1

(* handleSyncStream on p: all rows for a full sync, for a delta any of them.
   They fit one page (maxMembersPerResponse), so that no continuation is asked
   for: the server never sends a cursor for one. *)
Answers(t, p) ==
  IF t[2] = "event" THEN {Known(p) \ {t[1]}} ELSE SUBSET (Known(p) \ {t[1]})

(* NewStream fails: recordConnectionFailure, its first call. *)
ConnectionFails(t) ==
  LET n == t[1]
      p == task[t].peer
  IN /\ task[t] # Nil /\ task[t].at = "dial" /\ ~Reach(n, p)
     /\ book' = [book EXCEPT ![n][p] = FailedEntry(@)]
     /\ task' = [task EXCEPT ![t] = At("check", p)]
     /\ streak' = [w \in Watched |-> IF w = <<n, p>> /\ streak[w] < RemoveAt
                                     THEN streak[w] + 1 ELSE streak[w]]
     /\ UNCHANGED <<voucher, rev, asked, down, faults>>

(* NewStream works; p reads its rows, or answers "peer not authenticated for
   cluster". *)
Connected(t) ==
  LET n == t[1]
      p == task[t].peer
  IN /\ task[t] # Nil /\ task[t].at = "dial" /\ Reach(n, p)
     /\ book' = [book EXCEPT ![n][p] = ConnectedEntry(@)]
     /\ streak' = [w \in Watched |-> IF w = <<n, p>> THEN 0 ELSE streak[w]]
     /\ \/ /\ n \notin Known(p)
           /\ task' = [task EXCEPT ![t] = Nil]
        \/ /\ n \in Known(p)
           /\ \E mem \in Answers(t, p) :
                task' = [task EXCEPT ![t] = [At("rows", p) EXCEPT !.mem = mem]]
     /\ UNCHANGED <<voucher, rev, asked, down, faults>>

(* Mutant: an off-by-one at the threshold. *)
RemovalDueEarly(e) == e + 1 >= RemoveAt

RemovalDue(e) == e >= RemoveAt

(* recordConnectionFailure, Get: the count is read and judged. *)
JudgeFailure(t) ==
  LET n == t[1]
      p == task[t].peer
      count == IF <<n, p>> \in Watched THEN streak[<<n, p>>] ELSE 0
  IN /\ task[t] # Nil /\ task[t].at = "check"
     /\ task' = [task EXCEPT ![t] =
                   IF book[n][p] # Nil /\ RemovalDue(book[n][p])
                   THEN [At("remove", p) EXCEPT !.seen = count] ELSE Nil]
     /\ UNCHANGED <<book, voucher, rev, asked, down, faults, streak>>

(* recordConnectionFailure, Remove: whatever became of the entry meanwhile. *)
RemovePeer(t) ==
  /\ task[t] # Nil /\ task[t].at = "remove"
  /\ book' = [book EXCEPT ![t[1]][task[t].peer] = Nil]
  /\ task' = [task EXCEPT ![t] = Nil]
  /\ UNCHANGED <<voucher, rev, asked, down, faults, streak>>

(* Mutant: revocations go with full lists only. *)
RespondRevokedOnFull(t) ==
  /\ task[t] # Nil /\ task[t].at = "rows" /\ Reach(t[1], task[t].peer)
  /\ task' = [task EXCEPT ![t] =
                [@ EXCEPT !.at = "resp", !.rev = task[t].peer \in rev /\ t[2] = "event"]]
  /\ UNCHANGED <<book, voucher, rev, asked, down, faults, streak>>

(* handleSyncStream on p, some time after the rows were read: the revocations
   are read and the response is sent. *)
Respond(t) ==
  /\ task[t] # Nil /\ task[t].at = "rows" /\ Reach(t[1], task[t].peer)
  /\ task' = [task EXCEPT ![t] = [@ EXCEPT !.at = "resp", !.rev = task[t].peer \in rev]]
  /\ UNCHANGED <<book, voucher, rev, asked, down, faults, streak>>

(* processMember for each member: the row is written anew, failures and all;
   revocations are merged. *)
MergeMembers(n, r) ==
  [z \in Nodes |-> IF z \in r.mem THEN NewEntry ELSE book[n][z]]

Apply(t) ==
  LET n == t[1]
      r == task[t]
  IN /\ r # Nil /\ r.at = "resp"
     /\ book' = [book EXCEPT ![n] = MergeMembers(n, r)]
     /\ rev' = IF r.rev THEN rev \cup {n} ELSE rev
     /\ task' = [task EXCEPT ![t] = Nil]
     /\ asked' = IF t[2] = "event" THEN asked \ {n} ELSE asked
     /\ UNCHANGED <<voucher, down, faults, streak>>

(* The stream breaks before the response is read: no failure is recorded. *)
ResponseLost(t) ==
  /\ task[t] # Nil /\ task[t].at \in {"rows", "resp"}
  /\ ~Reach(t[1], task[t].peer)
  /\ task' = [task EXCEPT ![t] = Nil]
  /\ UNCHANGED <<book, voucher, rev, asked, down, faults, streak>>

-----------------------------------------------------------------------------
(* The health monitor of n removes z, after a quarantine that scores gossiped
   by others may have caused (Health). *)
MonitorRemoves(n, z) ==
  /\ z \in Known(n) /\ faults < MaxFaults
  /\ book' = [book EXCEPT ![n][z] = Nil]
  /\ faults' = faults + 1
  /\ UNCHANGED <<voucher, rev, asked, task, down, streak>>

(* RevokeCertificate on n, and handleCertRevoked on those the broadcast
   reaches. *)
Revoke(n) ==
  /\ rev = {} /\ voucher[n] \in Nodes /\ faults < MaxFaults
  /\ \E heard \in SUBSET {m \in Nodes : n \in Known(m) /\ Reach(n, m)} :
       rev' = {n} \cup heard
  /\ faults' = faults + 1
  /\ UNCHANGED <<book, voucher, asked, task, down, streak>>

Cut(n) ==
  /\ faults < MaxFaults /\ n \in Cuttable \ down
  /\ down' = down \cup {n} /\ faults' = faults + 1
  /\ UNCHANGED <<book, voucher, rev, asked, task, streak>>

Heal(n) ==
  /\ n \in down
  /\ down' = down \ {n}
  /\ UNCHANGED <<book, voucher, rev, asked, task, faults, streak>>

Goroutine(t) ==
  \/ ConnectionFails(t) \/ JudgeFailure(t) \/ RemovePeer(t)
  \/ Connected(t) \/ Respond(t) \/ Apply(t) \/ ResponseLost(t)

Next ==
  \/ \E t \in Threads : Goroutine(t) \/ \E p \in Nodes : Dial(t, p)
  \/ \E n \in Nodes :
       \/ SessionStale(n) \/ Revoke(n) \/ Cut(n) \/ Heal(n)
       \/ \E p \in Nodes : Join(n, p) \/ MonitorRemoves(n, p)

Spec == Init /\ [][Next]_vars

(* The ticker of each periodic loop goes on, rounds finish, and the random
   first candidate is each of them again and again. *)
FairSpec ==
  /\ Spec
  /\ \A t \in Threads :
       /\ WF_vars(Goroutine(t))
       /\ t[2] = "loop" => \A p \in Nodes \ {t[1]} : SF_vars(Dial(t, p))

-----------------------------------------------------------------------------
(* The syncer drops a peer only after RemoveAt failures in a row to reach it
   (MaxConsecutiveFailsBeforeRemoval, syncer.go:886-911), although entries of
   other phonebooks are merged into the one it counts in and two goroutines
   count: every removal but the monitor's was decided at such a moment.  (By
   the time it is carried out the peer may have answered the other goroutine:
   NoRemovalOfReached.) *)
NoEarlyRemoval ==
  [][\A w \in Watched :
       book[w[1]][w[2]] # Nil /\ book'[w[1]][w[2]] = Nil =>
         \/ faults' # faults       \* MonitorRemoves
         \/ \E t \in Threads :
              /\ t[1] = w[1] /\ task[t] # Nil
              /\ task[t].at = "remove" /\ task[t].peer = w[2]
              /\ task[t].seen = RemoveAt]_vars

(* "removing unreachable peer from phonebook" (syncer.go:904): who is removed
   has not answered since.  Get and Remove are two calls. *)
NoRemovalOfReached ==
  [][\A w \in Watched :
       book[w[1]][w[2]] # Nil /\ book'[w[1]][w[2]] = Nil /\ faults' = faults =>
         streak[w] = RemoveAt]_vars

(* b and c have each other in their phonebooks and can talk. *)
Talk(b, c) == b \in Known(c) /\ c \in Known(b) /\ Reach(b, c)

(* Peers are probed "so they can either recover back to active or reach the
   removal threshold" (syncer.go:695-697): one that stays cut off is in the
   end forgotten by the others. *)
UnreachableIsRemoved ==
  \A z \in Nodes : <>[](z \in down) => <>[](\A n \in Nodes \ {z} : z \notin Known(n))

(* A revocation whose broadcast was lost still reaches every member that goes
   on syncing and talks to one that has it. *)
RevocationsSpread ==
  []<>(\A b \in {n \in Nodes : <<n, "loop">> \in Threads}, c \in Nodes :
         Talk(b, c) /\ c \in rev => b \in rev)
=============================================================================
