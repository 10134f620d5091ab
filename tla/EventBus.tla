------------------------------ MODULE EventBus ------------------------------
(***************************************************************************)
(* The node's internal event bus (node/internal/events/bus.go): publishers *)
(* put events into one bounded input channel, a dispatcher goroutine fans  *)
(* each one out to the bounded channels of the subscribers, and Close      *)
(* shuts both down while publishers and subscribers are still running.     *)
(*                                                                         *)
(* What happens under the bus mutex is one step.  Publish checks the       *)
(* closed flag under it and sends after releasing it; the dispatcher takes *)
(* an event without it and fans out under it.                              *)
(***************************************************************************)
EXTENDS Integers, Sequences, FiniteSets

CONSTANTS
  Publishers, \* goroutines that publish
  Chans,      \* subscriber channels, each created once
  Types,      \* event types
  Topic,      \* Topic[c]: the type c was subscribed to, All for SubscribeAll
  All,
  InputCap,   \* capacity of the input channel (bufferSize)
  SubCap,     \* capacity of a subscriber channel
  MaxEvents   \* bound: events the input channel accepts

ASSUME BusAssumption ==
  /\ All \notin Types /\ IsFiniteSet(Chans)
  /\ Topic \in [Chans -> Types \cup {All}]
  /\ InputCap \in Nat /\ SubCap \in Nat \ {0} /\ MaxEvents \in Nat

VARIABLES
  pub,     \* pub[p]: the type p is about to send after its check, else "idle"
  input,   \* inputCh
  hand,    \* the event the dispatcher took and has not fanned out, if any
  running, \* the dispatcher has not returned
  sub,     \* sub[c]: "none", "listed", "removed", or "shut" by Close
  queue,   \* queue[c]: the events in channel c
  closed,  \* the flag; inputCh is closed with it
  ctxDone, \* the bus context is cancelled, by Close or by the node's context
  closer,  \* Close: "idle", "waiting" for the dispatcher, "done"
  panic,   \* what crashed the process, "none" while it runs
  dropped, \* droppedCount
  sent,    \* history: events accepted by the input channel
  fanned,  \* history: the last event that was fanned out
  due,     \* history: due[c]: events fanned out while c was listed for them
  taken,   \* history: taken[c]: events the subscriber received
  last     \* history: last[c]: the last of them

vars == <<pub, input, hand, running, sub, queue, closed, ctxDone, closer,
          panic, dropped, sent, fanned, due, taken, last>>

(* An event: its place in the order of acceptance, and its type. *)
Events == [id : 1 .. MaxEvents, type : Types]

TypeOK ==
  /\ pub \in [Publishers -> Types \cup {"idle"}]
  /\ input \in Seq(Events) /\ Len(input) <= InputCap
  /\ hand \in Seq(Events) /\ Len(hand) <= 1 /\ running \in BOOLEAN
  /\ sub \in [Chans -> {"none", "listed", "removed", "shut"}]
  /\ queue \in [Chans -> Seq(Events)]
  /\ \A c \in Chans : Len(queue[c]) <= SubCap
  /\ closed \in BOOLEAN /\ ctxDone \in BOOLEAN
  /\ closer \in {"idle", "waiting", "done"}
  /\ panic \in {"none", "publish", "unsubscribe", "fanout"}
  /\ dropped \in Nat /\ sent \in 0 .. MaxEvents /\ fanned \in 0 .. MaxEvents
  /\ due \in [Chans -> Nat] /\ taken \in [Chans -> Nat] /\ last \in [Chans -> Nat]

Init ==
  /\ pub = [p \in Publishers |-> "idle"]
  /\ input = <<>> /\ hand = <<>> /\ running = TRUE
  /\ sub = [c \in Chans |-> "none"] /\ queue = [c \in Chans |-> <<>>]
  /\ closed = FALSE /\ ctxDone = FALSE /\ closer = "idle" /\ panic = "none"
  /\ dropped = 0 /\ sent = 0 /\ fanned = 0
  /\ due = [c \in Chans |-> 0] /\ taken = [c \in Chans |-> 0]
  /\ last = [c \in Chans |-> 0]

Alive == panic = "none"

(* The process crashes. *)
Panic(why) ==
  /\ panic' = why
  /\ UNCHANGED <<pub, input, hand, running, sub, queue, closed, ctxDone, closer, dropped,
                 sent, fanned, due, taken, last>>

-----------------------------------------------------------------------------
(* Publish, first half: the closed flag. *)
PublishCheck(p, type) ==
  /\ pub[p] = "idle" /\ ~closed
  /\ pub' = [pub EXCEPT ![p] = type]
  /\ UNCHANGED <<input, hand, running, sub, queue, closed, ctxDone, closer, panic, dropped,
                 sent, fanned, due, taken, last>>

(* Second half, a select: send, give up because the context is done, or drop
   the event when neither is possible.  A send on the closed channel panics. *)
PublishSend(p) ==
  /\ pub[p] # "idle" /\ ~closed /\ Len(input) < InputCap /\ sent < MaxEvents
  /\ input' = Append(input, [id |-> sent + 1, type |-> pub[p]])
  /\ sent' = sent + 1
  /\ pub' = [pub EXCEPT ![p] = "idle"]
  /\ UNCHANGED <<hand, running, sub, queue, closed, ctxDone, closer, panic, dropped, fanned,
                 due, taken, last>>

PublishGiveUp(p) ==
  /\ pub[p] # "idle"
  /\ ctxDone \/ Len(input) = InputCap
  /\ pub' = [pub EXCEPT ![p] = "idle"]
  /\ UNCHANGED <<input, hand, running, sub, queue, closed, ctxDone, closer, panic, dropped,
                 sent, fanned, due, taken, last>>

PublishOnClosed(p) == pub[p] # "idle" /\ closed /\ Panic("publish")

-----------------------------------------------------------------------------
(* Subscribe and SubscribeAll; neither looks at the closed flag. *)
Subscribe(c) ==
  /\ sub[c] = "none"
  /\ sub' = [sub EXCEPT ![c] = "listed"]
  /\ UNCHANGED <<pub, input, hand, running, queue, closed, ctxDone, closer, panic, dropped,
                 sent, fanned, due, taken, last>>

(* Unsubscribe: take the channel off the list and close it.  Close leaves the
   channels it shut in the list, so closing one again panics.  A SubscribeAll
   channel is not found. *)
Unsubscribe(c) ==
  /\ Topic[c] # All
  /\ \/ /\ sub[c] = "listed"
        /\ sub' = [sub EXCEPT ![c] = "removed"]
        /\ UNCHANGED <<pub, input, hand, running, queue, closed, ctxDone, closer, panic,
                       dropped, sent, fanned, due, taken, last>>
     \/ /\ sub[c] = "shut"
        /\ Panic("unsubscribe")

(* The subscriber receives; a closed channel still yields what it holds. *)
Receive(c) ==
  /\ queue[c] # <<>>
  /\ queue' = [queue EXCEPT ![c] = Tail(@)]
  /\ taken' = [taken EXCEPT ![c] = @ + 1]
  /\ last' = [last EXCEPT ![c] = Head(queue[c]).id]
  /\ UNCHANGED <<pub, input, hand, running, sub, closed, ctxDone, closer, panic, dropped,
                 sent, fanned, due>>

-----------------------------------------------------------------------------
(* dispatch: the select takes an event or sees the end of the context; when
   both are ready either may happen. *)
DispatchTake ==
  /\ running /\ hand = <<>> /\ input # <<>>
  /\ hand' = <<Head(input)>>
  /\ input' = Tail(input)
  /\ UNCHANGED <<pub, running, sub, queue, closed, ctxDone, closer, panic, dropped, sent,
                 fanned, due, taken, last>>

DispatchExit ==
  /\ running /\ hand = <<>> /\ ctxDone
  /\ running' = FALSE
  /\ UNCHANGED <<pub, input, hand, sub, queue, closed, ctxDone, closer, panic, dropped,
                 sent, fanned, due, taken, last>>

(* The channels on the lists that an event goes to. *)
Matching(ev) == {c \in Chans : /\ sub[c] \in {"listed", "shut"}
                               /\ Topic[c] \in {ev.type, All}}

(* A capacity check that is off by one, and the right one. *)
RoomForOneMore(c) == Len(queue[c]) <= SubCap

Room(c) == Len(queue[c]) < SubCap

(* The matching channels of ok get the event, the others count as dropped. *)
SendTo(ev, ok, drops) ==
  /\ queue' = [c \in Chans |-> IF c \in ok THEN Append(queue[c], ev) ELSE queue[c]]
  /\ dropped' = dropped + drops
  /\ due' = [c \in Chans |-> IF c \in Matching(ev) THEN due[c] + 1 ELSE due[c]]
  /\ fanned' = ev.id
  /\ hand' = <<>>
  /\ panic' = IF \E c \in Matching(ev) : sub[c] = "shut" THEN "fanout" ELSE panic
  /\ UNCHANGED <<pub, input, running, sub, closed, ctxDone, closer, sent, taken, last>>

(* A fanout that waits for room in every channel. *)
FanoutBlocks ==
  /\ hand # <<>>
  /\ \A c \in Matching(hand[1]) : Room(c)
  /\ SendTo(hand[1], Matching(hand[1]), 0)

(* A fanout that records one drop for all the full channels. *)
FanoutCountsOnce ==
  /\ hand # <<>>
  /\ LET ok == {c \in Matching(hand[1]) : Room(c)} IN
     SendTo(hand[1], ok, IF ok = Matching(hand[1]) THEN 0 ELSE 1)

(* A fanout that puts an event it could not place back into the input. *)
FanoutRequeues ==
  /\ hand # <<>>
  /\ LET ok == {c \in Matching(hand[1]) : Room(c)} IN
     /\ queue' = [c \in Chans |-> IF c \in ok THEN Append(queue[c], hand[1])
                                  ELSE queue[c]]
     /\ input' = IF ok # Matching(hand[1]) /\ Len(input) < InputCap
                 THEN Append(input, hand[1]) ELSE input
     /\ due' = [c \in Chans |-> IF c \in ok THEN due[c] + 1 ELSE due[c]]
  /\ fanned' = hand[1].id
  /\ hand' = <<>>
  /\ UNCHANGED <<pub, running, sub, closed, ctxDone, closer, panic, dropped, sent,
                 taken, last>>

(* fanout: every matching channel gets the event or, when it is full, a drop
   is recorded.  A send on a channel that is closed panics. *)
Fanout ==
  /\ hand # <<>>
  /\ LET ok == {c \in Matching(hand[1]) : Room(c)} IN
     SendTo(hand[1], ok, Cardinality(Matching(hand[1]) \ ok))

-----------------------------------------------------------------------------
(* Node.Stop cancels the context the bus derives its own from. *)
CancelParent ==
  /\ ~ctxDone
  /\ ctxDone' = TRUE
  /\ UNCHANGED <<pub, input, hand, running, sub, queue, closed, closer, panic, dropped, sent,
                 fanned, due, taken, last>>

(* Close, before and after its wait for the dispatcher. *)
CloseBegin ==
  /\ ~closed
  /\ closed' = TRUE /\ ctxDone' = TRUE /\ closer' = "waiting"
  /\ UNCHANGED <<pub, input, hand, running, sub, queue, panic, dropped, sent, fanned, due,
                 taken, last>>

(* Close that does not wait for the dispatcher. *)
CloseFinishAtOnce ==
  /\ closer = "waiting"
  /\ sub' = [c \in Chans |-> IF sub[c] = "listed" THEN "shut" ELSE sub[c]]
  /\ closer' = "done"
  /\ UNCHANGED <<pub, input, hand, running, queue, closed, ctxDone, panic, dropped, sent,
                 fanned, due, taken, last>>

CloseFinish ==
  /\ closer = "waiting" /\ ~running
  /\ sub' = [c \in Chans |-> IF sub[c] = "listed" THEN "shut" ELSE sub[c]]
  /\ closer' = "done"
  /\ UNCHANGED <<pub, input, hand, running, queue, closed, ctxDone, panic, dropped, sent,
                 fanned, due, taken, last>>

Dispatcher == DispatchTake \/ DispatchExit \/ Fanout

Next ==
  /\ Alive
  /\ \/ \E p \in Publishers, type \in Types : PublishCheck(p, type)
     \/ \E p \in Publishers : PublishSend(p) \/ PublishGiveUp(p) \/ PublishOnClosed(p)
     \/ \E c \in Chans : Subscribe(c) \/ Unsubscribe(c) \/ Receive(c)
     \/ Dispatcher
     \/ CancelParent \/ CloseBegin \/ CloseFinish

(* The dispatcher and the goroutine in Close are scheduled; nobody has to
   publish or to receive. *)
Spec == Init /\ [][Next]_vars /\ WF_vars(Alive /\ Dispatcher)
             /\ WF_vars(Alive /\ CloseFinish)

-----------------------------------------------------------------------------
(* Whoever publishes, a subscriber receives events in the order in which the
   input channel accepted them, and none twice (bus.go:286-306). *)
InOrder ==
  \A c \in Chans :
    LET seen == <<last[c]>> \o [i \in 1 .. Len(queue[c]) |-> queue[c][i].id] IN
    \A i, j \in 1 .. Len(seen) : i < j => seen[i] < seen[j]

(* "the cumulative number of events dropped because a subscriber channel was
   full" (bus.go:61-64): droppedCount is exactly what the subscribers did not
   get of the events fanned out while they were listed, the
   k-th event that c did not get being <<c, k>>. *)
DropsAccounted ==
  LET got(c) == taken[c] + Len(queue[c]) IN
  /\ \A c \in Chans : got(c) <= due[c]
  /\ dropped = Cardinality(UNION {{c} \X (1 .. due[c] - got(c)) : c \in Chans})

(* While the bus is open no order of publishing, subscribing, unsubscribing
   and dispatching crashes the process, and the dispatcher never sends on a
   channel that Close or Unsubscribe has closed: Close waits for it
   (bus.go:263-264).  What is left is a Publish between its check and its
   send, and an Unsubscribe after Close. *)
PanicsOnlyAfterClose ==
  panic # "none" => closed /\ panic \in {"publish", "unsubscribe"}

(* Slow subscribers lose events and hold nobody up: an accepted event is
   fanned out unless the bus is told to stop. *)
AcceptedAreFannedOut ==
  \A i \in 1 .. MaxEvents : sent >= i ~> (fanned >= i \/ ctxDone)

(* Close returns: the dispatcher leaves whatever it is doing. *)
CloseReturns == closer = "waiting" ~> (closer = "done" \/ ~Alive)
=============================================================================
