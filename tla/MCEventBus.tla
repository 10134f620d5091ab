----------------------------- MODULE MCEventBus -----------------------------
(* An instance of EventBus for TLC: a subscriber of one event type and one of
   all events. *)
EXTENDS EventBus

CONSTANTS one, every

McTopic == [c \in Chans |-> IF c = every THEN All ELSE "won"]
=============================================================================
