------------------------------ MODULE Lifecycle ------------------------------
(***************************************************************************)
(* The state machine every capsule goes through (capsule/lifecycle.go):    *)
(* the statuses, the triggers, and the table that buildMachine configures. *)
(* A trigger that the table does not list for the current state is refused *)
(* with an error and changes nothing.                                      *)
(***************************************************************************)

(* CapsuleStatus; every value is Valid(), the empty string is not. *)
Statuses == {"created", "announced", "electing", "assigned",
             "executing", "running", "stopping", "stopped"}

Triggers == {"announce", "election_started", "election_won",
             "election_timeout", "execution_started", "execution_failed",
             "container_ready", "stop_requested", "container_stopped",
             "node_failed", "scale_up_needed", "scale_down_needed"}

(* The edges <<from, trigger, to>> of buildMachine. *)
Edges == {<<"created",   "announce",          "announced">>,
          <<"announced", "election_started",  "electing">>,
          <<"electing",  "election_won",      "assigned">>,
          <<"electing",  "election_timeout",  "announced">>,
          <<"assigned",  "execution_started", "executing">>,
          <<"assigned",  "execution_failed",  "announced">>,
          <<"executing", "container_ready",   "running">>,
          <<"executing", "execution_failed",  "announced">>,
          <<"running",   "stop_requested",    "stopping">>,
          <<"running",   "node_failed",       "announced">>,
          <<"running",   "scale_up_needed",   "announced">>,
          <<"running",   "scale_down_needed", "stopping">>,
          <<"stopping",  "container_stopped", "stopped">>,
          <<"stopped",   "announce",          "announced">>}

(* Fire(trigger) in state s may reach state u. *)
Permit(s, trigger, u) == <<s, trigger, u>> \in Edges
=============================================================================
