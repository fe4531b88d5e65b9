-------------------------- MODULE StrategyLifecycle --------------------------
(***************************************************************************)
(* The lifecycle of a strategy (state/mod.rs, state/registry.rs and        *)
(* state/coordinator.rs): the registry's state, which follows a table, and *)
(* the coordinator's tracker of it.  Each operator is one call of the      *)
(* coordinator, made by the one thread that runs the strategy.  An error   *)
(* leaves what was reached: callers print it and go on.                    *)
(***************************************************************************)

States == {"Undefined", "SetDefaults", "Configure", "Active", "DataLoaded",
           "Historical", "Transition", "Realtime", "Terminated", "Faulted",
           "Finalized"}

\* Registry state; and the tracker: its copy of the state and its two flags.
Tracked == [state : States, current : States, firstData : BOOLEAN,
            warm : BOOLEAN]

ValidTransitions ==
  [s \in States |->
     CASE s = "Undefined" -> {"SetDefaults"}
       [] s = "SetDefaults" -> {"Configure"}
       [] s = "Configure" -> {"Active", "DataLoaded", "Faulted"}
       [] s = "Active" -> {"Terminated", "Faulted"}
       [] s = "DataLoaded" -> {"Historical", "Faulted"}
       [] s = "Historical" -> {"Transition", "Terminated", "Faulted"}
       [] s = "Transition" -> {"Realtime", "Faulted"}
       [] s = "Realtime" -> {"Terminated", "Faulted"}
       [] s = "Terminated" -> {"Finalized"}
       [] OTHER -> {}]

TransitionTo(t, target) ==
  IF target \in ValidTransitions[t.state]
  THEN [t EXCEPT !.state = target, !.current = target] ELSE t

\* register_strategy, then initialize_strategy.
Registered == [state |-> "Undefined", current |-> "Undefined",
               firstData |-> FALSE, warm |-> FALSE]
Initialized == TransitionTo(TransitionTo(Registered, "SetDefaults"), "Configure")

\* enter_data_processing: nothing when the first of its two steps fails.
EnterData(t) ==
  IF "DataLoaded" \in ValidTransitions[t.state]
  THEN TransitionTo([TransitionTo(t, "DataLoaded") EXCEPT !.firstData = TRUE],
                    "Historical")
  ELSE t

\* terminate_strategy: only where the table has the step.
Terminate(t) == TransitionTo(t, "Terminated")

=============================================================================
