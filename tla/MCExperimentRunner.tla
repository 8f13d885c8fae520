------------------------ MODULE MCExperimentRunner ------------------------
(* Small suites for ExperimentRunner: every experiment, first or second in *)
(* its suite, under every persistence the schema accepts for it.           *)
EXTENDS ExperimentRunner, TLC

MCScenarios ==
  {[experiments |-> e, persistence |-> p] :
     e \in {<<"retry_new_id", "suppress_completed_response">>,
            <<"cancel_on_progress", "parallel_new_ids">>},
     p \in {"external", "process"}}
  \cup
  {[experiments |-> e, persistence |-> "external"] :
     e \in {<<"rpc_id_reuse", "restart_after_suppressed_response">>,
            <<"disconnect_after_request_write_accepted",
              "cancel_on_progress">>}}

Symmetry == Permutations(Procs)

=============================================================================
