------------------------ MODULE MCPollingSimulation -------------------------
(* An instance of PollingSimulation for TLC. *)
EXTENDS PollingSimulation

MCConfig == [poll_interval |-> 1, grace_period |-> 1,
             max_items_per_poll |-> 2, worker_capacity |-> 1]

Call(start, complete, emit_retrieval, retrieve_count) ==
    [start |-> start, complete |-> complete, emit_retrieval |-> emit_retrieval,
     retrieve_count |-> retrieve_count]

\* The polls of the scenarios, with no, a partial, and a zero batch size.
MCCalls == {Call(TRUE, FALSE, TRUE, None), Call(FALSE, FALSE, TRUE, 0),
            Call(FALSE, FALSE, TRUE, 1), Call(TRUE, TRUE, FALSE, None)}
=============================================================================
