---------------------------- MODULE MCAgentLoop ----------------------------
(* Instances of AgentLoop for TLC. *)
EXTENDS AgentLoop, TLC

CONSTANTS read, write, artifact, i1, i2

\* A worker: one reading call and one writing call that the user is asked about.
WorkerCalls == {read, write}
WorkerIds == {i1, i2}
WorkerCallId == (read :> i1) @@ (write :> i2)
WorkerWrites == {write}

\* The reviewer sends candidate after candidate back, each a call of its own.
ReviewCalls == {artifact, write}
ReviewSharedId == (artifact :> i1) @@ (write :> i1)

None == {}
=============================================================================
