----------------------------- MODULE MCServices -----------------------------
(***************************************************************************)
(* What a Run is made of besides its scheduler and agents, one part at a   *)
(* time for TLC: its story and approvals, the lock of its workspace, its   *)
(* plan, the comparison of its artifacts, its local commands and its MCP   *)
(* servers.  The parts share no state, so each behaviour is one of one of  *)
(* them, the others at rest.                                               *)
(***************************************************************************)
EXTENDS RunStory, WorkspaceLock, Plans, TextDiff, Execution, McpBridge

VARIABLE part

servicesVars == <<part, storyVars, lockVars, planVars, diffVars, execVars, bridgeVars>>

ThreeServers == <<"files", "web", "more">>
UpToThreeSources == {<<>>, <<"s1">>, <<"s1", "s2">>, <<"s1", "s2", "s3">>}
TwoAndOneProcesses == [u \in Callers |-> IF u = "b1" THEN "B" ELSE "A"]
SourcePaths == {[segments |-> s, dir |-> d] : s \in {<<"src">>, <<"src", "a">>}, d \in BOOLEAN}
SourceFiles == {<<"src">>, <<"src", "a">>, <<"src", "a", "x">>}

\* A part at rest has one initial state.
ServicesInit ==
    /\ part \in {"story", "lock", "plans", "diff", "execution", "bridge"}
    /\ StoryInit /\ LockInit
    /\ PlanInit /\ (part # "plans" => planMode = "research" /\ selected = <<>>)
    /\ ExecInit /\ (part # "execution" => host = "seatbelt")
    /\ BridgeInit /\ (part # "bridge" => record = Empty)
    /\ DiffInit /\ (part # "diff" => before = <<"x">> /\ after = <<"x">>)

ServicesNext ==
    \/ part = "story" /\ StoryNext /\ UNCHANGED <<part, lockVars, planVars, diffVars, execVars, bridgeVars>>
    \/ part = "lock" /\ LockNext /\ UNCHANGED <<part, storyVars, planVars, diffVars, execVars, bridgeVars>>
    \/ part = "plans" /\ PlanNext /\ UNCHANGED <<part, storyVars, lockVars, diffVars, execVars, bridgeVars>>
    \/ part = "diff" /\ Compared /\ UNCHANGED <<part, storyVars, lockVars, planVars, execVars, bridgeVars>>
    \/ part = "execution" /\ ExecNext /\ UNCHANGED <<part, storyVars, lockVars, planVars, diffVars, bridgeVars>>
    \/ part = "bridge" /\ BridgeNext /\ UNCHANGED <<part, storyVars, lockVars, planVars, diffVars, execVars>>

ServicesSpec == ServicesInit /\ [][ServicesNext]_servicesVars
=============================================================================
