-------------------------- MODULE MCAgentSessions ---------------------------
EXTENDS AgentSessions, TLC

MCPolicies == {[capabilities |-> {"Render", "ExecuteAgentScript", "SolveChallenge"},
                allow_unattended_solve |-> unattended] : unattended \in BOOLEAN}
MCGrants == {{"Render", "ExecuteAgentScript"}, {"ExecutePageScript"}}
MCSolverGrants == {{"SolveChallenge"}, {"SolveChallenge", "CredentialSolve"}}
MCLimits == {[max_actions |-> 2, max_events |-> 1, max_output_bytes |-> 1,
              max_runtime_millis |-> 2]}
MCNothing == {[max_actions |-> 0, max_events |-> 0, max_output_bytes |-> 0,
               max_runtime_millis |-> 2]}

\* Takeover ids are interchangeable.
TakeoverSymmetry == Permutations(Takeovers)
=============================================================================
