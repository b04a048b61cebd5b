---------------------------- MODULE MCAgentPage -----------------------------
EXTENDS AgentPage

Box(at, z, shown, hit) == [at |-> at, z |-> z, shown |-> shown, pointer |-> hit]
MCBoxes == {Box("here", 0, TRUE, TRUE), Box("here", 1, TRUE, FALSE), Box("there", 1, FALSE, TRUE)}

Policy(unknown) == [require_confirmation_for_unknown |-> unknown, allow_delete |-> FALSE,
                    allow_financial |-> FALSE, allow_security_changes |-> FALSE]
MCBrought == {<< >>, <<2>>}
MCPolicies == {Policy(TRUE), Policy(FALSE)}
=============================================================================
