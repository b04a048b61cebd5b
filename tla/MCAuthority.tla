---------------------------- MODULE MCAuthority -----------------------------
EXTENDS Authority, TLC

MCLifetimes == {None, 1}

\* Beside no policy at all: nothing is allowed longer than no time.
MCPolicies == {[allowed_purposes |-> Purposes, max_lifetime_seconds |-> 0]}

\* No limit, none at all, and one second.
MCGrantLifetimes == {{}, {0}, {1}}

\* The Uuids of secrets, capabilities and transfers are interchangeable, as are profiles.
FreshIds == Permutations(Handles) \cup Permutations(Refs) \cup Permutations(Profiles)
            \cup Permutations(Ids)
=============================================================================
