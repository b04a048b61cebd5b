--------------------------- MODULE MCCommandLine ----------------------------
EXTENDS CommandLine, TLC

MCCorpora ==
    LET site(id, enabled) == [id |-> id, enabled |-> enabled]
    IN {<<site("a", TRUE), site("b", TRUE)>>, <<site("b", TRUE), site("c", FALSE)>>,
        <<site("a", TRUE), site("a", TRUE), site("b", FALSE)>>}

MCAddress == [d \in 0 .. 3 |-> IF d = 2 THEN 1 ELSE d]

MCFlags == {{}, {"click"}, {"click", "probe"}, {"auto-solve", "probe"}}

\* Nothing prefers one error text to another.
MCSymmetry == Permutations(Errors)
=============================================================================
