------------------------------ MODULE MCServer ------------------------------
EXTENDS Server

CONSTANT IdleSeconds   \* --idle-shutdown-seconds

\* With and without a live browser, with and without idle shutdown.
MCConfigs == [live : BOOLEAN, fingerprint : {None}, idle : {None, IdleSeconds}]

IdleConfigs == [live : {FALSE}, fingerprint : {None}, idle : {IdleSeconds}]
=============================================================================
