------------------------------- MODULE Fleet -------------------------------
(***************************************************************************)
(* What the process supervisor promises its callers, without handles, error *)
(* paths, sequence numbers or return values: of every kind at most one      *)
(* process runs, and every route is a bounded first-in first-out inbox that *)
(* only lawful messages enter, whatever happens to the processes.           *)
(***************************************************************************)
EXTENDS Naturals, Sequences

CONSTANTS Kinds, Routes,
          Lawful,   \* the messages that may cross a route
          Bound     \* how many of them an inbox holds

VARIABLES running,  \* how many processes of each kind are alive
          inbox     \* what was posted on each route and not delivered

vars == <<running, inbox>>

Init ==
    /\ running = [k \in Kinds |-> 0]
    /\ inbox = [r \in Routes |-> << >>]

Start(k) ==
    /\ running[k] = 0
    /\ running' = [running EXCEPT ![k] = 1]
    /\ UNCHANGED inbox

End(k) ==
    /\ running[k] = 1
    /\ running' = [running EXCEPT ![k] = 0]
    /\ UNCHANGED inbox

Post(m) ==
    LET r == <<m.source, m.destination>>
    IN /\ Len(inbox[r]) < Bound
       /\ inbox' = [inbox EXCEPT ![r] = Append(@, m)]
       /\ UNCHANGED running

Deliver(r) ==
    /\ inbox[r] # << >>
    /\ inbox' = [inbox EXCEPT ![r] = Tail(@)]
    /\ UNCHANGED running

Next ==
    \/ \E k \in Kinds : Start(k) \/ End(k)
    \/ \E m \in Lawful : Post(m)
    \/ \E r \in Routes : Deliver(r)

Spec == Init /\ [][Next]_vars
=============================================================================
