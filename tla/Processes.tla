----------------------------- MODULE Processes -----------------------------
(***************************************************************************)
(* The supervisor with its channels, and a channel in the hands of its two  *)
(* ends.  They share no state, so a behaviour is one of a single part.      *)
(***************************************************************************)
EXTENDS ProcessSupervisor, IpcChannel

VARIABLE part

ProcessesInit ==
    /\ Init /\ ChannelInit
    /\ part \in {"supervisor", "channel"}

ProcessesNext ==
    /\ \/ part = "supervisor" /\ Next /\ UNCHANGED channelVars
       \/ part = "channel" /\ ChannelNext /\ UNCHANGED vars
    /\ UNCHANGED part

ProcessesSpec == ProcessesInit /\ [][ProcessesNext]_<<part, vars, channelVars>>
=============================================================================
