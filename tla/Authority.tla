----------------------------- MODULE Authority ------------------------------
(***************************************************************************)
(* Who may use what: secrets behind capabilities, and permissions with the  *)
(* transfers they allow.  The two share no state, so a behaviour is one of  *)
(* a single part.                                                           *)
(***************************************************************************)
EXTENDS Vaults, Transfers

VARIABLE part
vars == <<part, vaultVars, allTransferVars>>

Init ==
    /\ VaultsInit /\ TransfersInit
    /\ part \in {"secrets", "permissions"}
    /\ part = "secrets" => user = "download"
    /\ part = "permissions" => vault = "direct"

Next ==
    /\ \/ part = "secrets" /\ VaultsNext /\ UNCHANGED allTransferVars
       \/ part = "permissions" /\ TransfersNext /\ UNCHANGED vaultVars
    /\ UNCHANGED part

Spec == Init /\ [][Next]_vars
=============================================================================
