---------------------------- MODULE BrowserData -----------------------------
(***************************************************************************)
(* What a browser keeps for its user: the profiles, the windows and tabs of *)
(* a workspace, and the stores and the network of a profile.  They share no *)
(* state, so a behaviour is one of a single part.                           *)
(***************************************************************************)
EXTENDS ProfileStores, Network, Profiles, Workspace

VARIABLE part
vars == <<part, storeVars, netVars, profileVars, workspaceVars>>

Init ==
    /\ StoresInit /\ NetworkInit /\ ProfilesInit /\ WorkspaceInit
    /\ part \in {"storage", "databases", "caches", "network", "workers", "profiles", "workspace", "locks"}
    /\ part \notin {"network", "workers"} => config = CHOOSE c \in Configs : TRUE

Next ==
    /\ \/ /\ \/ part = "storage" /\ StorageNext
             \/ part = "databases" /\ DatabaseNext
             \/ part = "caches" /\ CacheNext
          /\ UNCHANGED <<netVars, profileVars, workspaceVars>>
       \/ /\ \/ part = "network" /\ NetworkNext
             \/ part = "workers" /\ WorkersNext
          /\ UNCHANGED <<storeVars, profileVars, workspaceVars>>
       \/ /\ part = "profiles" /\ ProfilesNext
          /\ UNCHANGED <<storeVars, netVars, workspaceVars>>
       \/ /\ \/ part = "workspace" /\ WorkspaceNext
             \/ part = "locks" /\ LocksNext
          /\ UNCHANGED <<storeVars, netVars, profileVars>>
    /\ UNCHANGED part

Spec == Init /\ [][Next]_vars
=============================================================================
