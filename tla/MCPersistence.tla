---------------------------- MODULE MCPersistence ----------------------------
(* What a node and a gateway keep: requests of the storage manager with      *)
(* crashes, or with failing file operations and dropped handlers; its locks; *)
(* and the deployments of a gateway with Redis.  A behaviour exercises the   *)
(* part it has chosen, the others keep their initial state.                  *)
EXTENDS NodeStorageCrash, StorageLocks, Deployments, TLC

CONSTANTS t1, t2, t3, a, b, f, g, c1, c2, r1

VARIABLE part

\* Contents a and b are uploads of one fragment each; or b is a manifest that
\* lists the fragment of a too.
TwoManifests == a :> <<f>> @@ b :> <<g>>
Shared       == a :> <<f>> @@ b :> <<g, f>>
TwoSizes     == f :> 1 @@ g :> 2
DeclaredTwo  == a :> 1 @@ b :> 2

Fs == INSTANCE NodeStorage WITH
        Task <- {t1, t2}, Frag <- {f, g}, Content <- {a, b}, FragsOf <- Shared,
        Size <- TwoSizes, DeclaredSize <- DeclaredTwo, MaxSize <- 2, Capacity <- 3,
        ScanBudget <- 2, GcTargets <- {}, DiskFaults <- TRUE, Disconnects <- TRUE,
        MaxRequests <- 3

\* Two deploys or deletions of which everything may fail; Deployments itself
\* has three of which nothing fails.
Df == INSTANCE Deployments WITH Faults <- TRUE, MaxJobs <- 2

PartsInit ==
    /\ part \in {"crashes", "faults", "locks", "deployments", "interrupted"}
    /\ CrashInit /\ LocksInit /\ DeployInit
    /\ doing = [u \in Worker |-> "pin"]
    /\ part \notin {"deployments", "interrupted"} => head = [r \in Repo |-> c1]

PartsNext ==
    /\ UNCHANGED part
    /\ \/ part = "crashes" /\ CrashNext /\ UNCHANGED <<lockVars, deployVars>>
       \/ part = "faults" /\ Fs!Next
          /\ UNCHANGED <<crashes, acked, ackedPins, lockVars, deployVars>>
       \/ part = "locks" /\ LocksNext /\ UNCHANGED <<crashVars, deployVars>>
       \/ part = "deployments" /\ DeployNext /\ UNCHANGED <<crashVars, lockVars>>
       \/ part = "interrupted" /\ Df!DeployNext /\ UNCHANGED <<crashVars, lockVars>>

PartsSpec == PartsInit /\ [][PartsNext]_<<part, crashVars, lockVars, deployVars>>

Symmetry == Permutations({t1, t2}) \cup Permutations({c1, c2})
=============================================================================
