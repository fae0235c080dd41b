---------------------------- MODULE MCDeployment ----------------------------
(* Instances of DeploymentLifecycle for TLC.                               *)
EXTENDS DeploymentLifecycle, TLC

(* Threads, rows, environments that agree on approval and merging, and     *)
(* handlers are interchangeable.                                           *)
Symmetry == Permutations(Thread) \cup Permutations(Detail)
              \cup Permutations(Handler)
=============================================================================
