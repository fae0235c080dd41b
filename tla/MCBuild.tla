------------------------------ MODULE MCBuild ------------------------------
(* Instances of BuildVersion for TLC.                                      *)
EXTENDS BuildVersion, TLC

(* Servers, applications and the requests of users are interchangeable. *)
Symmetry == Permutations(Server) \cup Permutations(App)
              \cup Permutations(Request \ Timer)
=============================================================================
