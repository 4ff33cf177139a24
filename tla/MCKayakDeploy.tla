--------------------------- MODULE MCKayakDeploy ---------------------------
(* Three releases, the last of which brings a migration. *)
EXTENDS KayakDeploy, TLC

CONSTANTS r1, r2, r3

MCLevel == r1 :> 0 @@ r2 :> 1 @@ r3 :> 1
=============================================================================
