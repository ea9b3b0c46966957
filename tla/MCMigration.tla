---------------------------- MODULE MCMigration ----------------------------
(* Instances of Migration: one device with one user channel.               *)
EXTENDS Migration, TLC
CONSTANTS d1, u1
MCParent == [u \in Users |-> d1]
MCMaxSent == [b \in Backends |-> IF b = "kv" THEN 4 ELSE 3]
MCTwo == [b \in Backends |-> 2]
=============================================================================
