----------------------------- MODULE MCAllMulti -----------------------------
(* Instances of AllMulti for TLC. *)
EXTENDS AllMulti, TLC

MCKinds == [Stores -> {"sql", "file"}] \ {[s \in Stores |-> "sql"]}

=============================================================================
