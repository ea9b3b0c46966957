----------------------------- MODULE MCNanoMDM -----------------------------
(* Instances of NanoMDM for TLC. *)
EXTENDS NanoMDM, TLC

CONSTANTS d1, u1

MCNoUsers == [u \in {} |-> d1]
MCOneUser == [u \in {u1} |-> d1]

MCEnroll  == {"Authenticate", "TokenUpdate", "CheckOut", "CommandResults"}
MCAll == CheckIns \cup {"CommandResults"}
MCThreads == Permutations(Threads)
=============================================================================
