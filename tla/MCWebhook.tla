------------------------------ MODULE MCWebhook ------------------------------
(* An instance of Webhook: one device with one user.                       *)
EXTENDS Webhook, TLC

CONSTANTS d1, u1

MCParent == [u \in Users |-> d1]

MCMessages == {"Authenticate", "TokenUpdate", "CheckOut"}

MCMaxSent == [b \in Backends |-> 2]

MCGoroutines == 1 .. 2
=============================================================================
