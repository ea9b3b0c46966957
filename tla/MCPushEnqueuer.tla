--------------------------- MODULE MCPushEnqueuer ---------------------------
(* An instance of PushEnqueuer for TLC. *)
EXTENDS PushEnqueuer

CONSTANTS a, b, t1, t2

(* Requests that name one enrollment, several, and one of them twice. *)
MCRequests == {<<a>>, <<a, b>>, <<a, b, a>>}

=============================================================================
