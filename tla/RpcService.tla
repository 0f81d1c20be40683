----------------------------- MODULE RpcService -----------------------------
(***************************************************************************)
(* What the RPC server promises a client that uses each id once: a request *)
(* it was asked is settled at most once, by its own result, by the notice  *)
(* that its worker crashed, or, silently, by a cancellation, and nothing   *)
(* happens to a request after that.  No loop, worker or thread is seen.    *)
(***************************************************************************)
CONSTANT Requests

VARIABLE state   \* what the client can tell of each request

Init == state = [r \in Requests |-> "new"]

Settle(r, s) ==
    /\ state[r] = "asked"
    /\ state' = [state EXCEPT ![r] = s]

Ask(r) ==
    /\ state[r] = "new"
    /\ state' = [state EXCEPT ![r] = "asked"]

Answer(r) == Settle(r, "answered")
Fail(r)   == Settle(r, "failed")
GiveUp(r) == Settle(r, "cancelled")

Next == \E r \in Requests : Ask(r) \/ Answer(r) \/ Fail(r) \/ GiveUp(r)

Spec == Init /\ [][Next]_state
=============================================================================
