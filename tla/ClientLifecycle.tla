-------------------------- MODULE ClientLifecycle --------------------------
(***************************************************************************)
(* What the broker promises about the life of one client object, without   *)
(* threads, queues or addresses: a client is admitted while there is room, *)
(* serves until its connection ends, and is destroyed only after that.     *)
(***************************************************************************)
EXTENDS Naturals, FiniteSets

CONSTANTS
    Clients,    \* client numbers, in the order of admission
    Capacity    \* clients served at once

VARIABLE phase

Serving == {c \in Clients : phase[c] = "serving"}

Init == phase = [c \in Clients |-> "absent"]

\* A new connection gets the next number if fewer than Capacity are served.
Admit(c) ==
    /\ phase[c] = "absent"
    /\ \A d \in Clients : phase[d] = "absent" => c <= d
    /\ Cardinality(Serving) < Capacity
    /\ phase' = [phase EXCEPT ![c] = "serving"]

\* The connection of a served client ends.
Depart(c) ==
    /\ phase[c] = "serving"
    /\ phase' = [phase EXCEPT ![c] = "departed"]

\* The object of a client whose connection has ended is destroyed.
Destroy(c) ==
    /\ phase[c] = "departed"
    /\ phase' = [phase EXCEPT ![c] = "destroyed"]

Next == \E c \in Clients : Admit(c) \/ Depart(c) \/ Destroy(c)

Spec == Init /\ [][Next]_phase
=============================================================================
