------------------------------ MODULE MCOutbox ------------------------------
(* Instances of Outbox for TLC.                                            *)
EXTENDS Outbox

\* The tasks of the program, and what each sends to one client.
Net    == "net"       \* CONNACK, PINGRESP
Worker == "worker"    \* PUBLISH, SUBACK
BothTasks == {Net, Worker}
=============================================================================
