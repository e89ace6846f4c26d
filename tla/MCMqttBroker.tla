--------------------------- MODULE MCMqttBroker ----------------------------
(* Instances of MqttBroker for TLC.                                        *)
EXTENDS MqttBroker, TLC

\* Transport addresses are interchangeable.
ConnSymmetry == Permutations(Conns)
=============================================================================
