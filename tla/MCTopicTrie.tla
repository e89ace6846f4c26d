--------------------------- MODULE MCTopicTrie ---------------------------
(* Instances of TopicTrie for TLC.                                         *)
EXTENDS TopicTrie, TLC

\* One name is the beginning of the other: they share nodes.
SharedPrefix == {<<97>>, <<97, 98>>}

LongOrEmpty == {<<97, 98>>, <<>>}

Symmetry == Permutations(Clients)
=============================================================================
