------------------------------ MODULE MCCommit ------------------------------
(* Small instances of CommitProtocol.                                      *)
EXTENDS CommitProtocol, TLC

\* A table with the protocol of a new one, or none yet.
Legacy == [reader |-> 1, writer |-> 2, features |-> {}]
LegacyTable == {Legacy}
NoTable == {}

\* A table whose writers need no feature, not even the legacy ones.
OldestTable == {[Legacy EXCEPT !.writer = 1]}

\* Invocations are interchangeable.
WriterSymmetry == Permutations(Txns)
=============================================================================
