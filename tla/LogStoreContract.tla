--------------------------- MODULE LogStoreContract ---------------------------
(***************************************************************************)
(* What the trait LogStore asks of every implementation: a commit becomes  *)
(* visible atomically, one writer creates the commit of a version, and     *)
(* what was written stays visible.  The log is the sequence of the entries *)
(* of versions 1, 2, ...; an entry names the operation that wrote it.      *)
(* acked holds the operations whose writer was told that it committed.     *)
(***************************************************************************)
EXTENDS Naturals, Sequences

CONSTANT Ops

VARIABLES entries, acked

Init == entries = << >> /\ acked = {}

\* An operation creates the entry of the next version.
Write(o) == entries' = Append(entries, o) /\ UNCHANGED acked

\* Its writer learns of it, later, or at the same instant, or never.
Acknowledge(o) ==
    /\ \E v \in DOMAIN entries' : entries'[v] = o
    /\ acked' = acked \cup {o}
    /\ entries' \in {entries} \cup {Append(entries, p) : p \in Ops}

Next == \E o \in Ops : Write(o) \/ Acknowledge(o)

Spec == Init /\ [][Next]_<<entries, acked>>
===============================================================================
