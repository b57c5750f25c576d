--------------------------- MODULE MCExExtStream ---------------------------
(* ExExtStream for TLC: two keys and a packet longer than a return block. *)
EXTENDS ExExtStream

Key == <<[len |-> 2, key |-> TRUE], [len |-> 0, key |-> FALSE]>>
Long == <<[len |-> 5, key |-> FALSE]>> \o [i \in 1 .. 4 |-> [len |-> 0, key |-> FALSE]]
MCReturn == Key \o Key \o Long
========================================================================
