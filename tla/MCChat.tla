------------------------------- MODULE MCChat -------------------------------
(* Instances of Chat for TLC.                                              *)
EXTENDS Chat

CONSTANTS s1, w1, d1, d2, d3, n1, n2

(* A stream with a watcher; two chats that tick the scheduler for each     *)
(* other, about two nodes or about one.                                    *)
Both == {{s1, w1}, {d1, d2}, {d2, d3}}

Nodes == [c \in Direct |-> IF c = d1 THEN n1 ELSE n2]
=============================================================================
