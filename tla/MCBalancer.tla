----------------------------- MODULE MCBalancer -----------------------------
(* Two backends, the first of them primary, both tagged.                    *)
EXTENDS Balancer

CONSTANTS a1, a2

Row(i, a, p) == [id |-> i, addr |-> a, primary |-> p, enabled |-> TRUE]

MCTables == {{Row(1, a1, TRUE), Row(2, a2, FALSE)}}

(* For the runs in which the administrator edits the table: no row, or one. *)
MCSmallTables == {{}, {Row(1, a1, TRUE)}}
=============================================================================
