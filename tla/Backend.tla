------------------------------ MODULE Backend ------------------------------
(***************************************************************************)
(* The Backend row of models.go and the one query by which the balancer    *)
(* reads the table: what the other modules know of a backend server.       *)
(* A row keeps the columns the balancer decides by.                        *)
(***************************************************************************)
EXTENDS Integers

CONSTANTS
  Addrs,   \* the values of Addr(): "host:port" strings that name backends
  NoAddr,  \* the empty string
  MaxId    \* bound: the ids the table hands out

ASSUME NoAddrAssumption == NoAddr \notin Addrs
ASSUME MaxIdAssumption == MaxId \in Nat

Rows == [id : 1 .. MaxId, addr : Addrs, primary : BOOLEAN, enabled : BOOLEAN]

(* ORDER BY primary DESC, id ASC: r comes before s.                        *)
Before(r, s) == (r.primary /\ ~s.primary) \/ (r.primary = s.primary /\ r.id < s.id)

IsFirst(r, rows) == r \in rows /\ \A s \in rows \ {r} : Before(r, s)

(* WHERE enabled = true.                                                   *)
EnabledRows(table) == {r \in table : r.enabled}

AddrsOf(rows) == {r.addr : r \in rows}
=============================================================================
