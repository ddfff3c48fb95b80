--------------------------- MODULE HealthChecker ---------------------------
(***************************************************************************)
(* The HealthChecker of health.go: the status and ping maps that every     *)
(* other part of the balancer reads and writes under h.mu, and the choice  *)
(* of the best backend. The module has no behaviour of its own: TcpMonitor *)
(* closes it with the goroutines of Start and a network, Balancer with the *)
(* rest of the program.                                                    *)
(***************************************************************************)
EXTENDS Backend

CONSTANT MaxPing  \* bound: the largest round trip a dial measures, in ms

ASSUME MaxPingAssumption == MaxPing \in Nat

VARIABLES
  statuses,       \* addr -> last verdict (an absent key reads as FALSE)
  pings,          \* addr -> last round trip (an absent key reads as 0)
  observatoryOK   \* the observatory, not the dialler, decides statuses

healthVars == <<statuses, pings, observatoryOK>>

Pings == 0 .. MaxPing

HealthTypeOK ==
  /\ statuses \in [Addrs -> BOOLEAN]
  /\ pings \in [Addrs -> Pings]
  /\ observatoryOK \in BOOLEAN

HealthInit ==
  /\ statuses = [a \in Addrs |-> FALSE]
  /\ pings = [a \in Addrs |-> 0]
  /\ observatoryOK = FALSE

-----------------------------------------------------------------------------
IsUp(a) == a \in Addrs /\ statuses[a]

(* Mutant: a ping of 0 counts as the best there is.                        *)
Rank_Raw(a) == pings[a]

(* The key the candidates are sorted by: a ping of 0 counts as 9999.       *)
Rank(a) == IF pings[a] = 0 THEN 9999 ELSE pings[a]

(* The addresses BestUp may return for the list of addresses S: the ones   *)
(* with the smallest key among those that are up, or the empty string. A   *)
(* tie is broken either way: sort.Slice promises no order, and what few    *)
(* values of ping the model has stand for many.                            *)
BestUp(S) ==
  LET up == {a \in S : IsUp(a)}
  IN  IF up = {} THEN {NoAddr}
      ELSE {a \in up : \A b \in up : Rank(a) <= Rank(b)}

SetStatus(a, up) == statuses' = [statuses EXCEPT ![a] = up]

(* Mutant: a sum in place of the last measure.                             *)
SetPing_Adds(a, ping) == pings' = [pings EXCEPT ![a] = @ + ping]

SetPing(a, ping) == pings' = [pings EXCEPT ![a] = ping]

(* Check(addr) answers FALSE and no latency, or TRUE and a latency that    *)
(* truncates to 0 when the dial took less than a millisecond.              *)
CheckResult(up, ping) == up \in BOOLEAN /\ ping \in (IF up THEN Pings ELSE {0})

(* The loop body that Start runs itself for each address, after it started *)
(* the ticker: the verdict is stored whatever the observatory flag says.   *)
InitialStore(a, up, ping) ==
  /\ SetStatus(a, up)
  /\ SetPing(a, ping)
  /\ UNCHANGED observatoryOK

SetObservatoryOK ==
  /\ observatoryOK' = TRUE
  /\ UNCHANGED <<statuses, pings>>
=============================================================================
