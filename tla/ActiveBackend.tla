--------------------------- MODULE ActiveBackend ---------------------------
(***************************************************************************)
(* What the choice of the active backend promises to the connections that  *)
(* are routed by it, without the goroutines that make it: it is moved only *)
(* by the start, by a choice among the listed backends that are up, which  *)
(* takes a best one, or by the administrator, whose choice stays until he  *)
(* takes it back; and in automatic mode it does not stay on a backend that *)
(* is down or gone while another one could serve.                          *)
(***************************************************************************)
EXTENDS Backend

VARIABLES
  active,    \* the address connections are routed to
  pinned,    \* the administrator's choice, NoAddr in automatic mode
  running,   \* the start has made its choice
  statuses, pings, backends  \* what a choice is made from; changes freely

activeVars == <<active, pinned, running>>
worldVars == <<statuses, pings, backends>>
vars == <<activeVars, worldVars>>

Serving == {a \in AddrsOf(backends) : statuses[a]}

(* A ping of 0 is no measurement, and is worse than any that is one.       *)
Slower(b, a) == pings[a] # 0 /\ (pings[b] = 0 \/ pings[b] > pings[a])

Best == {b \in Serving : \A a \in Serving : ~Slower(b, a)}

Init == active = NoAddr /\ pinned = NoAddr /\ ~running

(* The start looks at nobody's choice; it takes the first row when nothing *)
(* is up, and leaves all as it is when there is no row.                    *)
Start ==
  /\ ~running /\ running'
  /\ \/ active' \in Best
     \/ Serving = {} /\ \E r \in backends : IsFirst(r, backends) /\ active' = r.addr
     \/ backends = {} /\ UNCHANGED active
  /\ UNCHANGED <<pinned, worldVars>>

Choose ==
  /\ pinned = NoAddr
  /\ active' \in Best
  /\ UNCHANGED <<pinned, running, worldVars>>

Pin(a) ==
  /\ active' = a /\ pinned' = a
  /\ UNCHANGED <<running, worldVars>>

Release ==
  /\ pinned' = NoAddr
  /\ active' \in Best \/ (Serving = {} /\ UNCHANGED active)
  /\ UNCHANGED <<running, worldVars>>

World == UNCHANGED activeVars

Next == Start \/ Choose \/ (\E a \in Addrs : Pin(a)) \/ Release \/ World

Safety == Init /\ [][Next]_vars

(* Moving to a backend that is up, when the current one is not or is gone. *)
Rescue ==
  /\ running
  /\ pinned = NoAddr
  /\ active \notin Serving
  /\ active' \in Serving

Fairness == WF_active(Rescue)

Spec == Safety /\ Fairness
=============================================================================
