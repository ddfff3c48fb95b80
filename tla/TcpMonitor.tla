----------------------------- MODULE TcpMonitor -----------------------------
(***************************************************************************)
(* HealthChecker.Start closed with a network: backends become reachable    *)
(* and unreachable, the observatory and subscription checks write verdicts *)
(* of their own, and the ticker goroutine runs next to the initial loop    *)
(* that started it. Balancer.Start hands the statuses to the observatory   *)
(* before it calls HealthChecker.Start, and nothing ever takes them back.  *)
(***************************************************************************)
EXTENDS HealthChecker

CONSTANT MaxFlips  \* bound: how often the world changes

ASSUME MaxFlipsAssumption == MaxFlips \in Nat

VARIABLES
  prober,     \* where the ticker goroutine stands in its loop body
  reach,      \* which backends accept a TCP connection now
  unchecked,  \* the addresses the initial loop has not dialled yet
  sample,     \* the dial the initial loop has not stored yet
  flips       \* changes of the world so far

vars == <<healthVars, prober, reach, unchecked, sample, flips>>

NoSample == [addr |-> NoAddr, up |-> FALSE, ping |-> 0]

Resting == [at |-> "idle", addr |-> NoAddr, up |-> FALSE, ping |-> 0]

TypeOK ==
  /\ HealthTypeOK
  /\ prober \in [at : {"idle", "dialed"}, addr : Addrs \cup {NoAddr},
                 up : BOOLEAN, ping : Pings]
  /\ prober.at # "idle" => prober.addr \in Addrs
  /\ reach \in [Addrs -> BOOLEAN]
  /\ unchecked \subseteq Addrs
  /\ sample \in [addr : Addrs \cup {NoAddr}, up : BOOLEAN, ping : Pings]
  /\ flips \in 0 .. MaxFlips

(* ObservatoryWatcher.Start has already set the flag.                      *)
Init ==
  /\ statuses = [a \in Addrs |-> FALSE]
  /\ pings = [a \in Addrs |-> 0]
  /\ observatoryOK = TRUE
  /\ prober = Resting
  /\ reach \in [Addrs -> BOOLEAN]
  /\ unchecked = Addrs
  /\ sample = NoSample
  /\ flips = 0

-----------------------------------------------------------------------------
(* The network: a backend comes or goes.                                   *)
Flip(a) ==
  /\ flips < MaxFlips
  /\ flips' = flips + 1
  /\ reach' = [reach EXCEPT ![a] = ~@]
  /\ UNCHANGED <<healthVars, prober, unchecked, sample>>

(* Another writer of the map: the observatory reports a backend up or      *)
(* down, or a subscription check found its panel down.                     *)
Verdict(a, up) ==
  /\ flips < MaxFlips
  /\ flips' = flips + 1
  /\ SetStatus(a, up)
  /\ UNCHANGED <<pings, observatoryOK, prober, reach, unchecked, sample>>

InitialDial(a, ping) ==
  /\ sample = NoSample
  /\ a \in unchecked
  /\ CheckResult(reach[a], ping)
  /\ sample' = [addr |-> a, up |-> reach[a], ping |-> ping]
  /\ UNCHANGED <<healthVars, prober, reach, unchecked, flips>>

InitialKeep ==
  /\ sample # NoSample
  /\ InitialStore(sample.addr, sample.up, sample.ping)
  /\ unchecked' = unchecked \ {sample.addr}
  /\ sample' = NoSample
  /\ UNCHANGED <<prober, reach, flips>>

-----------------------------------------------------------------------------
(* The body of the ticker loop for one address. The dial takes as long as  *)
(* it takes, and its outcome is applied later.                             *)
ProbeDial(a, ping) ==
  /\ prober.at = "idle"
  /\ CheckResult(reach[a], ping)
  /\ prober' = [at |-> "dialed", addr |-> a, up |-> reach[a], ping |-> ping]
  /\ UNCHANGED <<healthVars, reach, unchecked, sample, flips>>

(* Mutant: a backend that did not answer keeps its old ping.               *)
ProbeKeep_OnlyAnswers ==
  /\ prober.at = "dialed"
  /\ observatoryOK
  /\ IF prober.up THEN SetPing(prober.addr, prober.ping) ELSE UNCHANGED pings
  /\ prober' = Resting
  /\ UNCHANGED <<statuses, observatoryOK, reach, unchecked, sample, flips>>

(* Only the ping is recorded: the flag is read under the lock, and as it   *)
(* is set the loop goes on with the next address. What follows in the body *)
(* (the verdict stored if it changed, the callback) is reached only with   *)
(* the flag clear, which Balancer.Start never leaves it.                   *)
ProbeKeep ==
  /\ prober.at = "dialed"
  /\ observatoryOK
  /\ SetPing(prober.addr, prober.ping)
  /\ prober' = Resting
  /\ UNCHANGED <<statuses, observatoryOK, reach, unchecked, sample, flips>>

Initial == InitialKeep \/ \E a \in Addrs, ping \in Pings : InitialDial(a, ping)

Dial(a) == \E ping \in Pings : ProbeDial(a, ping)

Next ==
  \/ \E a \in Addrs : Flip(a) \/ Dial(a) \/ \E up \in BOOLEAN : Verdict(a, up)
  \/ ProbeKeep
  \/ Initial

(* The ticker and the initial loop never stop and every dial ends within   *)
(* its timeout; each address gets its turn in every round of the loop.     *)
Fairness ==
  /\ WF_vars(ProbeKeep)
  /\ WF_vars(Initial)
  /\ \A a \in Addrs : SF_vars(Dial(a))

Spec == Init /\ [][Next]_vars /\ Fairness

-----------------------------------------------------------------------------
(* Once the network is quiet, a backend that does not answer dials ranks   *)
(* last, whoever decides statuses: the ping it had while it answered does  *)
(* not survive, though the initial loop and the ticker write the map from  *)
(* dials that overlap (health.go:114, 142). With the observatory in charge *)
(* this is all a dial can do against a backend that is dead but not        *)
(* reported so.                                                            *)
SilentRanksLast ==
  \A a \in Addrs : <>[](~reach[a] => Rank(a) = 9999)

(* observatory.go:108 logs, before any TCP check runs: "Observatory mode   *)
(* active, TCP health checks will not override status". So no dial, of the *)
(* ticker or of the initial loop, changes a status.                        *)
TcpNeverOverrides ==
  [][observatoryOK /\ (prober' # prober \/ sample' # sample)
       => UNCHANGED statuses]_vars
=============================================================================
