------------------------------ MODULE Balancer ------------------------------
(***************************************************************************)
(* The Balancer of balancer.go with the goroutines that share it: the one  *)
(* of Start (startup, then a round every interval), the tail of xray's     *)
(* observatory log and the callbacks it spawns, the ticker that pings, and *)
(* the requests of the admin panel. It joins HealthChecker (statuses and   *)
(* pings under h.mu) and BackendTable (the table and the copy b.backends). *)
(*                                                                         *)
(* A section under b.mu is one step: all b fields except manualMode are    *)
(* read and written under b.mu only, and the single thing a section reads  *)
(* that others write meanwhile is BestUp, one atomic read under h.mu, so   *)
(* the section can be taken to happen at that read. What is NOT under b.mu *)
(* has steps of its own: the unlocked reads of manualMode, the comparison  *)
(* with GetActive and the failover it leads to, the query of a reload and  *)
(* its assignment, the log line's read of a status and its write.          *)
(***************************************************************************)
EXTENDS HealthChecker, BackendTable

CONSTANTS
  Tagged,    \* the addresses with a "proxy-" outbound in xray's config file
  Notifiers  \* bound: observatory callbacks in flight at once

ASSUME TaggedAssumption == Tagged \subseteq Addrs

VARIABLES
  currentAddr, manualMode, manualAddr,
  lastSyncedAddr,  \* the address syncXrayLocked was last called with
  tcpAddrs,        \* what the pinging ticker was given at startup
  runner,          \* the goroutine of Start
  tail,            \* the goroutine that tails the observatory's log
  notifier,        \* slot -> a callback spawned by notifyChange
  stranded         \* history: the last choice of a backend found none up

balancerVars == <<currentAddr, manualMode, manualAddr, lastSyncedAddr, stranded>>
vars == <<healthVars, tableVars, balancerVars, tcpAddrs, runner, tail, notifier>>

(* round: before selectInitial, the first check after it, or the loop.     *)
(* at "compare" and "failover" the row in hand is the one just found down. *)
RunnerAt == {"scan", "list", "dial", "copy", "subs", "compare", "failover",
             "initial", "tick", "queried", "decide", "best"}
Rounds == {"startup", "warm", "loop"}

NoNotice == [at |-> "idle", addr |-> NoAddr]
NoLine == [at |-> "idle", addr |-> NoAddr, alive |-> FALSE]

BalancerTypeOK ==
  /\ {currentAddr, manualAddr, lastSyncedAddr} \subseteq Addrs \cup {NoAddr}
  /\ manualMode \in BOOLEAN /\ stranded \in BOOLEAN

RunnerTypeOK ==
  /\ tcpAddrs \subseteq Addrs
  /\ runner \in [at : RunnerAt, round : Rounds, dials : SUBSET Addrs,
                 todo : SUBSET Rows, down : Addrs \cup {NoAddr}]

CallbackTypeOK ==
  /\ tail \in [at : {"idle", "set"}, addr : Addrs \cup {NoAddr}, alive : BOOLEAN]
  /\ tail.at = "set" => tail.addr \in Addrs
  /\ notifier \in [Notifiers -> [at : {"idle", "new", "seen", "armed"},
                                 addr : Addrs \cup {NoAddr}]]

TypeOK ==
  HealthTypeOK /\ TableTypeOK /\ BalancerTypeOK /\ RunnerTypeOK /\ CallbackTypeOK

Started == runner.round # "startup"

Init ==
  /\ HealthInit
  /\ TableInit
  /\ currentAddr = NoAddr /\ manualAddr = NoAddr /\ lastSyncedAddr = NoAddr
  /\ manualMode = FALSE /\ stranded = FALSE
  /\ tcpAddrs = {}
  /\ runner = [at |-> "scan", round |-> "startup", dials |-> {}, todo |-> {}, down |-> NoAddr]
  /\ tail = NoLine
  /\ notifier = [n \in Notifiers |-> NoNotice]

-----------------------------------------------------------------------------
(* The sections under b.mu.                                                *)

(* currentAddr becomes a; syncXrayLocked records a whether or not xray can *)
(* be told of it: the record comes before the attempt, balancer.go:311     *)
(* (XraySync models the attempt).                                          *)
Route(a) == currentAddr' = a /\ lastSyncedAddr' = a

Candidates == AddrsOf(backends)

(* Mutants: failover moves without a sync; failover trusts the unlocked    *)
(* reads of manualMode its callers made.                                   *)
Failover_NoSync ==
  IF manualMode
  THEN UNCHANGED balancerVars
  ELSE \E best \in BestUp(Candidates) :
         /\ stranded' = (best = NoAddr)
         /\ currentAddr' = IF best = NoAddr THEN currentAddr ELSE best
         /\ UNCHANGED <<manualMode, manualAddr, lastSyncedAddr>>

Failover_NoRecheck ==
  \E best \in BestUp(Candidates) :
    /\ stranded' = (best = NoAddr)
    /\ IF best \in {NoAddr, currentAddr} THEN UNCHANGED <<currentAddr, lastSyncedAddr>>
       ELSE Route(best)
    /\ UNCHANGED <<manualMode, manualAddr>>

(* failover(): no sync unless the backend changes.                         *)
Failover ==
  IF manualMode
  THEN UNCHANGED balancerVars
  ELSE \E best \in BestUp(Candidates) :
         /\ stranded' = (best = NoAddr)
         /\ IF best \in {NoAddr, currentAddr} THEN UNCHANGED <<currentAddr, lastSyncedAddr>>
            ELSE Route(best)
         /\ UNCHANGED <<manualMode, manualAddr>>

(* selectBestUnlocked(), once manualMode is known to be off, and the sync  *)
(* its two callers do after it whatever it chose.                          *)
ChooseBest ==
  \E best \in BestUp(Candidates) :
    /\ stranded' = (best = NoAddr)
    /\ Route(IF best = NoAddr THEN currentAddr ELSE best)

(* Mutants: the loop's selectBest trusts its unlocked read of manualMode;  *)
(* it chooses anew only when the current backend's status is down, whether *)
(* or not the backend is still listed.                                     *)
SelectBest_NoRecheck == ChooseBest /\ UNCHANGED <<manualMode, manualAddr>>

SelectBest_WhenDown ==
  IF manualMode \/ IsUp(currentAddr)
  THEN Route(currentAddr) /\ UNCHANGED <<manualMode, manualAddr, stranded>>
  ELSE ChooseBest /\ UNCHANGED <<manualMode, manualAddr>>

SelectBest ==
  IF manualMode
  THEN Route(currentAddr) /\ UNCHANGED <<manualMode, manualAddr, stranded>>
  ELSE ChooseBest /\ UNCHANGED <<manualMode, manualAddr>>

(* selectInitial(): the best, else the first row, else nothing; manualMode *)
(* is not looked at.                                                       *)
SelectInitial ==
  /\ \E best \in BestUp(Candidates) :
       /\ stranded' = (best = NoAddr)
       /\ \/ best # NoAddr /\ Route(best)
          \/ best = NoAddr /\ \E r \in backends : IsFirst(r, backends) /\ Route(r.addr)
          \/ best = NoAddr /\ backends = {} /\ UNCHANGED <<currentAddr, lastSyncedAddr>>
  /\ UNCHANGED <<manualMode, manualAddr>>

-----------------------------------------------------------------------------
(* The goroutine of Start.                                                 *)

RunnerGoes(to) == runner' = [runner EXCEPT !.at = to]

(* ObservatoryWatcher.Start: scanLog stores every line of the log, oldest  *)
(* first, and tells nobody.                                                *)
ScanLine(a, alive) ==
  /\ runner.at = "scan"
  /\ SetStatus(a, alive)
  /\ UNCHANGED <<pings, observatoryOK, tableVars, balancerVars, tcpAddrs, runner, tail, notifier>>

ObservatoryOn ==
  /\ runner.at = "scan"
  /\ SetObservatoryOK
  /\ RunnerGoes("list")
  /\ UNCHANGED <<tableVars, balancerVars, tcpAddrs, tail, notifier>>

ListTcpAddrs ==
  /\ runner.at = "list"
  /\ tcpAddrs' = Candidates
  /\ runner' = [runner EXCEPT !.at = "dial", !.dials = Candidates]
  /\ UNCHANGED <<healthVars, tableVars, balancerVars, tail, notifier>>

InitialDial(a, up, ping) ==
  /\ runner.at = "dial"
  /\ a \in runner.dials
  /\ CheckResult(up, ping)
  /\ InitialStore(a, up, ping)
  /\ runner' = [runner EXCEPT !.dials = @ \ {a}]
  /\ UNCHANGED <<tableVars, balancerVars, tcpAddrs, tail, notifier>>

InitialDone ==
  /\ runner.at = "dial"
  /\ runner.dials = {}
  /\ RunnerGoes("copy")
  /\ UNCHANGED <<healthVars, tableVars, balancerVars, tcpAddrs, tail, notifier>>

(* checkSubscriptions works on a copy of the list, in its order.           *)
CopyBackends ==
  /\ runner.at = "copy"
  /\ runner' = [runner EXCEPT !.at = "subs", !.todo = backends]
  /\ UNCHANGED <<healthVars, tableVars, balancerVars, tcpAddrs, tail, notifier>>

(* The row has no subscription, or its subscription could be fetched.      *)
SubscriptionOK(r) ==
  /\ runner.at = "subs"
  /\ IsFirst(r, runner.todo)
  /\ runner' = [runner EXCEPT !.todo = @ \ {r}]
  /\ UNCHANGED <<healthVars, tableVars, balancerVars, tcpAddrs, tail, notifier>>

SubscriptionDown(r) ==
  /\ runner.at = "subs"
  /\ IsFirst(r, runner.todo)
  /\ SetStatus(r.addr, FALSE)
  /\ runner' = [runner EXCEPT !.at = "compare", !.todo = @ \ {r}, !.down = r.addr]
  /\ UNCHANGED <<pings, observatoryOK, tableVars, balancerVars, tcpAddrs, tail, notifier>>

(* Mutant: a subscription found down is never the reason of a failover.    *)
CompareActive_Never ==
  /\ runner.at = "compare"
  /\ runner' = [runner EXCEPT !.at = "subs", !.down = NoAddr]
  /\ UNCHANGED <<healthVars, tableVars, balancerVars, tcpAddrs, tail, notifier>>

CompareActive ==
  /\ runner.at = "compare"
  /\ runner' = IF runner.down = currentAddr
               THEN [runner EXCEPT !.at = "failover"]
               ELSE [runner EXCEPT !.at = "subs", !.down = NoAddr]
  /\ UNCHANGED <<healthVars, tableVars, balancerVars, tcpAddrs, tail, notifier>>

SubscriptionFailover ==
  /\ runner.at = "failover"
  /\ Failover
  /\ runner' = [runner EXCEPT !.at = "subs", !.down = NoAddr]
  /\ UNCHANGED <<healthVars, tableVars, tcpAddrs, tail, notifier>>

(* The end of checkSubscriptions: what follows depends on who called it.   *)
SubscriptionsDone ==
  /\ runner.at = "subs"
  /\ runner.todo = {}
  /\ \/ runner.round = "startup" /\ RunnerGoes("initial")
     \/ runner.round = "warm" /\ runner' = [runner EXCEPT !.at = "tick", !.round = "loop"]
     \/ runner.round = "loop" /\ RunnerGoes("decide")
  /\ UNCHANGED <<healthVars, tableVars, balancerVars, tcpAddrs, tail, notifier>>

ChooseInitial ==
  /\ runner.at = "initial"
  /\ SelectInitial
  /\ runner' = [runner EXCEPT !.at = "copy", !.round = "warm"]
  /\ UNCHANGED <<healthVars, tableVars, tcpAddrs, tail, notifier>>

TickQuery ==
  /\ runner.at = "tick"
  /\ Query(Ticker)
  /\ RunnerGoes("queried")
  /\ UNCHANGED <<healthVars, balancerVars, tcpAddrs, tail, notifier>>

TickAssign ==
  /\ runner.at = "queried"
  /\ Assign(Ticker)
  /\ RunnerGoes("copy")
  /\ UNCHANGED <<healthVars, balancerVars, tcpAddrs, tail, notifier>>

(* Mutant: the condition is the wrong way round.                           *)
Decide_Inverted ==
  /\ runner.at = "decide"
  /\ RunnerGoes(IF manualMode THEN "best" ELSE "tick")
  /\ UNCHANGED <<healthVars, tableVars, balancerVars, tcpAddrs, tail, notifier>>

(* The loop reads manualMode without b.mu.                                 *)
Decide ==
  /\ runner.at = "decide"
  /\ RunnerGoes(IF manualMode THEN "tick" ELSE "best")
  /\ UNCHANGED <<healthVars, tableVars, balancerVars, tcpAddrs, tail, notifier>>

ChooseBestBackend ==
  /\ runner.at = "best"
  /\ SelectBest
  /\ RunnerGoes("tick")
  /\ UNCHANGED <<healthVars, tableVars, tcpAddrs, tail, notifier>>

RunnerStep ==
  \/ \E a \in Tagged, alive \in BOOLEAN : ScanLine(a, alive)
  \/ ObservatoryOn
  \/ ListTcpAddrs
  \/ \E a \in Addrs, up \in BOOLEAN, ping \in Pings : InitialDial(a, up, ping)
  \/ InitialDone
  \/ CopyBackends
  \/ \E r \in runner.todo : SubscriptionOK(r) \/ SubscriptionDown(r)
  \/ CompareActive
  \/ SubscriptionFailover
  \/ SubscriptionsDone
  \/ ChooseInitial
  \/ TickQuery
  \/ TickAssign
  \/ Decide
  \/ ChooseBestBackend

-----------------------------------------------------------------------------
(* The ticker of HealthChecker.Start. The observatory is in charge before  *)
(* it is started, so of TcpMonitor's steps that end a probe ProbeKeep is   *)
(* the only one left: whenever a dial began, it comes down to one SetPing. *)
Ping(a, up, ping) ==
  /\ a \in tcpAddrs
  /\ CheckResult(up, ping)
  /\ SetPing(a, ping)
  /\ UNCHANGED <<statuses, observatoryOK, tableVars, balancerVars,
                 tcpAddrs, runner, tail, notifier>>

(* Mutant: a tag that is not in the map is looked up all the same.         *)
TailRead_Unmapped(a, alive) ==
  /\ runner.at # "scan"
  /\ tail.at = "idle"
  /\ tail' = [at |-> "set", addr |-> NoAddr, alive |-> alive]
  /\ UNCHANGED <<healthVars, tableVars, balancerVars, tcpAddrs, runner, notifier>>

(* readNewLines: a line of a tagged outbound that contradicts the status   *)
(* read for its address; then the status is written and a callback spawned *)
(* (one that reports a backend up returns without doing anything).         *)
TailRead(a, alive) ==
  /\ runner.at # "scan"
  /\ tail.at = "idle"
  /\ statuses[a] # alive
  /\ tail' = [at |-> "set", addr |-> a, alive |-> alive]
  /\ UNCHANGED <<healthVars, tableVars, balancerVars, tcpAddrs, runner, notifier>>

Spawn(n, a) ==
  /\ notifier[n] = NoNotice
  /\ notifier' = [notifier EXCEPT ![n] = [at |-> "new", addr |-> a]]

TailSetUp ==
  /\ tail.at = "set" /\ tail.alive
  /\ SetStatus(tail.addr, TRUE)
  /\ stranded' = (stranded /\ tail.addr # currentAddr)
  /\ tail' = NoLine
  /\ UNCHANGED <<pings, observatoryOK, tableVars, currentAddr, manualMode, manualAddr,
                 lastSyncedAddr, tcpAddrs, runner, notifier>>

TailSetDown(n) ==
  /\ tail.at = "set" /\ ~tail.alive
  /\ SetStatus(tail.addr, FALSE)
  /\ Spawn(n, tail.addr)
  /\ tail' = NoLine
  /\ UNCHANGED <<pings, observatoryOK, tableVars, balancerVars, tcpAddrs, runner>>

(* The callback of OnStatusChange: manualMode without b.mu, then GetActive *)
(* under it, then failover under it again.                                 *)
Notice(n, to) == notifier' = [notifier EXCEPT ![n] = to]

NoticeMode(n) ==
  /\ notifier[n].at = "new"
  /\ Notice(n, IF manualMode THEN NoNotice ELSE [notifier[n] EXCEPT !.at = "seen"])
  /\ UNCHANGED <<healthVars, tableVars, balancerVars, tcpAddrs, runner, tail>>

NoticeActive(n) ==
  /\ notifier[n].at = "seen"
  /\ Notice(n, IF notifier[n].addr = currentAddr
               THEN [notifier[n] EXCEPT !.at = "armed"] ELSE NoNotice)
  /\ UNCHANGED <<healthVars, tableVars, balancerVars, tcpAddrs, runner, tail>>

NoticeFailover(n) ==
  /\ notifier[n].at = "armed"
  /\ Failover
  /\ Notice(n, NoNotice)
  /\ UNCHANGED <<healthVars, tableVars, tcpAddrs, runner, tail>>

NotifierStep(n) == NoticeMode(n) \/ NoticeActive(n) \/ NoticeFailover(n)

-----------------------------------------------------------------------------
(* The admin panel: SetManual of an address or of "", and the requests     *)
(* that change the table.                                                  *)
SetManual(a) ==
  /\ manualMode' = TRUE
  /\ manualAddr' = a
  /\ Route(a)
  /\ UNCHANGED <<healthVars, tableVars, stranded, tcpAddrs, runner, tail, notifier>>

(* Mutant: leaving manual mode waits for the loop to choose.               *)
SetAuto_KeepsActive ==
  /\ manualMode' = FALSE
  /\ manualAddr' = NoAddr
  /\ Route(currentAddr)
  /\ UNCHANGED <<healthVars, tableVars, stranded, tcpAddrs, runner, tail, notifier>>

SetAuto ==
  /\ manualMode' = FALSE
  /\ manualAddr' = NoAddr
  /\ ChooseBest
  /\ UNCHANGED <<healthVars, tableVars, tcpAddrs, runner, tail, notifier>>

AdminTable(w) ==
  /\ AdminStart(w) \/ AdminFinish(w) \/ Query(w) \/ Assign(w)
  /\ UNCHANGED <<healthVars, balancerVars, tcpAddrs, runner, tail, notifier>>

-----------------------------------------------------------------------------
Tail ==
  \/ \E a \in Tagged, alive \in BOOLEAN : TailRead(a, alive)
  \/ TailSetUp
  \/ \E n \in Notifiers : TailSetDown(n)

Next ==
  \/ RunnerStep
  \/ \E a \in Addrs, up \in BOOLEAN, ping \in Pings : Ping(a, up, ping)
  \/ Tail
  \/ \E n \in Notifiers : NotifierStep(n)
  \/ \E a \in Addrs : SetManual(a)
  \/ SetAuto
  \/ \E w \in Admins : AdminTable(w)

(* Dials and fetches have timeouts, so the goroutines of Start always get  *)
(* on, and a callback that was spawned runs; the log, the pings and the    *)
(* administrator owe nothing, and scanLog reads a finite log.              *)
Progress == RunnerStep /\ runner' # runner

Fairness == WF_vars(Progress) /\ \A n \in Notifiers : WF_vars(NotifierStep(n))

Spec == Init /\ [][Next]_vars /\ Fairness

-----------------------------------------------------------------------------
(* Somebody who will look at the current backend again: a callback about   *)
(* it, or a subscription check that found it down.                         *)
FailoverPending ==
  \/ \E n \in Notifiers : notifier[n].at # "idle" /\ notifier[n].addr = currentAddr
  \/ runner.at \in {"compare", "failover"} /\ runner.down = currentAddr

(* A failure of the current backend is never lost: between the write of a  *)
(* status, the unlocked read of manualMode, the comparison with GetActive  *)
(* and the failover (balancer.go:75-77, 85-92), whatever switches between  *)
(* manual and automatic mode come in between, the current backend is up,   *)
(* or a failover away from it is pending, or the last attempt found no     *)
(* backend up to move to.                                                  *)
NoLostFailover ==
  Started /\ ~manualMode /\ currentAddr # NoAddr /\ ~IsUp(currentAddr)
    => FailoverPending \/ stranded

(* Every section that changes the backend connections are routed to calls  *)
(* syncXrayLocked with it before it releases b.mu. Whether the call reaches*)
(* xray is another matter (XraySync): lastSyncedAddr is recorded before    *)
(* the attempt (balancer.go:311).                                          *)
SyncTracksActive == lastSyncedAddr = currentAddr

(* Once started, a manual choice that took hold stays: nobody but the      *)
(* administrator moves the current backend, in particular no callback or   *)
(* round that read manualMode as off before it was switched on             *)
(* (balancer.go:86, 129, 213-216, 236-238).                                *)
PinnedWhileManual ==
  [][Started /\ manualMode /\ currentAddr = manualAddr
       => ~manualMode' \/ currentAddr' = manualAddr']_vars

(* The abstract specification: what the goroutines above add up to.        *)
Active == INSTANCE ActiveBackend
            WITH active <- currentAddr, pinned <- manualAddr, running <- Started

(* The current backend is moved only by the start, by a choice that finds  *)
(* the backend it moves to listed, up and not slower than another at that  *)
(* very moment, or by the administrator. In particular a failover decided  *)
(* on a status that has changed since (balancer.go:89-92, 232-248) still   *)
(* moves to a best backend, and a return to automatic mode chooses one.    *)
OnlyAllowedMoves == Active!Safety

(* In automatic mode, as long as the current backend is down or gone and   *)
(* another one could serve, which ones may change all the time, one of     *)
(* them gets the connections in the end (balancer.go:126-130). The current *)
(* one is gone when its row is disabled, deleted or has another address.   *)
RescuedInTheEnd == Active!Fairness

-----------------------------------------------------------------------------
(* balancer.go:171 logs "Manual switch to %s" and the dashboard shows the  *)
(* manual choice as the active server: in manual mode the current backend  *)
(* is the one the administrator chose.                                     *)
ManualMeansActive == manualMode => currentAddr = manualAddr

(* README.md:10, "return to primary when it recovers": while the primary   *)
(* is in the list and up, and nobody overrides it, it ends up serving      *)
(* (equal pings aside, where the choice is the sort's).                    *)
ReturnsToPrimary ==
  \A a \in Addrs :
    <>[](~manualMode /\ IsUp(a) /\ \E r \in backends : IsFirst(r, backends) /\ r.primary
                                                      /\ r.addr = a)
      => <>[](currentAddr \in {b \in Addrs : b = a \/ Rank(b) = Rank(a)})
=============================================================================
