--------------------------- MODULE BalancerProofs ---------------------------
(***************************************************************************)
(* Proofs about Balancer, for any backends, any tags, any number of        *)
(* observatory callbacks and of admin requests in flight.                  *)
(***************************************************************************)
EXTENDS Balancer, TableProofs

-----------------------------------------------------------------------------
(* The choice of a backend.                                                *)

(* BestUp answers "" or one of the addresses it was given that is up.      *)
LEMMA BestUpSound ==
  ASSUME NEW S \in SUBSET Addrs, NEW best \in BestUp(S)
  PROVE  best = NoAddr \/ (best \in S /\ IsUp(best))
BY DEF BestUp

(* ... and "" only when none of them is up.                                *)
LEMMA BestUpComplete ==
  ASSUME NEW S \in SUBSET Addrs, NoAddr \in BestUp(S)
  PROVE  \A a \in S : ~IsUp(a)
BY NoAddrAssumption DEF BestUp

(* The list the balancer chooses from holds addresses.                     *)
LEMMA CandidatesTyped == TableTypeOK => Candidates \subseteq Addrs
BY DEF TableTypeOK, Candidates, AddrsOf, Rows

(* What each section under b.mu leaves: either it did not choose, or it    *)
(* recorded in stranded that nothing was up and kept the current backend,  *)
(* or the current backend is one that is up; and syncXrayLocked was called *)
(* with the current one.                                                   *)
Chosen ==
  /\ {currentAddr', lastSyncedAddr'} \subseteq Addrs \cup {NoAddr}
  /\ stranded' \in BOOLEAN
  /\ stranded' \/ IsUp(currentAddr')
  /\ lastSyncedAddr = currentAddr => lastSyncedAddr' = currentAddr'

LEMMA FailoverChooses ==
  ASSUME BalancerTypeOK, TableTypeOK, ~manualMode, Failover
  PROVE  Chosen
<1>1. PICK best \in BestUp(Candidates) :
        /\ stranded' = (best = NoAddr)
        /\ IF best \in {NoAddr, currentAddr} THEN UNCHANGED <<currentAddr, lastSyncedAddr>>
           ELSE Route(best)
  BY DEF Failover
<1>2. best = NoAddr \/ (best \in Addrs /\ IsUp(best))
  BY BestUpSound, CandidatesTyped
<1>3. CASE best \in {NoAddr, currentAddr}
  BY <1>1, <1>2, <1>3 DEF Chosen, BalancerTypeOK
<1>4. CASE best \notin {NoAddr, currentAddr}
  BY <1>1, <1>2, <1>4 DEF Chosen, Route
<1>5. QED
  BY <1>3, <1>4

LEMMA ChooseBestChooses ==
  ASSUME BalancerTypeOK, TableTypeOK, ChooseBest
  PROVE  Chosen
<1>1. PICK best \in BestUp(Candidates) :
        /\ stranded' = (best = NoAddr)
        /\ Route(IF best = NoAddr THEN currentAddr ELSE best)
  BY DEF ChooseBest
<1>2. best = NoAddr \/ (best \in Addrs /\ IsUp(best))
  BY BestUpSound, CandidatesTyped
<1>3. QED
  BY <1>1, <1>2 DEF Chosen, Route, BalancerTypeOK

LEMMA InitialChooses ==
  ASSUME BalancerTypeOK, TableTypeOK, SelectInitial
  PROVE  Chosen
<1>1. PICK best \in BestUp(Candidates) :
        /\ stranded' = (best = NoAddr)
        /\ \/ best # NoAddr /\ Route(best)
           \/ best = NoAddr /\ \E r \in backends : IsFirst(r, backends) /\ Route(r.addr)
           \/ best = NoAddr /\ backends = {} /\ UNCHANGED <<currentAddr, lastSyncedAddr>>
  BY DEF SelectInitial
<1>2. best = NoAddr \/ (best \in Addrs /\ IsUp(best))
  BY BestUpSound, CandidatesTyped
<1>3. \A r \in backends : r.addr \in Addrs
  BY DEF TableTypeOK, Rows
<1>4. QED
  BY <1>1, <1>2, <1>3 DEF Chosen, Route, BalancerTypeOK

-----------------------------------------------------------------------------
(* Type correctness.                                                       *)

(* Each part of the type invariant is about its own variables.             *)
LEMMA FrameTyped ==
  /\ HealthTypeOK /\ UNCHANGED healthVars => HealthTypeOK'
  /\ TableTypeOK /\ UNCHANGED tableVars => TableTypeOK'
  /\ BalancerTypeOK /\ UNCHANGED balancerVars => BalancerTypeOK'
  /\ RunnerTypeOK /\ UNCHANGED <<tcpAddrs, runner>> => RunnerTypeOK'
  /\ CallbackTypeOK /\ UNCHANGED <<tail, notifier>> => CallbackTypeOK'
BY DEF HealthTypeOK, healthVars, TableTypeOK, tableVars, BalancerTypeOK, balancerVars,
       RunnerTypeOK, CallbackTypeOK

LEMMA RunnerGoesTyped ==
  ASSUME RunnerTypeOK, NEW to \in RunnerAt, RunnerGoes(to), UNCHANGED tcpAddrs
  PROVE  RunnerTypeOK'
BY DEF RunnerGoes, RunnerTypeOK

LEMMA HealthTyped ==
  ASSUME HealthTypeOK, NEW a \in Addrs, NEW up \in BOOLEAN
  PROVE  /\ SetStatus(a, up) => statuses' \in [Addrs -> BOOLEAN]
         /\ \A ping \in Pings : SetPing(a, ping) => pings' \in [Addrs -> Pings]
BY DEF HealthTypeOK, SetStatus, SetPing

LEMMA FailoverTyped ==
  ASSUME BalancerTypeOK, TableTypeOK, Failover
  PROVE  BalancerTypeOK'
<1>1. CASE manualMode
  BY <1>1 DEF Failover, balancerVars, BalancerTypeOK
<1>2. CASE ~manualMode
  BY <1>2, FailoverChooses DEF Failover, Chosen, BalancerTypeOK
<1>3. QED
  BY <1>1, <1>2

LEMMA SelectBestTyped ==
  ASSUME BalancerTypeOK, TableTypeOK, SelectBest
  PROVE  BalancerTypeOK'
<1>1. CASE manualMode
  BY <1>1 DEF SelectBest, Route, BalancerTypeOK
<1>2. CASE ~manualMode
  BY <1>2, ChooseBestChooses DEF SelectBest, Chosen, BalancerTypeOK
<1>3. QED
  BY <1>1, <1>2

(* The goroutine of Start.                                                 *)
LEMMA RunnerStepTyped ==
  ASSUME TypeOK, RunnerStep
  PROVE  TypeOK'
<1> USE DEF TypeOK
<1>1. ASSUME NEW a \in Tagged, NEW alive \in BOOLEAN, ScanLine(a, alive)
      PROVE  TypeOK'
  <2>1. HealthTypeOK'
    BY <1>1, HealthTyped, TaggedAssumption DEF ScanLine, HealthTypeOK
  <2>2. QED
    BY FrameTyped, <1>1, <2>1 DEF ScanLine
<1>2. CASE ObservatoryOn
  <2>1. HealthTypeOK'
    BY <1>2 DEF ObservatoryOn, SetObservatoryOK, HealthTypeOK
  <2>2. RunnerTypeOK'
    BY <1>2, RunnerGoesTyped DEF ObservatoryOn, RunnerAt
  <2>3. QED
    BY FrameTyped, <1>2, <2>1, <2>2 DEF ObservatoryOn
<1>3. CASE ListTcpAddrs
  <2>1. RunnerTypeOK'
    BY <1>3, CandidatesTyped DEF ListTcpAddrs, RunnerTypeOK, RunnerAt
  <2>2. QED
    BY FrameTyped, <1>3, <2>1 DEF ListTcpAddrs
<1>4. ASSUME NEW a \in Addrs, NEW up \in BOOLEAN, NEW ping \in Pings, InitialDial(a, up, ping)
      PROVE  TypeOK'
  <2>1. HealthTypeOK'
    BY <1>4, HealthTyped DEF InitialDial, InitialStore, HealthTypeOK
  <2>2. RunnerTypeOK'
    BY <1>4 DEF InitialDial, RunnerTypeOK
  <2>3. QED
    BY FrameTyped, <1>4, <2>1, <2>2 DEF InitialDial
<1>5. CASE InitialDone \/ SubscriptionsDone \/ Decide
  <2>1. RunnerTypeOK'
    <3>1. CASE InitialDone
      BY <3>1, RunnerGoesTyped DEF InitialDone, RunnerAt
    <3>2. CASE SubscriptionsDone
      BY <3>2 DEF SubscriptionsDone, RunnerGoes, RunnerTypeOK, RunnerAt, Rounds
    <3>3. CASE Decide
      BY <3>3, RunnerGoesTyped DEF Decide, RunnerAt
    <3>4. QED
      BY <1>5, <3>1, <3>2, <3>3
  <2>2. QED
    BY FrameTyped, <1>5, <2>1 DEF InitialDone, SubscriptionsDone, Decide
<1>6. CASE CopyBackends \/ CompareActive
  <2>1. RunnerTypeOK'
    BY <1>6 DEF CopyBackends, CompareActive, RunnerTypeOK, RunnerAt, TableTypeOK
  <2>2. QED
    BY FrameTyped, <1>6, <2>1 DEF CopyBackends, CompareActive
<1>7. ASSUME NEW r \in runner.todo, SubscriptionOK(r) \/ SubscriptionDown(r)
      PROVE  TypeOK'
  <2>1. r.addr \in Addrs
    BY DEF RunnerTypeOK, Rows
  <2>2. HealthTypeOK'
    BY <1>7, <2>1, HealthTyped DEF SubscriptionOK, SubscriptionDown, HealthTypeOK, healthVars
  <2>3. RunnerTypeOK'
    BY <1>7, <2>1 DEF SubscriptionOK, SubscriptionDown, RunnerTypeOK, RunnerAt
  <2>4. QED
    BY FrameTyped, <1>7, <2>2, <2>3 DEF SubscriptionOK, SubscriptionDown
<1>8. CASE SubscriptionFailover
  <2>1. RunnerTypeOK'
    BY <1>8 DEF SubscriptionFailover, RunnerTypeOK, RunnerAt
  <2>2. QED
    BY FrameTyped, <1>8, <2>1, FailoverTyped DEF SubscriptionFailover
<1>9. CASE ChooseInitial
  <2>1. BalancerTypeOK'
    BY <1>9, InitialChooses DEF ChooseInitial, SelectInitial, Chosen, BalancerTypeOK
  <2>2. RunnerTypeOK'
    BY <1>9 DEF ChooseInitial, RunnerTypeOK, RunnerAt, Rounds
  <2>3. QED
    BY FrameTyped, <1>9, <2>1, <2>2 DEF ChooseInitial
<1>10. CASE TickQuery \/ TickAssign
  <2>1. TableTypeOK'
    BY <1>10, ReloadTyped DEF TickQuery, TickAssign, Reloaders
  <2>2. RunnerTypeOK'
    BY <1>10, RunnerGoesTyped DEF TickQuery, TickAssign, RunnerAt
  <2>3. QED
    BY FrameTyped, <1>10, <2>1, <2>2 DEF TickQuery, TickAssign
<1>11. CASE ChooseBestBackend
  <2>1. RunnerTypeOK'
    BY <1>11, RunnerGoesTyped DEF ChooseBestBackend, RunnerAt
  <2>2. QED
    BY FrameTyped, <1>11, <2>1, SelectBestTyped DEF ChooseBestBackend
<1>12. QED
  BY <1>1, <1>2, <1>3, <1>4, <1>5, <1>6, <1>7, <1>8, <1>9, <1>10, <1>11 DEF RunnerStep

(* The tail of the log, the callbacks it spawns and the pinging ticker.    *)
LEMMA CallbackStepTyped ==
  ASSUME TypeOK,
         \/ \E a \in Addrs, up \in BOOLEAN, ping \in Pings : Ping(a, up, ping)
         \/ Tail
         \/ \E n \in Notifiers : NotifierStep(n)
  PROVE  TypeOK'
<1> USE DEF TypeOK
<1>1. ASSUME NEW a \in Addrs, NEW up \in BOOLEAN, NEW ping \in Pings, Ping(a, up, ping)
      PROVE  TypeOK'
  <2>1. HealthTypeOK'
    BY <1>1, HealthTyped DEF Ping, HealthTypeOK
  <2>2. QED
    BY FrameTyped, <1>1, <2>1 DEF Ping
<1>2. ASSUME NEW a \in Tagged, NEW alive \in BOOLEAN, TailRead(a, alive)
      PROVE  TypeOK'
  <2>1. CallbackTypeOK'
    BY <1>2, TaggedAssumption DEF TailRead, CallbackTypeOK
  <2>2. QED
    BY FrameTyped, <1>2, <2>1 DEF TailRead
<1>3. CASE TailSetUp
  <2>1. HealthTypeOK'
    BY <1>3, HealthTyped DEF TailSetUp, HealthTypeOK, CallbackTypeOK
  <2>2. BalancerTypeOK'
    BY <1>3 DEF TailSetUp, BalancerTypeOK
  <2>3. CallbackTypeOK'
    BY <1>3 DEF TailSetUp, CallbackTypeOK, NoLine
  <2>4. QED
    BY FrameTyped, <1>3, <2>1, <2>2, <2>3 DEF TailSetUp
<1>4. ASSUME NEW n \in Notifiers, TailSetDown(n)
      PROVE  TypeOK'
  <2>1. HealthTypeOK'
    BY <1>4, HealthTyped DEF TailSetDown, HealthTypeOK, CallbackTypeOK
  <2>2. CallbackTypeOK'
    BY <1>4 DEF TailSetDown, Spawn, CallbackTypeOK, NoLine
  <2>3. QED
    BY FrameTyped, <1>4, <2>1, <2>2 DEF TailSetDown
<1>5. ASSUME NEW n \in Notifiers, NotifierStep(n)
      PROVE  TypeOK'
  <2>1. CallbackTypeOK'
    BY <1>5 DEF NotifierStep, NoticeMode, NoticeActive, NoticeFailover, Notice, NoNotice,
                CallbackTypeOK
  <2>2. BalancerTypeOK'
    BY FrameTyped, FailoverTyped, <1>5 DEF NotifierStep, NoticeMode, NoticeActive, NoticeFailover
  <2>3. QED
    BY FrameTyped, <1>5, <2>1, <2>2 DEF NotifierStep, NoticeMode, NoticeActive, NoticeFailover
<1>6. QED
  BY <1>1, <1>2, <1>3, <1>4, <1>5 DEF Tail

(* The admin panel.                                                        *)
LEMMA AdminStepTyped ==
  ASSUME TypeOK,
         (\E a \in Addrs : SetManual(a)) \/ SetAuto \/ (\E w \in Admins : AdminTable(w))
  PROVE  TypeOK'
<1> USE DEF TypeOK
<1>1. ASSUME NEW a \in Addrs, SetManual(a)
      PROVE  TypeOK'
  <2>1. BalancerTypeOK'
    BY <1>1 DEF SetManual, Route, BalancerTypeOK
  <2>2. QED
    BY FrameTyped, <1>1, <2>1 DEF SetManual
<1>2. CASE SetAuto
  <2>1. BalancerTypeOK'
    BY <1>2, ChooseBestChooses DEF SetAuto, Chosen, BalancerTypeOK
  <2>2. QED
    BY FrameTyped, <1>2, <2>1 DEF SetAuto
<1>3. ASSUME NEW w \in Admins, AdminTable(w)
      PROVE  TypeOK'
  <2>1. TableTypeOK'
    BY <1>3, AdminTyped, ReloadTyped DEF AdminTable, Reloaders
  <2>2. QED
    BY FrameTyped, <1>3, <2>1 DEF AdminTable
<1>4. QED
  BY <1>1, <1>2, <1>3

LEMMA InitTyped == Init => TypeOK
<1> SUFFICES ASSUME Init PROVE TypeOK
  OBVIOUS
<1>1. HealthTypeOK
  <2>1. 0 \in Pings
    BY MaxPingAssumption DEF Pings
  <2>2. QED
    BY <2>1 DEF Init, HealthInit, HealthTypeOK
<1>2. BalancerTypeOK
  BY DEF Init, BalancerTypeOK
<1>3. RunnerTypeOK
  BY DEF Init, RunnerTypeOK, RunnerAt, Rounds
<1>4. CallbackTypeOK
  BY DEF Init, CallbackTypeOK, NoLine, NoNotice
<1>5. QED
  BY TableInitTyped, <1>1, <1>2, <1>3, <1>4 DEF Init, TypeOK

LEMMA NextTyped == TypeOK /\ [Next]_vars => TypeOK'
<1>1. ASSUME TypeOK, UNCHANGED vars
      PROVE  TypeOK'
  BY <1>1, FrameTyped DEF vars, TypeOK
<1>2. QED
  BY <1>1, RunnerStepTyped, CallbackStepTyped, AdminStepTyped DEF Next

(* Every variable of the balancer, its health checker and its table keeps  *)
(* its type through every step of every goroutine.                         *)
THEOREM TypeCorrect == Spec => []TypeOK
BY InitTyped, NextTyped, PTL DEF Spec

-----------------------------------------------------------------------------
(* The safety invariants.                                                  *)

(* The stages of Start come in their order: whatever is done once, before  *)
(* selectInitial or by it, is done in the startup round.                   *)
StartupStages == runner.at \in {"scan", "list", "dial", "initial"} => ~Started

IInv == TypeOK /\ StartupStages /\ SyncTracksActive /\ NoLostFailover

LEMMA StagesKept ==
  ASSUME RunnerTypeOK, StartupStages, [Next]_vars
  PROVE  StartupStages'
<1> USE DEF StartupStages, Started
<1>1. CASE RunnerStep
  BY <1>1 DEF RunnerStep, ScanLine, ObservatoryOn, ListTcpAddrs, InitialDial, InitialDone,
       CopyBackends, SubscriptionOK, SubscriptionDown, CompareActive, SubscriptionFailover,
       SubscriptionsDone, ChooseInitial, TickQuery, TickAssign, Decide, ChooseBestBackend,
       RunnerGoes, RunnerTypeOK
<1>2. CASE UNCHANGED runner
  BY <1>2
<1>3. QED
  BY <1>1, <1>2 DEF Next, vars, Ping, Tail, TailRead, TailSetUp, TailSetDown, NotifierStep,
       NoticeMode, NoticeActive, NoticeFailover, SetManual, SetAuto, AdminTable

(* Every section under b.mu that changes the current backend tells xray.   *)
LEMMA SyncKept ==
  ASSUME TypeOK, SyncTracksActive, [Next]_vars
  PROVE  SyncTracksActive'
<1> USE DEF TypeOK, SyncTracksActive
<1>1. CASE UNCHANGED <<currentAddr, lastSyncedAddr>>
  BY <1>1
<1>2. CASE Failover
  BY <1>2, FailoverChooses DEF Failover, Chosen, balancerVars
<1>3. CASE ChooseBest
  BY <1>3, ChooseBestChooses DEF Chosen
<1>4. CASE SelectBest
  BY <1>4, ChooseBestChooses DEF SelectBest, Route, Chosen
<1>5. CASE SelectInitial
  BY <1>5, InitialChooses DEF Chosen
<1>6. ASSUME NEW a \in Addrs, SetManual(a)
      PROVE  lastSyncedAddr' = currentAddr'
  BY <1>6 DEF SetManual, Route
<1>7. CASE RunnerStep
  BY <1>1, <1>2, <1>4, <1>5, <1>7 DEF RunnerStep, ScanLine, ObservatoryOn, ListTcpAddrs,
       InitialDial, InitialDone, CopyBackends, SubscriptionOK, SubscriptionDown, CompareActive,
       SubscriptionFailover, SubscriptionsDone, ChooseInitial, TickQuery, TickAssign, Decide,
       ChooseBestBackend, balancerVars
<1>8. ASSUME NEW n \in Notifiers, NotifierStep(n)
      PROVE  lastSyncedAddr' = currentAddr'
  BY <1>1, <1>2, <1>8 DEF NotifierStep, NoticeMode, NoticeActive, NoticeFailover, balancerVars
<1>9. QED
  BY <1>1, <1>3, <1>6, <1>7, <1>8 DEF Next, vars, balancerVars, Ping, Tail, TailRead, TailSetUp,
       TailSetDown, SetAuto, AdminTable

(* A section that chose leaves nothing to fail over from.                  *)
LEMMA ChosenSettles ==
  ASSUME Chosen, UNCHANGED statuses
  PROVE  NoLostFailover'
BY DEF Chosen, NoLostFailover, IsUp

(* Steps that leave the current backend, its status, the mode and the      *)
(* history alone, and take nobody's failover away.                         *)
LEMMA PendingKept ==
  ASSUME NoLostFailover, UNCHANGED <<statuses, balancerVars>>, Started' => Started,
         FailoverPending => FailoverPending' \/ IsUp(currentAddr) \/ manualMode
  PROVE  NoLostFailover'
BY DEF NoLostFailover, IsUp, balancerVars

LEMMA RunnerKeepsFailover ==
  ASSUME TypeOK, StartupStages, NoLostFailover, RunnerStep
  PROVE  NoLostFailover'
<1> USE DEF TypeOK
<1>1. ASSUME NEW a \in Tagged, NEW alive \in BOOLEAN, ScanLine(a, alive)
      PROVE  NoLostFailover'
  BY <1>1 DEF ScanLine, StartupStages, Started, NoLostFailover
<1>2. CASE ObservatoryOn \/ ListTcpAddrs \/ InitialDone
  BY <1>2 DEF ObservatoryOn, ListTcpAddrs, InitialDone, RunnerGoes, StartupStages, Started,
              NoLostFailover, RunnerTypeOK
<1>3. ASSUME NEW a \in Addrs, NEW up \in BOOLEAN, NEW ping \in Pings, InitialDial(a, up, ping)
      PROVE  NoLostFailover'
  BY <1>3 DEF InitialDial, StartupStages, Started, NoLostFailover, RunnerTypeOK
<1>4. CASE CopyBackends \/ SubscriptionsDone \/ TickQuery \/ TickAssign \/ Decide
  <2>1. UNCHANGED <<statuses, notifier, balancerVars>> /\ (Started' => Started)
    BY <1>4 DEF CopyBackends, SubscriptionsDone, TickQuery, TickAssign, Decide, RunnerGoes,
                Started, healthVars, RunnerTypeOK
  <2>2. runner.at \notin {"compare", "failover"}
    BY <1>4 DEF CopyBackends, SubscriptionsDone, TickQuery, TickAssign, Decide
  <2>3. QED
    BY <2>1, <2>2, PendingKept DEF FailoverPending, balancerVars
<1>5. ASSUME NEW r \in runner.todo, SubscriptionOK(r)
      PROVE  NoLostFailover'
  <2>1. UNCHANGED <<statuses, notifier, balancerVars>> /\ (Started' => Started)
    BY <1>5 DEF SubscriptionOK, Started, healthVars, RunnerTypeOK
  <2>2. QED
    BY <1>5, <2>1, PendingKept DEF SubscriptionOK, FailoverPending, balancerVars
<1>6. ASSUME NEW r \in runner.todo, SubscriptionDown(r)
      PROVE  NoLostFailover'
  <2>1. UNCHANGED <<notifier, balancerVars>> /\ (Started' => Started)
    BY <1>6 DEF SubscriptionDown, Started, RunnerTypeOK
  <2>2. CASE r.addr = currentAddr
    BY <1>6, <2>1, <2>2 DEF SubscriptionDown, RunnerTypeOK, NoLostFailover, FailoverPending,
                            balancerVars
  <2>3. CASE r.addr # currentAddr
    <3>1. IsUp(currentAddr)' <=> IsUp(currentAddr)
      BY <1>6, <2>1, <2>3 DEF SubscriptionDown, SetStatus, IsUp, HealthTypeOK, balancerVars
    <3>2. FailoverPending => FailoverPending'
      BY <1>6, <2>1 DEF SubscriptionDown, FailoverPending, balancerVars
    <3>3. QED
      BY <2>1, <3>1, <3>2 DEF NoLostFailover, balancerVars
  <2>4. QED
    BY <2>2, <2>3
<1>7. CASE CompareActive
  <2>1. UNCHANGED <<statuses, notifier, balancerVars>> /\ (Started' => Started)
    BY <1>7 DEF CompareActive, Started, healthVars, RunnerTypeOK
  <2>2. FailoverPending => FailoverPending'
    BY <1>7, <2>1 DEF CompareActive, FailoverPending, RunnerTypeOK, balancerVars
  <2>3. QED
    BY <2>1, <2>2, PendingKept
<1>8. CASE SubscriptionFailover
  <2>1. CASE manualMode
    BY <1>8, <2>1 DEF SubscriptionFailover, Failover, NoLostFailover, balancerVars
  <2>2. CASE ~manualMode
    BY <1>8, <2>2, FailoverChooses, ChosenSettles DEF SubscriptionFailover, healthVars
  <2>3. QED
    BY <2>1, <2>2
<1>9. CASE ChooseInitial
  BY <1>9, InitialChooses, ChosenSettles DEF ChooseInitial, healthVars
<1>10. CASE ChooseBestBackend
  <2>1. CASE manualMode
    BY <1>10, <2>1 DEF ChooseBestBackend, SelectBest, NoLostFailover
  <2>2. CASE ~manualMode
    BY <1>10, <2>2, ChooseBestChooses, ChosenSettles DEF ChooseBestBackend, SelectBest, healthVars
  <2>3. QED
    BY <2>1, <2>2
<1>11. QED
  BY <1>1, <1>2, <1>3, <1>4, <1>5, <1>6, <1>7, <1>8, <1>9, <1>10 DEF RunnerStep

LEMMA CallbackKeepsFailover ==
  ASSUME TypeOK, NoLostFailover,
         \/ \E a \in Addrs, up \in BOOLEAN, ping \in Pings : Ping(a, up, ping)
         \/ Tail
         \/ \E n \in Notifiers : NotifierStep(n)
  PROVE  NoLostFailover'
<1> USE DEF TypeOK
<1>1. ASSUME NEW a \in Addrs, NEW up \in BOOLEAN, NEW ping \in Pings, Ping(a, up, ping)
      PROVE  NoLostFailover'
  BY <1>1, PendingKept DEF Ping, FailoverPending, Started, balancerVars
<1>2. ASSUME NEW a \in Tagged, NEW alive \in BOOLEAN, TailRead(a, alive)
      PROVE  NoLostFailover'
  BY <1>2, PendingKept DEF TailRead, FailoverPending, Started, balancerVars, healthVars
<1>3. CASE TailSetUp
  <2>1. CASE tail.addr = currentAddr
    BY <1>3, <2>1 DEF TailSetUp, SetStatus, IsUp, HealthTypeOK, CallbackTypeOK, NoLostFailover
  <2>2. CASE tail.addr # currentAddr
    BY <1>3, <2>2 DEF TailSetUp, SetStatus, IsUp, HealthTypeOK, NoLostFailover, FailoverPending,
                      Started
  <2>3. QED
    BY <2>1, <2>2
<1>4. ASSUME NEW n \in Notifiers, TailSetDown(n)
      PROVE  NoLostFailover'
  <2>1. CASE tail.addr = currentAddr
    BY <1>4, <2>1 DEF TailSetDown, Spawn, CallbackTypeOK, NoLostFailover, FailoverPending,
                      balancerVars
  <2>2. CASE tail.addr # currentAddr
    <3>1. IsUp(currentAddr)' <=> IsUp(currentAddr)
      BY <1>4, <2>2 DEF TailSetDown, SetStatus, IsUp, HealthTypeOK, balancerVars
    <3>2. FailoverPending => FailoverPending'
      BY <1>4 DEF TailSetDown, Spawn, NoNotice, CallbackTypeOK, FailoverPending, balancerVars
    <3>3. QED
      BY <1>4, <3>1, <3>2 DEF TailSetDown, NoLostFailover, Started, balancerVars
  <2>3. QED
    BY <2>1, <2>2
<1>5. ASSUME NEW n \in Notifiers, NoticeMode(n) \/ NoticeActive(n)
      PROVE  NoLostFailover'
  <2>1. UNCHANGED <<statuses, runner, balancerVars>>
    BY <1>5 DEF NoticeMode, NoticeActive, healthVars
  <2>2. FailoverPending => FailoverPending' \/ manualMode
    BY <1>5, <2>1 DEF NoticeMode, NoticeActive, Notice, CallbackTypeOK, FailoverPending,
                      balancerVars
  <2>3. QED
    BY <2>1, <2>2, PendingKept DEF Started
<1>6. ASSUME NEW n \in Notifiers, NoticeFailover(n)
      PROVE  NoLostFailover'
  <2>1. CASE manualMode
    BY <1>6, <2>1 DEF NoticeFailover, Failover, NoLostFailover, balancerVars
  <2>2. CASE ~manualMode
    BY <1>6, <2>2, FailoverChooses, ChosenSettles DEF NoticeFailover, healthVars
  <2>3. QED
    BY <2>1, <2>2
<1>7. QED
  BY <1>1, <1>2, <1>3, <1>4, <1>5, <1>6 DEF Tail, NotifierStep

LEMMA AdminKeepsFailover ==
  ASSUME TypeOK, NoLostFailover,
         (\E a \in Addrs : SetManual(a)) \/ SetAuto \/ (\E w \in Admins : AdminTable(w))
  PROVE  NoLostFailover'
<1>1. ASSUME NEW a \in Addrs, SetManual(a)
      PROVE  NoLostFailover'
  BY <1>1 DEF SetManual, NoLostFailover
<1>2. CASE SetAuto
  BY <1>2, ChooseBestChooses, ChosenSettles DEF SetAuto, healthVars, TypeOK
<1>3. ASSUME NEW w \in Admins, AdminTable(w)
      PROVE  NoLostFailover'
  BY <1>3, PendingKept DEF AdminTable, FailoverPending, Started, balancerVars, healthVars
<1>4. QED
  BY <1>1, <1>2, <1>3

LEMMA InitHolds == Init => IInv
BY InitTyped DEF Init, IInv, StartupStages, Started, SyncTracksActive, NoLostFailover

LEMMA NextHolds == IInv /\ [Next]_vars => IInv'
<1>1. ASSUME IInv, UNCHANGED vars
      PROVE  NoLostFailover'
  BY <1>1, PendingKept DEF IInv, vars, FailoverPending, Started, healthVars, balancerVars
<1>2. ASSUME IInv, Next
      PROVE  NoLostFailover'
  BY <1>2, RunnerKeepsFailover, CallbackKeepsFailover, AdminKeepsFailover DEF IInv, Next
<1>3. QED
  BY <1>1, <1>2, NextTyped, StagesKept, SyncKept DEF IInv, TypeOK

LEMMA Inductive == Spec => []IInv
BY InitHolds, NextHolds, PTL DEF Spec

(* A failure of the current backend is never lost in automatic mode, for   *)
(* any number of callbacks in flight and whatever the administrator does   *)
(* between their steps.                                                    *)
THEOREM FailoverNeverLost == Spec => []NoLostFailover
BY Inductive, PTL DEF IInv

(* syncXrayLocked was last called with the current backend.                *)
THEOREM SyncIsCurrent == Spec => []SyncTracksActive
BY Inductive, PTL DEF IInv

-----------------------------------------------------------------------------
(* Manual mode.                                                            *)

(* One step: the sections that choose a backend look at manualMode under   *)
(* b.mu, and selectInitial, which does not, runs only in the startup.      *)
LEMMA StepPinned ==
  ASSUME TypeOK, StartupStages, [Next]_vars, Started, manualMode, currentAddr = manualAddr
  PROVE  ~manualMode' \/ currentAddr' = manualAddr'
<1>1. CASE UNCHANGED <<currentAddr, manualAddr>>
  BY <1>1
<1>2. CASE RunnerStep
  BY <1>1, <1>2 DEF RunnerStep, ScanLine, ObservatoryOn, ListTcpAddrs,
       InitialDial, InitialDone, CopyBackends, SubscriptionOK, SubscriptionDown, CompareActive,
       SubscriptionFailover, SubscriptionsDone, ChooseInitial, TickQuery, TickAssign, Decide,
       ChooseBestBackend, Failover, SelectBest, Route, StartupStages, balancerVars
<1>3. ASSUME NEW n \in Notifiers, NotifierStep(n)
      PROVE  currentAddr' = manualAddr'
  BY <1>1, <1>3 DEF NotifierStep, NoticeMode, NoticeActive, NoticeFailover, Failover, balancerVars
<1>4. ASSUME NEW a \in Addrs, SetManual(a)
      PROVE  currentAddr' = manualAddr'
  BY <1>4 DEF SetManual, Route
<1>5. CASE SetAuto
  BY <1>5 DEF SetAuto
<1>6. QED
  BY <1>1, <1>2, <1>3, <1>4, <1>5 DEF Next, vars, balancerVars, Ping, Tail, TailRead, TailSetUp,
       TailSetDown, AdminTable

(* Once started, a manual choice that took hold stays until the            *)
(* administrator changes it, however late the round or the callback that   *)
(* still saw the automatic mode gets to its failover.                      *)
THEOREM ManualIsPinned == Spec => PinnedWhileManual
<1>1. IInv /\ [Next]_vars
        => [Started /\ manualMode /\ currentAddr = manualAddr
              => ~manualMode' \/ currentAddr' = manualAddr']_vars
  BY StepPinned DEF IInv
<1>2. QED
  BY <1>1, Inductive, PTL DEF Spec, PinnedWhileManual

-----------------------------------------------------------------------------
(* Balancer implements the safety part of ActiveBackend: every step of     *)
(* every goroutine is a start, a choice, a pin or a release of the         *)
(* abstract specification, or leaves its active backend alone.             *)

(* The address of a manual choice is there exactly as long as the mode is  *)
(* on, so the abstract specification needs no mode of its own.             *)
ModeHasAddr == manualMode <=> manualAddr # NoAddr

LEMMA ModeInit == Init => ModeHasAddr
BY DEF Init, ModeHasAddr

LEMMA ModeKept ==
  ASSUME TypeOK, ModeHasAddr, [Next]_vars
  PROVE  ModeHasAddr'
<1> USE DEF ModeHasAddr
<1>1. CASE UNCHANGED <<manualMode, manualAddr>>
  BY <1>1
<1>2. CASE RunnerStep
  BY <1>1, <1>2 DEF RunnerStep, ScanLine, ObservatoryOn, ListTcpAddrs, InitialDial, InitialDone,
       CopyBackends, SubscriptionOK, SubscriptionDown, CompareActive, SubscriptionFailover,
       SubscriptionsDone, ChooseInitial, TickQuery, TickAssign, Decide, ChooseBestBackend,
       Failover, SelectBest, SelectInitial, balancerVars
<1>3. ASSUME NEW n \in Notifiers, NotifierStep(n)
      PROVE  ModeHasAddr'
  BY <1>1, <1>3 DEF NotifierStep, NoticeMode, NoticeActive, NoticeFailover, Failover, balancerVars
<1>4. ASSUME NEW a \in Addrs, SetManual(a)
      PROVE  ModeHasAddr'
  BY <1>4, NoAddrAssumption DEF SetManual
<1>5. CASE SetAuto
  BY <1>5 DEF SetAuto
<1>6. QED
  BY <1>1, <1>2, <1>3, <1>4, <1>5 DEF Next, vars, balancerVars, Ping, Tail, TailRead, TailSetUp,
       TailSetDown, AdminTable

LEMMA ModeAlways == Spec => [](IInv /\ ModeHasAddr)
<1>1. IInv /\ ModeHasAddr /\ [Next]_vars => ModeHasAddr'
  BY ModeKept DEF IInv
<1>2. QED
  BY <1>1, ModeInit, InitHolds, NextHolds, PTL DEF Spec

-----------------------------------------------------------------------------
(* Both specifications speak of the same candidates.                       *)
LEMMA ServingIsUp ==
  ASSUME TypeOK
  PROVE  Active!Serving = {a \in Candidates : IsUp(a)}
BY CandidatesTyped DEF Active!Serving, Active!AddrsOf, Candidates, AddrsOf, IsUp, TypeOK

(* What BestUp returns is a best backend, as long as no ping that was      *)
(* measured reaches the key of one that was not.                           *)
LEMMA BestUpIsBest ==
  ASSUME TypeOK, MaxPing < 9999, NEW best \in BestUp(Candidates), best # NoAddr
  PROVE  best \in Active!Best
<1>1. best \in Active!Serving /\ \A a \in Active!Serving : Rank(best) <= Rank(a)
  BY ServingIsUp DEF BestUp
<1>2. \A a \in Active!Serving : pings[a] \in Pings
  BY ServingIsUp DEF TypeOK, HealthTypeOK, IsUp
<1>3. \A a \in Active!Serving : ~Active!Slower(best, a)
  BY <1>1, <1>2, MaxPingAssumption DEF Active!Slower, Rank, Pings
<1>4. QED
  BY <1>1, <1>3 DEF Active!Best

(* And it returns none only when the abstract choice has none.             *)
LEMMA NoneIsServing ==
  ASSUME TypeOK, NoAddr \in BestUp(Candidates)
  PROVE  Active!Serving = {}
BY ServingIsUp, BestUpComplete, CandidatesTyped DEF TypeOK

-----------------------------------------------------------------------------
Quiet == UNCHANGED <<currentAddr, manualAddr, Started>>

LEMMA QuietIsWorld == Quiet => Active!Next
BY DEF Quiet, Active!Next, Active!World, Active!activeVars

(* The sections that choose in automatic mode.                             *)
LEMMA FailoverMaps ==
  ASSUME TypeOK, ModeHasAddr, MaxPing < 9999, Failover, UNCHANGED <<healthVars, backends, Started>>
  PROVE  Active!Next
<1>1. CASE manualMode
  BY <1>1, QuietIsWorld DEF Failover, Quiet, balancerVars
<1>2. CASE ~manualMode
  <2>1. PICK best \in BestUp(Candidates) :
          IF best \in {NoAddr, currentAddr} THEN UNCHANGED <<currentAddr, lastSyncedAddr>>
          ELSE Route(best)
    BY <1>2 DEF Failover
  <2>2. UNCHANGED manualAddr
    BY <1>2 DEF Failover
  <2>3. CASE best \in {NoAddr, currentAddr}
    BY <2>1, <2>2, <2>3, QuietIsWorld DEF Quiet
  <2>4. CASE best \notin {NoAddr, currentAddr}
    BY <1>2, <2>1, <2>2, <2>4, BestUpIsBest
       DEF Route, ModeHasAddr, healthVars, Active!Next, Active!Choose, Active!worldVars
  <2>5. QED
    BY <2>3, <2>4
<1>3. QED
  BY <1>1, <1>2

LEMMA ChooseBestMaps ==
  ASSUME TypeOK, MaxPing < 9999, ChooseBest
  PROVE  currentAddr' \in Active!Best \/ (Active!Serving = {} /\ UNCHANGED currentAddr)
<1>1. PICK best \in BestUp(Candidates) : Route(IF best = NoAddr THEN currentAddr ELSE best)
  BY DEF ChooseBest
<1>2. CASE best = NoAddr
  BY <1>1, <1>2, NoneIsServing DEF Route
<1>3. CASE best # NoAddr
  BY <1>1, <1>3, BestUpIsBest DEF Route
<1>4. QED
  BY <1>2, <1>3

LEMMA SelectBestMaps ==
  ASSUME TypeOK, ModeHasAddr, MaxPing < 9999, SelectBest, UNCHANGED <<healthVars, backends, Started>>
  PROVE  Active!Next
<1>1. CASE manualMode
  BY <1>1, QuietIsWorld DEF SelectBest, Route, Quiet
<1>2. CASE ~manualMode
  <2>1. ChooseBest /\ UNCHANGED manualAddr
    BY <1>2 DEF SelectBest
  <2>2. CASE currentAddr' \in Active!Best
    BY <1>2, <2>1, <2>2 DEF ModeHasAddr, healthVars, Active!Next, Active!Choose, Active!worldVars
  <2>3. CASE UNCHANGED currentAddr
    BY <2>1, <2>3, QuietIsWorld DEF Quiet
  <2>4. QED
    BY <2>1, <2>2, <2>3, ChooseBestMaps
<1>3. QED
  BY <1>1, <1>2

LEMMA ChooseInitialMaps ==
  ASSUME TypeOK, StartupStages, MaxPing < 9999, ChooseInitial
  PROVE  Active!Start
<1>1. PICK best \in BestUp(Candidates) :
        \/ best # NoAddr /\ Route(best)
        \/ best = NoAddr /\ \E r \in backends : IsFirst(r, backends) /\ Route(r.addr)
        \/ best = NoAddr /\ backends = {} /\ UNCHANGED <<currentAddr, lastSyncedAddr>>
  BY DEF ChooseInitial, SelectInitial
<1>2. ~Started /\ Started'
  BY DEF ChooseInitial, StartupStages, Started, TypeOK, RunnerTypeOK
<1>3. UNCHANGED <<manualAddr, statuses, pings, backends>>
  BY DEF ChooseInitial, SelectInitial, healthVars, tableVars
<1>4. CASE best # NoAddr /\ Route(best)
  BY <1>2, <1>3, <1>4, BestUpIsBest DEF Route, Active!Start, Active!worldVars
<1>5. CASE best = NoAddr /\ \E r \in backends : IsFirst(r, backends) /\ Route(r.addr)
  BY <1>2, <1>3, <1>5, NoneIsServing
     DEF Route, Active!Start, Active!worldVars, Active!IsFirst, Active!Before, IsFirst, Before
<1>6. CASE best = NoAddr /\ backends = {} /\ UNCHANGED <<currentAddr, lastSyncedAddr>>
  BY <1>2, <1>3, <1>6 DEF Active!Start, Active!worldVars
<1>7. QED
  BY <1>1, <1>4, <1>5, <1>6

-----------------------------------------------------------------------------
LEMMA RunnerMaps ==
  ASSUME TypeOK, StartupStages, ModeHasAddr, MaxPing < 9999, RunnerStep
  PROVE  Active!Next
<1> USE DEF TypeOK
<1>1. CASE ChooseInitial
  BY <1>1, ChooseInitialMaps DEF Active!Next
<1>2. CASE SubscriptionFailover
  <2>1. UNCHANGED <<healthVars, backends, Started>>
    BY <1>2 DEF SubscriptionFailover, tableVars, Started, RunnerTypeOK
  <2>2. QED
    BY <1>2, <2>1, FailoverMaps DEF SubscriptionFailover
<1>3. CASE ChooseBestBackend
  <2>1. UNCHANGED <<healthVars, backends, Started>>
    BY <1>3 DEF ChooseBestBackend, tableVars, Started, RunnerGoes, RunnerTypeOK
  <2>2. QED
    BY <1>3, <2>1, SelectBestMaps DEF ChooseBestBackend
<1>4. ASSUME NEW a \in Tagged, NEW alive \in BOOLEAN, ScanLine(a, alive)
      PROVE  Active!Next
  BY <1>4, QuietIsWorld DEF ScanLine, Quiet, balancerVars, Started
<1>5. ASSUME NEW a \in Addrs, NEW up \in BOOLEAN, NEW ping \in Pings, InitialDial(a, up, ping)
      PROVE  Active!Next
  BY <1>5, QuietIsWorld DEF InitialDial, Quiet, balancerVars, Started, RunnerTypeOK
<1>6. CASE ObservatoryOn
  BY <1>6, QuietIsWorld DEF ObservatoryOn, Quiet, balancerVars, Started, RunnerGoes, RunnerTypeOK
<1>7. CASE ListTcpAddrs
  BY <1>7, QuietIsWorld DEF ListTcpAddrs, Quiet, balancerVars, Started, RunnerTypeOK
<1>8. CASE InitialDone
  BY <1>8, QuietIsWorld DEF InitialDone, Quiet, balancerVars, Started, RunnerGoes, RunnerTypeOK
<1>9. CASE CopyBackends
  BY <1>9, QuietIsWorld DEF CopyBackends, Quiet, balancerVars, Started, RunnerTypeOK
<1>10. ASSUME NEW r \in runner.todo, SubscriptionOK(r) \/ SubscriptionDown(r)
       PROVE  Active!Next
  <2>1. CASE SubscriptionOK(r)
    BY <2>1, QuietIsWorld DEF SubscriptionOK, Quiet, balancerVars, Started, RunnerTypeOK
  <2>2. CASE SubscriptionDown(r)
    BY <2>2, QuietIsWorld DEF SubscriptionDown, Quiet, balancerVars, Started, RunnerTypeOK
  <2>3. QED
    BY <1>10, <2>1, <2>2
<1>11. CASE CompareActive
  BY <1>11, QuietIsWorld DEF CompareActive, Quiet, balancerVars, Started, RunnerTypeOK
<1>12. CASE SubscriptionsDone
  <2>1. CASE runner.round = "warm"
    <3>1. runner' = [runner EXCEPT !.at = "tick", !.round = "loop"]
      BY <1>12, <2>1 DEF SubscriptionsDone
    <3>2. UNCHANGED balancerVars
      BY <1>12 DEF SubscriptionsDone
    <3>3. Started /\ Started'
      BY <2>1, <3>1 DEF Started, RunnerTypeOK
    <3>4. QED
      BY <3>2, <3>3, QuietIsWorld DEF Quiet, balancerVars
  <2>2. CASE runner.round # "warm"
    BY <1>12, <2>2, QuietIsWorld
       DEF SubscriptionsDone, Quiet, balancerVars, Started, RunnerGoes, RunnerTypeOK
  <2>3. QED
    BY <2>1, <2>2
<1>13. CASE TickQuery
  BY <1>13, QuietIsWorld DEF TickQuery, Quiet, balancerVars, Started, RunnerGoes, RunnerTypeOK
<1>14. CASE TickAssign
  BY <1>14, QuietIsWorld DEF TickAssign, Quiet, balancerVars, Started, RunnerGoes, RunnerTypeOK
<1>15. CASE Decide
  BY <1>15, QuietIsWorld DEF Decide, Quiet, balancerVars, Started, RunnerGoes, RunnerTypeOK
<1>16. QED
  BY <1>1, <1>2, <1>3, <1>4, <1>5, <1>6, <1>7, <1>8, <1>9, <1>10, <1>11, <1>12, <1>13, <1>14,
     <1>15 DEF RunnerStep

LEMMA NextMaps ==
  ASSUME IInv, ModeHasAddr, MaxPing < 9999, [Next]_vars
  PROVE  [Active!Next]_(Active!vars)
<1> USE DEF IInv
<1>1. CASE RunnerStep
  BY <1>1, RunnerMaps
<1>2. ASSUME NEW n \in Notifiers, NoticeFailover(n)
      PROVE  Active!Next
  BY <1>2, FailoverMaps DEF NoticeFailover, tableVars, Started
<1>3. ASSUME NEW a \in Addrs, SetManual(a)
      PROVE  Active!Next
  BY <1>3 DEF SetManual, Route, healthVars, tableVars, Started, Active!Next, Active!Pin,
              Active!worldVars
<1>4. CASE SetAuto
  <2>1. manualAddr' = NoAddr /\ UNCHANGED <<Started, statuses, pings, backends>> /\ ChooseBest
    BY <1>4 DEF SetAuto, healthVars, tableVars, Started
  <2>2. QED
    BY <2>1, ChooseBestMaps DEF Active!Next, Active!Release, Active!worldVars
<1>5. ASSUME \/ \E a \in Addrs, up \in BOOLEAN, ping \in Pings : Ping(a, up, ping)
             \/ Tail
             \/ \E n \in Notifiers : NoticeMode(n) \/ NoticeActive(n)
             \/ \E w \in Admins : AdminTable(w)
             \/ UNCHANGED vars
      PROVE  Active!Next
  <2>1. CASE Tail
    <3>1. CASE TailSetUp
      BY <3>1, QuietIsWorld DEF TailSetUp, Quiet, Started
    <3>2. ASSUME NEW a \in Tagged, NEW alive \in BOOLEAN, TailRead(a, alive)
          PROVE  Active!Next
      BY <3>2, QuietIsWorld DEF TailRead, Quiet, balancerVars, Started
    <3>3. ASSUME NEW n \in Notifiers, TailSetDown(n)
          PROVE  Active!Next
      BY <3>3, QuietIsWorld DEF TailSetDown, Quiet, balancerVars, Started
    <3>4. QED
      BY <2>1, <3>1, <3>2, <3>3 DEF Tail
  <2>2. ASSUME NEW n \in Notifiers, NoticeMode(n) \/ NoticeActive(n)
        PROVE  Active!Next
    BY <2>2, QuietIsWorld DEF NoticeMode, NoticeActive, Quiet, balancerVars, Started
  <2>3. ASSUME NEW w \in Admins, AdminTable(w)
        PROVE  Active!Next
    BY <2>3, QuietIsWorld DEF AdminTable, Quiet, balancerVars, Started
  <2>4. ASSUME NEW a \in Addrs, NEW up \in BOOLEAN, NEW ping \in Pings, Ping(a, up, ping)
        PROVE  Active!Next
    BY <2>4, QuietIsWorld DEF Ping, Quiet, balancerVars, Started
  <2>5. CASE UNCHANGED vars
    BY <2>5, QuietIsWorld DEF vars, Quiet, balancerVars, Started
  <2>6. QED
    BY <1>5, <2>1, <2>2, <2>3, <2>4, <2>5
<1>6. QED
  BY <1>1, <1>2, <1>3, <1>4, <1>5 DEF Next, NotifierStep

(* For any backends, tags, callbacks and admin requests, and pings of less *)
(* than ten seconds (the dial gives up after health_check_timeout, three   *)
(* by default): the current backend is moved only as ActiveBackend says.   *)
THEOREM ImplementsActive ==
  ASSUME MaxPing < 9999
  PROVE  Spec => OnlyAllowedMoves
<1>1. Init => Active!Init
  BY DEF Init, Active!Init, Started
<1>2. IInv /\ ModeHasAddr /\ [Next]_vars => [Active!Next]_(Active!vars)
  BY NextMaps
<1>3. QED
  BY <1>1, <1>2, ModeAlways, PTL DEF Spec, OnlyAllowedMoves, Active!Safety
=============================================================================
