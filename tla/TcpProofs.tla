----------------------------- MODULE TcpProofs -----------------------------
(***************************************************************************)
(* Proofs about TcpMonitor, for any backends and any bound on pings and on *)
(* changes of the network.                                                 *)
(***************************************************************************)
EXTENDS TcpMonitor, TLAPS

(* The dial the initial loop holds is of a backend, so what it stores goes *)
(* to a key of both maps. TypeOK alone does not say it.                    *)
SampleOfBackend == sample = NoSample \/ sample.addr \in Addrs

IInv == TypeOK /\ SampleOfBackend

LEMMA Initially == Init => IInv
BY MaxPingAssumption, MaxFlipsAssumption
   DEF Init, IInv, TypeOK, HealthTypeOK, SampleOfBackend, Resting, NoSample, Pings

(* The two maps keep their types under every store.                        *)
LEMMA StoreTyped ==
  ASSUME HealthTypeOK, NEW a \in Addrs, NEW up \in BOOLEAN, NEW ping \in Pings,
         SetStatus(a, up) \/ UNCHANGED statuses, SetPing(a, ping) \/ UNCHANGED pings,
         UNCHANGED observatoryOK
  PROVE  HealthTypeOK'
BY DEF HealthTypeOK, SetStatus, SetPing

LEMMA WorldStep ==
  ASSUME IInv, NEW a \in Addrs, NEW up \in BOOLEAN, Flip(a) \/ Verdict(a, up)
  PROVE  IInv'
<1>1. flips + 1 \in 0 .. MaxFlips
  <2>1. flips \in 0 .. MaxFlips /\ MaxFlips \in Int
    BY MaxFlipsAssumption DEF IInv, TypeOK
  <2>2. flips < MaxFlips
    BY Zenon DEF Flip, Verdict
  <2>3. QED
    BY <2>1, <2>2
<1>2. CASE Flip(a)
  <2>1. HealthTypeOK'
    BY <1>2 DEF Flip, healthVars, IInv, TypeOK, HealthTypeOK
  <2>2. reach' \in [Addrs -> BOOLEAN]
    BY <1>2 DEF Flip, IInv, TypeOK
  <2>3. QED
    BY <1>1, <1>2, <2>1, <2>2 DEF Flip, IInv, TypeOK, SampleOfBackend
<1>3. CASE Verdict(a, up)
  <2>1. HealthTypeOK'
    BY <1>3, StoreTyped, MaxPingAssumption DEF Verdict, IInv, TypeOK, SetStatus, HealthTypeOK
  <2>2. QED
    BY <1>1, <1>3, <2>1 DEF Verdict, IInv, TypeOK, SampleOfBackend
<1>4. QED
  BY <1>2, <1>3

LEMMA InitialStep ==
  ASSUME IInv, Initial
  PROVE  IInv'
<1>1. ASSUME NEW a \in Addrs, NEW ping \in Pings, InitialDial(a, ping)
      PROVE  IInv'
  <2>1. HealthTypeOK'
    BY <1>1 DEF InitialDial, healthVars, IInv, TypeOK, HealthTypeOK
  <2>2. sample' \in [addr : Addrs \cup {NoAddr}, up : BOOLEAN, ping : Pings] /\ sample'.addr \in Addrs
    BY <1>1 DEF InitialDial, IInv, TypeOK
  <2>3. QED
    BY <1>1, <2>1, <2>2 DEF InitialDial, IInv, TypeOK, SampleOfBackend
<1>2. CASE InitialKeep
  <2>1. sample.addr \in Addrs /\ sample.up \in BOOLEAN /\ sample.ping \in Pings
    BY <1>2 DEF InitialKeep, IInv, TypeOK, SampleOfBackend
  <2>2. HealthTypeOK'
    BY <1>2, <2>1, StoreTyped DEF InitialKeep, InitialStore, IInv, TypeOK
  <2>3. NoSample \in [addr : Addrs \cup {NoAddr}, up : BOOLEAN, ping : Pings]
    BY MaxPingAssumption DEF NoSample, Pings
  <2>4. QED
    BY <1>2, <2>2, <2>3 DEF InitialKeep, IInv, TypeOK, SampleOfBackend
<1>3. QED
  BY <1>1, <1>2 DEF Initial

LEMMA ProberStep ==
  ASSUME IInv, ProbeKeep \/ \E a \in Addrs : Dial(a)
  PROVE  IInv'
<1> DEFINE Probers == [at : {"idle", "dialed"}, addr : Addrs \cup {NoAddr},
                       up : BOOLEAN, ping : Pings]
<1>1. prober \in Probers /\ (prober.at # "idle" => prober.addr \in Addrs) /\ HealthTypeOK
  BY DEF IInv, TypeOK
<1>2. Resting \in Probers /\ Resting.at = "idle"
  BY MaxPingAssumption DEF Resting, Pings
<1>3. HealthTypeOK' /\ prober' \in Probers /\ (prober'.at # "idle" => prober'.addr \in Addrs)
  <2>1. ASSUME NEW a \in Addrs, NEW ping \in Pings, ProbeDial(a, ping)
        PROVE  HealthTypeOK' /\ prober' \in Probers /\ prober'.addr \in Addrs
    <3>1. HealthTypeOK'
      BY <1>1, <2>1 DEF ProbeDial, healthVars, HealthTypeOK
    <3>2. prober' = [at |-> "dialed", addr |-> a, up |-> reach[a], ping |-> ping]
      BY <2>1 DEF ProbeDial
    <3>3. reach[a] \in BOOLEAN
      BY DEF IInv, TypeOK
    <3>4. QED
      BY <3>1, <3>2, <3>3
  <2>2. CASE ProbeKeep
    <3>1. prober.addr \in Addrs /\ prober.up \in BOOLEAN /\ prober.ping \in Pings
      BY <1>1, <2>2 DEF ProbeKeep
    <3>2. HealthTypeOK'
      BY <1>1, <2>2, <3>1, StoreTyped DEF ProbeKeep
    <3>3. QED
      BY <1>2, <2>2, <3>2 DEF ProbeKeep
  <2>3. QED
    BY <2>1, <2>2 DEF Dial
<1> HIDE DEF Probers
<1>4. UNCHANGED <<reach, unchecked, sample, flips>>
  BY DEF Dial, ProbeDial, ProbeKeep
<1>5. QED
  BY <1>3, <1>4 DEF IInv, TypeOK, SampleOfBackend, Probers

LEMMA Inductive == IInv /\ [Next]_vars => IInv'
<1> SUFFICES ASSUME IInv, [Next]_vars PROVE IInv'
  OBVIOUS
<1>1. CASE \E a \in Addrs : Flip(a) \/ \E up \in BOOLEAN : Verdict(a, up)
  BY <1>1, WorldStep
<1>2. CASE Initial
  BY <1>2, InitialStep
<1>3. CASE ProbeKeep \/ \E a \in Addrs : Dial(a)
  BY <1>3, ProberStep
<1>4. CASE UNCHANGED vars
  BY <1>4 DEF vars, healthVars, IInv, TypeOK, HealthTypeOK, SampleOfBackend
<1>5. QED
  BY <1>1, <1>2, <1>3, <1>4 DEF Next

(* The two maps hold a verdict and a measured ping for every backend, the  *)
(* two goroutines that fill them a dial of a backend or none               *)
(* (health.go:96-145).                                                     *)
THEOREM TypeCorrect == Spec => []TypeOK
<1>1. IInv => TypeOK
  BY DEF IInv
<1>2. QED
  BY <1>1, Initially, Inductive, PTL DEF Spec
=============================================================================
