----------------------------- MODULE XrayProofs -----------------------------
(***************************************************************************)
(* Proofs about XraySync: whatever the syncs, failures and crashes, the    *)
(* rules in the file and in xray are those of the administrator in their   *)
(* order, under at most one rule that forces a backend; for any addresses, *)
(* outbounds and rules, and a rule list of any length.                     *)
(* The loop over the rules is a recursive function, and what it computes   *)
(* is shown by induction on the length. The induction rests on the least   *)
(* element of a set of naturals: the library's induction theorems take an  *)
(* operator, which no prover here can instantiate; WFMin takes sets.       *)
(***************************************************************************)
EXTENDS XraySync, TLAPS, WellFoundedInduction

-----------------------------------------------------------------------------
(* Induction.                                                              *)
LEMMA Least ==
  ASSUME NEW T \in SUBSET Nat, T # {}
  PROVE  \E m \in T : \A n \in T : m <= n
<1>1. \A x, y \in Nat : x < y => <<x, y>> \in OpToRel(<, Nat)
  BY Zenon DEF OpToRel
<1>2. \E m \in T : \A n \in T : ~(n < m)
  <2>1. \E m \in T : \A n \in T : ~(<<n, m>> \in OpToRel(<, Nat))
    BY WFMin, NatLessThanWellFounded, Zenon
  <2>2. QED
    BY <1>1, <2>1, Zenon
<1>3. QED
  BY <1>2

LEMMA UpTo ==
  ASSUME NEW top \in Nat, NEW S, 0 \in S, \A n \in 0 .. top : n \in S /\ n < top => n + 1 \in S
  PROVE  \A n \in 0 .. top : n \in S
<1> DEFINE T == {n \in 0 .. top : n \notin S}
<1>1. SUFFICES ASSUME T # {} PROVE FALSE
  OBVIOUS
<1>2. T \in SUBSET Nat
  OBVIOUS
<1>3. PICK m \in T : \A n \in T : m <= n
  <2> HIDE DEF T
  <2>1. QED
    BY <1>1, <1>2, Least
<1>4. m \in Nat /\ m # 0 /\ m \in 0 .. top /\ m \notin S
  OBVIOUS
<1>5. m - 1 \in 0 .. top /\ m - 1 < top /\ (m - 1) + 1 = m /\ ~(m <= m - 1)
  BY <1>4
<1>6. m - 1 \in S
  BY <1>3, <1>5
<1>7. QED
  BY <1>4, <1>5, <1>6

-----------------------------------------------------------------------------
(* The loop over the rules. newRules[n] is the list after n of them.       *)
Loop(rules, top, newRules) ==
  newRules = [n \in 0 .. top |->
                IF n = 0 THEN << >>
                ELSE IF IsKept(rules[n]) THEN Append(newRules[n - 1], rules[n])
                ELSE newRules[n - 1]]

LEMMA LoopRuns ==
  ASSUME NEW rules \in Seq(Rules)
  PROVE  \E newRules : Loop(rules, Len(rules), newRules)
<1> DEFINE S == {m \in Nat : \E g : Loop(rules, m, g)}
<1>1. 0 \in S
  <2> DEFINE g == [n \in 0 .. 0 |-> << >>]
  <2>1. Loop(rules, 0, g)
    BY DEF Loop
  <2>2. QED
    BY <2>1
<1>2. ASSUME NEW m \in Nat, m \in S
      PROVE  m + 1 \in S
  <2>1. PICK g : Loop(rules, m, g)
    BY <1>2
  <2> DEFINE last == IF IsKept(rules[m + 1]) THEN Append(g[m], rules[m + 1]) ELSE g[m]
             h == [n \in 0 .. m + 1 |-> IF n <= m THEN g[n] ELSE last]
  <2>2. ASSUME NEW n \in 0 .. m + 1
        PROVE  h[n] = IF n = 0 THEN << >>
                      ELSE IF IsKept(rules[n]) THEN Append(h[n - 1], rules[n])
                      ELSE h[n - 1]
    <3>1. CASE n = 0
      BY <2>1, <3>1 DEF Loop
    <3>2. CASE n # 0 /\ n <= m
      <4>1. n \in 0 .. m /\ n - 1 \in 0 .. m /\ n - 1 <= m /\ n - 1 \in 0 .. m + 1
        BY <3>2
      <4>2. h[n] = g[n] /\ h[n - 1] = g[n - 1]
        BY <4>1
      <4>3. QED
        BY <2>1, <3>2, <4>1, <4>2 DEF Loop
    <3>3. CASE n = m + 1
      <4>1. n # 0 /\ ~(n <= m) /\ n - 1 = m /\ m \in 0 .. m + 1 /\ m <= m
        BY <3>3
      <4>2. h[n] = last /\ h[n - 1] = g[m]
        BY <4>1
      <4>3. QED
        BY <3>3, <4>1, <4>2
    <3>4. QED
      BY <3>1, <3>2, <3>3
  <2>3. h = [n \in 0 .. m + 1 |-> h[n]]
    OBVIOUS
  <2> HIDE DEF h
  <2>4. Loop(rules, m + 1, h)
    BY <2>2, <2>3 DEF Loop
  <2>5. QED
    BY <2>4
<1>3. PICK top \in Nat : top = Len(rules)
  OBVIOUS
<1> HIDE DEF S
<1>4. \A n \in 0 .. top : n \in S
  BY <1>1, <1>2, UpTo
<1>5. Len(rules) \in S
  BY <1>3, <1>4
<1>6. QED
  BY <1>5 DEF S

LEMMA KeptLoop ==
  ASSUME NEW rules \in Seq(Rules)
  PROVE  \E newRules : /\ Loop(rules, Len(rules), newRules)
                       /\ Kept(rules) = newRules[Len(rules)]
<1>1. PICK g : Loop(rules, Len(rules), g)
  BY LoopRuns
<1>2. QED
  BY <1>1 DEF Kept, Loop


LEMMA LoopTurn ==
  ASSUME NEW rules, NEW top \in Nat, NEW f, Loop(rules, top, f)
  PROVE  /\ f[0] = << >>
         /\ \A n \in 0 .. top : n < top =>
              f[n + 1] = IF IsKept(rules[n + 1]) THEN Append(f[n], rules[n + 1]) ELSE f[n]
<1>1. f[0] = << >>
  BY DEF Loop
<1>2. ASSUME NEW n \in 0 .. top, n < top
      PROVE  f[n + 1] = IF IsKept(rules[n + 1]) THEN Append(f[n], rules[n + 1]) ELSE f[n]
  <2>1. n + 1 \in 0 .. top /\ n + 1 # 0 /\ (n + 1) - 1 = n
    BY <1>2
  <2>2. PICK m \in 0 .. top : m = n + 1 /\ m # 0 /\ m - 1 = n
    BY <2>1
  <2>3. f[m] = IF IsKept(rules[m]) THEN Append(f[m - 1], rules[m]) ELSE f[m - 1]
    BY <2>2 DEF Loop
  <2>4. QED
    BY <2>2, <2>3
<1>3. QED
  BY <1>1, <1>2

-----------------------------------------------------------------------------
(* What the loop leaves is a list of kept rules.                           *)
KeptRules == {rule \in Rules : IsKept(rule)}

LEMMA KeptTyped ==
  ASSUME NEW rules \in Seq(Rules)
  PROVE  Kept(rules) \in Seq(KeptRules)
<1>1. PICK f : Loop(rules, Len(rules), f) /\ Kept(rules) = f[Len(rules)]
  BY KeptLoop
<1>2. PICK top \in Nat : top = Len(rules)
  OBVIOUS
<1> DEFINE S == {n \in Nat : f[n] \in Seq(KeptRules)}
<1>3. 0 \in S
  <2>1. f[0] = << >>
    BY <1>1, <1>2, LoopTurn
  <2>2. << >> \in Seq(KeptRules)
    OBVIOUS
  <2>3. QED
    BY <2>1, <2>2
<1>4. ASSUME NEW n \in 0 .. top, n \in S, n < top
      PROVE  n + 1 \in S
  <2>1. f[n + 1] = IF IsKept(rules[n + 1]) THEN Append(f[n], rules[n + 1]) ELSE f[n]
    BY <1>1, <1>2, <1>4, LoopTurn
  <2>2. rules[n + 1] \in Rules /\ f[n] \in Seq(KeptRules) /\ n + 1 \in Nat
    BY <1>2, <1>4
  <2>3. CASE IsKept(rules[n + 1])
    <3>1. rules[n + 1] \in KeptRules
      BY <2>2, <2>3 DEF KeptRules
    <3>2. Append(f[n], rules[n + 1]) \in Seq(KeptRules)
      BY <2>2, <3>1
    <3>3. QED
      BY <2>1, <2>2, <2>3, <3>2
  <2>4. CASE ~IsKept(rules[n + 1])
    BY <2>1, <2>2, <2>4
  <2>5. QED
    BY <2>3, <2>4
<1> HIDE DEF S
<1>5. \A n \in 0 .. top : n \in S
  BY <1>3, <1>4, UpTo
<1>6. QED
  BY <1>1, <1>2, <1>5 DEF S

(* It keeps a list of kept rules as it is.                                 *)
LEMMA KeptAll ==
  ASSUME NEW rules \in Seq(KeptRules)
  PROVE  Kept(rules) = rules
<1>0. rules \in Seq(Rules)
  BY DEF KeptRules
<1>1. PICK f : Loop(rules, Len(rules), f) /\ Kept(rules) = f[Len(rules)]
  BY <1>0, KeptLoop
<1>2. PICK top \in Nat : top = Len(rules)
  OBVIOUS
<1> DEFINE S == {n \in Nat : /\ f[n] \in Seq(KeptRules) /\ Len(f[n]) = n
                             /\ \A i \in 1 .. n : f[n][i] = rules[i]}
<1>3. 0 \in S
  <2>1. f[0] = << >>
    BY <1>1, <1>2, LoopTurn
  <2>2. << >> \in Seq(KeptRules) /\ Len(<< >>) = 0
    OBVIOUS
  <2>3. \A i \in 1 .. 0 : f[0][i] = rules[i]
    OBVIOUS
  <2>4. QED
    BY <2>1, <2>2, <2>3
<1>4. ASSUME NEW n \in 0 .. top, n \in S, n < top
      PROVE  n + 1 \in S
  <2>1. f[n + 1] = IF IsKept(rules[n + 1]) THEN Append(f[n], rules[n + 1]) ELSE f[n]
    BY <1>1, <1>2, <1>4, LoopTurn
  <2>2. n + 1 \in 1 .. Len(rules) /\ n \in Nat
    BY <1>2, <1>4
  <2>3. rules[n + 1] \in KeptRules /\ IsKept(rules[n + 1])
    BY <2>2 DEF KeptRules
  <2>4. PICK s \in Seq(KeptRules) : s = f[n] /\ Len(s) = n /\ \A i \in 1 .. n : s[i] = rules[i]
    BY <1>4
  <2>5. PICK rule \in KeptRules : rule = rules[n + 1]
    BY <2>3
  <2>6. f[n + 1] = Append(s, rule)
    BY <2>1, <2>3, <2>4, <2>5
  <2>7. /\ Append(s, rule) \in Seq(KeptRules) /\ Len(Append(s, rule)) = n + 1
        /\ \A i \in 1 .. n + 1 : Append(s, rule)[i] = rules[i]
    BY <2>2, <2>4, <2>5
  <2>8. PICK longer \in Seq(KeptRules) : /\ longer = f[n + 1] /\ Len(longer) = n + 1
                                         /\ \A i \in 1 .. n + 1 : longer[i] = rules[i]
    BY <2>6, <2>7
  <2>9. PICK m \in Nat : m = n + 1
    BY <2>2
  <2>10. m \in S
    BY <2>8, <2>9
  <2>11. QED
    BY <2>9, <2>10
<1> HIDE DEF S
<1>5. \A n \in 0 .. top : n \in S
  BY <1>3, <1>4, UpTo
<1>6. top \in S
  BY <1>5
<1>7. PICK s \in Seq(KeptRules) : s = f[top] /\ Len(s) = top /\ \A i \in 1 .. top : s[i] = rules[i]
  BY <1>6 DEF S
<1>8. s = rules
  BY <1>2, <1>7
<1>9. QED
  BY <1>1, <1>2, <1>7, <1>8

(* A rule in front that is not kept makes no difference.                   *)
LEMMA KeptAfter ==
  ASSUME NEW rules \in Seq(Rules), NEW first \in Rules, ~IsKept(first)
  PROVE  Kept(<<first>> \o rules) = Kept(rules)
<1> DEFINE more == <<first>> \o rules
<1>1. PICK top \in Nat : top = Len(rules)
  OBVIOUS
<1>2. /\ more \in Seq(Rules) /\ Len(more) = top + 1 /\ more[1] = first
      /\ \A i \in 1 .. top : more[i + 1] = rules[i]
  BY <1>1
<1> HIDE DEF more
<1>3. PICK f : Loop(rules, top, f) /\ Kept(rules) = f[top]
  BY <1>1, KeptLoop
<1>4. PICK g : Loop(more, top + 1, g) /\ Kept(more) = g[top + 1]
  BY <1>2, KeptLoop
<1>5. PICK next \in Nat : next = top + 1
  OBVIOUS
<1>6. /\ g[0] = << >>
      /\ \A n \in 0 .. top + 1 : n < top + 1 =>
           g[n + 1] = IF IsKept(more[n + 1]) THEN Append(g[n], more[n + 1]) ELSE g[n]
  BY <1>4, <1>5, LoopTurn
<1> DEFINE S == {n \in Nat : g[n + 1] = f[n]}
<1>7. 0 \in S
  <2>1. f[0] = << >>
    BY <1>3, LoopTurn
  <2>2. g[0 + 1] = g[0]
    BY <1>2, <1>6
  <2>3. QED
    BY <1>6, <2>1, <2>2
<1>8. ASSUME NEW n \in 0 .. top, n \in S, n < top
      PROVE  n + 1 \in S
  <2>1. f[n + 1] = IF IsKept(rules[n + 1]) THEN Append(f[n], rules[n + 1]) ELSE f[n]
    BY <1>3, <1>8, LoopTurn
  <2>2. g[n + 1] = f[n]
    BY <1>8
  <2>3. PICK m \in 0 .. top + 1 : m = n + 1 /\ m < top + 1 /\ m \in 1 .. top
    BY <1>8
  <2>4. g[m + 1] = IF IsKept(more[m + 1]) THEN Append(g[m], more[m + 1]) ELSE g[m]
    BY <1>6, <2>3
  <2>5. more[m + 1] = rules[m]
    BY <1>2, <2>3
  <2>6. g[m + 1] = f[m]
    BY <2>1, <2>2, <2>3, <2>4, <2>5
  <2>7. QED
    BY <2>3, <2>6
<1> HIDE DEF S
<1>9. \A n \in 0 .. top : n \in S
  BY <1>7, <1>8, UpTo
<1>10. g[top + 1] = f[top]
  BY <1>9 DEF S
<1>11. QED
  BY <1>3, <1>4, <1>10 DEF more

-----------------------------------------------------------------------------
(* What is written for an address from any of the lists this system makes  *)
(* is what is written for it from the first list.                          *)
Targets == Addrs \cup {NoAddr}

(* A list that shows nothing of the past.                                  *)
Fresh(rules) == rules = firstRules \/ \E a \in Targets : rules = Routed(a, firstRules)

LEMMA RuleKinds ==
  ASSUME NEW a \in Tagged
  PROVE  ForcedTo(a) \in Rules /\ ~IsKept(ForcedTo(a))
BY DEF Rules, ForcedTo, IsKept

LEMMA RoutedTyped ==
  ASSUME NEW a, NEW rules \in Seq(Rules)
  PROVE  Routed(a, rules) \in Seq(Rules)
<1>1. PICK kept \in Seq(Rules) : kept = Kept(rules)
  <2>1. Kept(rules) \in Seq(KeptRules) /\ KeptRules \subseteq Rules
    BY KeptTyped DEF KeptRules
  <2>2. QED
    BY <2>1
<1>2. CASE a \in Tagged
  <2>1. PICK first \in Rules : first = ForcedTo(a)
    BY <1>2, RuleKinds
  <2>2. <<first>> \in Seq(Rules)
    OBVIOUS
  <2>3. <<first>> \o kept \in Seq(Rules)
    BY <2>2
  <2>4. QED
    BY <1>1, <1>2, <2>1, <2>3 DEF Routed
<1>3. CASE a \notin Tagged
  <2>1. << >> \o kept = kept
    OBVIOUS
  <2>2. QED
    BY <1>1, <1>3, <2>1 DEF Routed
<1>4. QED
  BY <1>2, <1>3

LEMMA KeptOfRouted ==
  ASSUME NEW a, NEW rules \in Seq(Rules)
  PROVE  Kept(Routed(a, rules)) = Kept(rules)
<1>1. PICK kept \in Seq(KeptRules) : kept = Kept(rules)
  BY KeptTyped
<1>2. kept \in Seq(Rules) /\ Kept(kept) = kept
  BY KeptAll DEF KeptRules
<1>3. CASE a \in Tagged
  <2>1. PICK first \in Rules : first = ForcedTo(a) /\ ~IsKept(first)
    BY <1>3, RuleKinds
  <2>2. Kept(<<first>> \o kept) = Kept(kept)
    BY <1>2, <2>1, KeptAfter
  <2>3. QED
    BY <1>1, <1>2, <1>3, <2>1, <2>2 DEF Routed
<1>4. CASE a \notin Tagged
  <2>1. << >> \o kept = kept
    OBVIOUS
  <2>2. QED
    BY <1>1, <1>2, <1>4, <2>1 DEF Routed
<1>5. QED
  BY <1>3, <1>4

LEMMA RoutedForgets ==
  ASSUME TypeOK, NEW a \in Targets, NEW rules, Fresh(rules)
  PROVE  Fresh(Routed(a, rules))
<1>1. firstRules \in Seq(Rules)
  BY XraySyncAssumption DEF TypeOK
<1>2. Kept(rules) = Kept(firstRules)
  BY <1>1, KeptOfRouted DEF Fresh
<1>3. Routed(a, rules) = Routed(a, firstRules)
  BY <1>2 DEF Routed
<1>4. QED
  BY <1>3 DEF Fresh

LEMMA FreshTyped ==
  ASSUME TypeOK, NEW rules, Fresh(rules)
  PROVE  rules \in Seq(Rules)
BY RoutedTyped, XraySyncAssumption DEF Fresh, TypeOK

-----------------------------------------------------------------------------
(* The inductive invariant: nothing in flight shows the past either, and   *)
(* a restart is only asked for when the file is not cut short.             *)
NoHistory ==
  /\ Fresh(xray)
  /\ file.is # "torn" => Fresh(file.rules)
  /\ sync.at = "write" => Fresh(sync.rules)
  /\ sync.at = "restart" => file.is # "torn"

IInv == TypeOK /\ NoHistory


LEMMA Initially == Init => IInv
<1> SUFFICES ASSUME Init PROVE IInv
  OBVIOUS
<1>1. << >> \in Seq(Rules) /\ firstRules \in Seq(Rules)
  BY XraySyncAssumption DEF Init
<1>2. TypeOK
  BY <1>1 DEF Init, TypeOK, Idle, Whole
<1>3. NoHistory
  BY DEF Init, NoHistory, Fresh, Idle, Whole
<1>4. QED
  BY <1>2, <1>3 DEF IInv

LEMMA SyncStarts ==
  ASSUME IInv, UNCHANGED <<unit, firstRules, file, xray>>, unit' \in Units,
         {currentAddr, lastSyncedAddr}' \subseteq Targets,
         {manualMode, started, syncRecent}' \subseteq BOOLEAN,
         sync' = sync \/ sync' = Idle \/ sync' = [Idle EXCEPT !.at = "read"]
  PROVE  IInv'
<1>1. << >> \in Seq(Rules)
  OBVIOUS
<1>2. /\ sync'.at \in {"idle", "read", "write", "restart"}
      /\ sync'.rules \in Seq(Rules)
      /\ sync'.at = "write" => Fresh(sync'.rules)
      /\ sync'.at = "restart" => file.is # "torn"
  <2>1. CASE sync' = sync
    BY <2>1 DEF IInv, TypeOK, NoHistory
  <2>2. CASE sync' = Idle
    BY <1>1, <2>2 DEF Idle
  <2>3. CASE sync' = [Idle EXCEPT !.at = "read"]
    BY <1>1, <2>3 DEF Idle
  <2>4. QED
    BY <2>1, <2>2, <2>3
<1>3. TypeOK'
  BY <1>2 DEF IInv, TypeOK, Targets
<1>4. NoHistory'
  BY <1>2 DEF IInv, NoHistory, Fresh
<1>5. QED
  BY <1>3, <1>4 DEF IInv

LEMMA ChoiceStep ==
  ASSUME IInv, SelectInitial \/ SetAuto \/ Tick \/ Age \/ Crash \/ ReadFail \/ WriteFail \/ RestartFail
         \/ \E a \in Addrs : Choose(a) \/ SetManual(a)
  PROVE  IInv'
<1>1. /\ unit \in Units /\ currentAddr \in Targets /\ lastSyncedAddr \in Targets
      /\ {manualMode, started, syncRecent} \subseteq BOOLEAN
      /\ NoAddr \in Targets /\ Addrs \subseteq Targets
  BY DEF IInv, TypeOK, Targets
<1>2. CASE SelectInitial
  BY <1>1, <1>2, SyncStarts DEF SelectInitial, SyncBegins, settingVars
<1>3. CASE SetAuto
  BY <1>1, <1>3, SyncStarts DEF SetAuto, SyncBegins, settingVars
<1>4. CASE Tick
  BY <1>1, <1>4, SyncStarts DEF Tick, SyncBegins, settingVars
<1>5. CASE Age
  BY <1>1, <1>5, SyncStarts DEF Age, settingVars
<1>6. CASE Crash
  BY <1>1, <1>6, SyncStarts DEF Crash, Reborn, settingVars
<1>7. CASE ReadFail \/ WriteFail \/ RestartFail
  BY <1>1, <1>7, SyncStarts DEF ReadFail, WriteFail, RestartFail, balancerVars, settingVars
<1>8. ASSUME NEW a \in Addrs, Choose(a) \/ SetManual(a)
      PROVE  IInv'
  BY <1>1, <1>8, SyncStarts DEF Choose, SetManual, SyncBegins, settingVars
<1>9. QED
  BY <1>2, <1>3, <1>4, <1>5, <1>6, <1>7, <1>8

LEMMA ReadStep ==
  ASSUME IInv, Read
  PROVE  IInv'
<1>1. PICK rules : rules = Routed(currentAddr, file.rules)
  OBVIOUS
<1>2. Fresh(rules)
  BY <1>1, RoutedForgets DEF Read, IInv, TypeOK, NoHistory, Targets
<1>3. rules \in Seq(Rules)
  BY <1>2, FreshTyped DEF IInv
<1>4. /\ sync' = [at |-> "write", rules |-> rules]
      /\ UNCHANGED <<unit, firstRules, currentAddr, manualMode, started, lastSyncedAddr, syncRecent,
                    file, xray>>
  BY <1>1 DEF Read, balancerVars, settingVars
<1>5. TypeOK'
  BY <1>3, <1>4 DEF IInv, TypeOK
<1>6. NoHistory'
  BY <1>2, <1>4 DEF IInv, NoHistory, Fresh
<1>7. QED
  BY <1>5, <1>6 DEF IInv

LEMMA WriteStep ==
  ASSUME IInv, Truncate \/ Write \/ Restart
  PROVE  IInv'
<1>1. << >> \in Seq(Rules)
  OBVIOUS
<1>2. CASE Truncate
  <2>1. TypeOK'
    BY <1>1, <1>2 DEF Truncate, IInv, TypeOK, balancerVars, settingVars, Torn
  <2>2. NoHistory'
    BY <1>2 DEF Truncate, IInv, NoHistory, Fresh, settingVars, Torn
  <2>3. QED
    BY <2>1, <2>2 DEF IInv
<1>3. CASE Write
  <2>0. /\ file'.is \in {"rules", "null"}
        /\ file'.rules = sync.rules
    BY <1>3 DEF Write, Marshalled, Whole, Null
  <2>1. TypeOK'
    BY <1>1, <1>3, <2>0 DEF Write, IInv, TypeOK, balancerVars, settingVars, Idle
  <2>2. NoHistory'
    BY <1>3, <2>0 DEF Write, IInv, NoHistory, Fresh, settingVars, Idle
  <2>3. QED
    BY <2>1, <2>2 DEF IInv
<1>4. CASE Restart
  <2>1. TypeOK'
    <3>1. UNCHANGED <<unit, firstRules, file>> /\ sync' = [at |-> "idle", rules |-> << >>]
      BY <1>4 DEF Restart, Reborn, Idle, settingVars
    <3>2. xray' = file.rules \/ xray' = xray
      BY <1>4 DEF Restart
    <3>3. UNCHANGED balancerVars \/ Reborn
      BY <1>4 DEF Restart
    <3>4. {currentAddr, lastSyncedAddr}' \subseteq Targets /\ {manualMode, started, syncRecent}' \subseteq BOOLEAN
      BY <3>3 DEF Reborn, balancerVars, IInv, TypeOK, Targets
    <3>5. file.rules \in Seq(Rules) /\ xray \in Seq(Rules) /\ unit \in Units /\ firstRules \in FirstFiles
          /\ file.is \in {"rules", "null", "torn"}
      BY DEF IInv, TypeOK
    <3>6. file'.rules \in Seq(Rules) /\ xray' \in Seq(Rules) /\ unit' \in Units /\ firstRules' \in FirstFiles
          /\ file'.is \in {"rules", "null", "torn"}
      BY <3>1, <3>2, <3>5
    <3>7. sync'.at \in {"idle", "read", "write", "restart"} /\ sync'.rules \in Seq(Rules)
      BY <1>1, <3>1
    <3>8. QED
      BY <3>4, <3>6, <3>7 DEF TypeOK, Targets
  <2>2. NoHistory'
    BY <1>4 DEF Restart, Reborn, IInv, NoHistory, Fresh, settingVars, Idle
  <2>3. QED
    BY <2>1, <2>2 DEF IInv
<1>5. QED
  BY <1>2, <1>3, <1>4

LEMMA Inductive == IInv /\ [Next]_vars => IInv'
<1> SUFFICES ASSUME IInv, [Next]_vars PROVE IInv'
  OBVIOUS
<1>1. CASE Read
  BY <1>1, ReadStep
<1>2. CASE Truncate \/ Write \/ Restart
  BY <1>2, WriteStep
<1>3. CASE SelectInitial \/ SetAuto \/ Tick \/ Age \/ Crash \/ ReadFail \/ WriteFail \/ RestartFail
  BY <1>3, ChoiceStep
<1>4. CASE \E a \in Addrs : Choose(a) \/ SetManual(a)
  BY <1>4, ChoiceStep
<1>5. CASE UNCHANGED vars
  <2>1. UNCHANGED <<unit, firstRules, currentAddr, manualMode, started, lastSyncedAddr, syncRecent,
                    sync, file, xray>>
    BY <1>5 DEF vars, balancerVars, settingVars
  <2>2. QED
    BY <2>1 DEF IInv, TypeOK, NoHistory, Fresh
<1>6. QED
  BY <1>1, <1>2, <1>3, <1>4, <1>5 DEF Next

LEMMA Enough == IInv => TypeOK /\ RulesForgetHistory
BY DEF IInv, NoHistory, Fresh, RulesForgetHistory, Targets

(* Every variable keeps its type: what is written to the file and what     *)
(* xray runs with are lists of rules (balancer.go:294-388).                *)
THEOREM TypeCorrect == Spec => []TypeOK
BY Initially, Inductive, Enough, PTL DEF Spec

(* Whatever syncs, failures and crashes came before, the file and xray     *)
(* hold the first rules or what one sync makes of them: the rules of the   *)
(* administrator in their order under at most one that forces a backend    *)
(* (balancer.go:336-368).                                                  *)
THEOREM HistoryForgotten == Spec => []RulesForgetHistory
BY Initially, Inductive, Enough, PTL DEF Spec
=============================================================================
