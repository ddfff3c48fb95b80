------------------------------ MODULE XraySync ------------------------------
(***************************************************************************)
(* syncXrayLocked of balancer.go: how the choice of a backend reaches      *)
(* xray. It rewrites the routing rules of xray's config file and restarts  *)
(* the systemd unit proxy-balancer, and any of its steps can fail, or the  *)
(* process can die between two of them. What that unit runs is not settled *)
(* by the code: its log says xray, the README and the Makefile install     *)
(* this very program under that name. Both are modelled.                   *)
(* The choice itself is Balancer's: here currentAddr                       *)
(* just changes, and the loop of Start syncs again every interval as long  *)
(* as the mode is automatic. b.mu is held from the first step of a sync to *)
(* the last, so there is one sync at a time and no choice during it.       *)
(***************************************************************************)
EXTENDS Backend, Sequences

CONSTANTS
  Units,     \* what the unit that is restarted may run: "xray", "own"
  Tagged,    \* the addresses with a "proxy-" outbound in the file
  UserRules, \* the rules of the file that name neither a backend nor a balancer
  FirstFiles \* what the rules of the file may be before the first sync ever

(* A rule sends to a backend's outbound, to xray's own balancer, or is one *)
(* the administrator wrote for something else.                             *)
ForcedTo(a) == [kind |-> "force", rule |-> a]
Keep(r) == [kind |-> "keep", rule |-> r]
Balance == [kind |-> "balance", rule |-> NoAddr]

Rules == {ForcedTo(a) : a \in Tagged} \cup {Keep(r) : r \in UserRules} \cup {Balance}

ASSUME XraySyncAssumption ==
  /\ Units \subseteq {"xray", "own"}
  /\ Tagged \subseteq Addrs
  /\ FirstFiles \subseteq Seq(Rules)

VARIABLES
  unit,        \* what systemd restarts under the name proxy-balancer
  firstRules,  \* the rules of the file before the first sync ever
  currentAddr, manualMode,
  started,     \* selectInitial has run
  lastSyncedAddr,
  syncRecent,  \* time.Since(b.lastSyncTime) < 30 s
  sync,        \* where the sync in progress stands
  file,        \* the config file: what a sync finds in it, and its rules
  xray         \* the rules xray runs with

balancerVars == <<currentAddr, manualMode, started, lastSyncedAddr, syncRecent>>
settingVars == <<unit, firstRules>>
vars == <<settingVars, balancerVars, sync, file, xray>>

(* A file holds a list of rules, or null where the list should be, or it   *)
(* is cut short. xray takes null for no rules; a sync takes only a list.   *)
Whole(rules) == [is |-> "rules", rules |-> rules]
Null == [is |-> "null", rules |-> << >>]
Torn == [is |-> "torn", rules |-> << >>]

Idle == [at |-> "idle", rules |-> << >>]

TypeOK ==
  /\ unit \in Units /\ firstRules \in FirstFiles
  /\ {currentAddr, lastSyncedAddr} \subseteq Addrs \cup {NoAddr}
  /\ {manualMode, started, syncRecent} \subseteq BOOLEAN
  /\ file.is \in {"rules", "null", "torn"}
  /\ sync.at \in {"idle", "read", "write", "restart"}
  /\ \A rules \in {sync.rules, file.rules, xray} : rules \in Seq(Rules)

Init ==
  /\ unit \in Units /\ firstRules \in FirstFiles
  /\ currentAddr = NoAddr /\ lastSyncedAddr = NoAddr
  /\ manualMode = FALSE /\ syncRecent = FALSE /\ started = FALSE
  /\ sync = Idle
  /\ file = Whole(firstRules)
  /\ xray = firstRules

-----------------------------------------------------------------------------
(* The rules a sync writes for address a.                                  *)
(* Mutants: the rule an earlier sync wrote stays; an address without an    *)
(* outbound gets a rule as well.                                           *)
IsKept_Forced(rule) == rule.kind # "balance"

IsKept(rule) == rule.kind = "keep"

(* newRules, as the loop over the rules has left it.                       *)
Kept(rules) ==
  LET newRules[n \in 0 .. Len(rules)] ==
        IF n = 0 THEN << >>
        ELSE IF IsKept(rules[n]) THEN Append(newRules[n - 1], rules[n])
        ELSE newRules[n - 1]
  IN newRules[Len(rules)]

Routed_Untagged(a, rules) == <<ForcedTo(a)>> \o Kept(rules)

Routed(a, rules) == (IF a \in Tagged THEN <<ForcedTo(a)>> ELSE << >>) \o Kept(rules)

(* The list starts as nil, and what is still nil at the end is marshalled  *)
(* as null.                                                                *)
Marshalled(rules) == IF rules = << >> THEN Null ELSE Whole(rules)

(* Mutant: an address is synced once, however that went.                   *)
SyncBegins_Once(a) ==
  IF a = lastSyncedAddr
  THEN UNCHANGED <<lastSyncedAddr, syncRecent, sync>>
  ELSE lastSyncedAddr' = a /\ syncRecent' = TRUE /\ sync' = [Idle EXCEPT !.at = "read"]

(* The start of a sync of address a: what counts as synced is settled      *)
(* here, whatever happens to the sync afterwards.                          *)
SyncBegins(a) ==
  IF a = lastSyncedAddr /\ syncRecent
  THEN UNCHANGED <<lastSyncedAddr, syncRecent, sync>>
  ELSE lastSyncedAddr' = a /\ syncRecent' = TRUE /\ sync' = [Idle EXCEPT !.at = "read"]

(* selectInitial looks at no mode, and leaves all as it is when there is   *)
(* no backend. After it the loop runs.                                     *)
SelectInitial ==
  /\ sync = Idle
  /\ ~started
  /\ started' = TRUE
  /\ \/ \E a \in Addrs : currentAddr' = a /\ SyncBegins(a)
     \/ UNCHANGED <<currentAddr, lastSyncedAddr, syncRecent, sync>>
  /\ UNCHANGED <<settingVars, manualMode, file, xray>>

(* failover or selectBest chooses; SetManual does, or ends the manual      *)
(* choice; the loop syncs again though the choice is the same.             *)
Choose(a) ==
  /\ sync = Idle
  /\ ~manualMode
  /\ currentAddr' = a
  /\ SyncBegins(a)
  /\ UNCHANGED <<settingVars, manualMode, started, file, xray>>

SetManual(a) ==
  /\ sync = Idle
  /\ currentAddr' = a
  /\ manualMode' = TRUE
  /\ SyncBegins(a)
  /\ UNCHANGED <<settingVars, started, file, xray>>

SetAuto ==
  /\ sync = Idle
  /\ manualMode' = FALSE
  /\ SyncBegins(currentAddr)
  /\ UNCHANGED <<settingVars, currentAddr, started, file, xray>>

Tick ==
  /\ sync = Idle
  /\ started
  /\ ~manualMode
  /\ SyncBegins(currentAddr)
  /\ UNCHANGED <<settingVars, currentAddr, manualMode, started, file, xray>>

-----------------------------------------------------------------------------
(* The steps of one sync.                                                  *)
Read ==
  /\ sync.at = "read"
  /\ file.is = "rules"
  /\ sync' = [at |-> "write", rules |-> Routed(currentAddr, file.rules)]
  /\ UNCHANGED <<settingVars, balancerVars, file, xray>>

(* The file cannot be read, or not parsed, or has null for its rules: the  *)
(* sync returns, then and every time after.                                *)
ReadFail ==
  /\ sync.at = "read"
  /\ sync' = Idle
  /\ UNCHANGED <<settingVars, balancerVars, file, xray>>

(* os.WriteFile truncates the file, then writes it.                        *)
Truncate ==
  /\ sync.at = "write"
  /\ file.is # "torn"
  /\ file' = Torn
  /\ UNCHANGED <<settingVars, balancerVars, sync, xray>>

Write ==
  /\ sync.at = "write"
  /\ file.is = "torn"
  /\ file' = Marshalled(sync.rules)
  /\ sync' = [Idle EXCEPT !.at = "restart"]
  /\ UNCHANGED <<settingVars, balancerVars, xray>>

(* The open fails, or the write does after the truncation.                 *)
WriteFail ==
  /\ sync.at = "write"
  /\ sync' = Idle
  /\ UNCHANGED <<settingVars, balancerVars, file, xray>>

(* The process dies and is started again: only the file and xray stay.     *)
Reborn ==
  /\ currentAddr' = NoAddr /\ lastSyncedAddr' = NoAddr
  /\ manualMode' = FALSE /\ syncRecent' = FALSE /\ started' = FALSE
  /\ sync' = Idle

(* systemctl restart: xray comes back with the rules of the file, or the   *)
(* process that asked for it is the one that ends.                         *)
Restart ==
  /\ sync.at = "restart"
  /\ \/ /\ unit = "xray"
        /\ xray' = file.rules
        /\ sync' = Idle
        /\ UNCHANGED balancerVars
     \/ /\ unit = "own"
        /\ Reborn
        /\ UNCHANGED xray
  /\ UNCHANGED <<settingVars, file>>

RestartFail ==
  /\ sync.at = "restart"
  /\ sync' = Idle
  /\ UNCHANGED <<settingVars, balancerVars, file, xray>>

-----------------------------------------------------------------------------
(* Thirty seconds pass without a sync.                                     *)
Age ==
  /\ sync = Idle
  /\ syncRecent
  /\ syncRecent' = FALSE
  /\ UNCHANGED <<settingVars, currentAddr, manualMode, started, lastSyncedAddr, sync, file, xray>>

Crash ==
  /\ Reborn
  /\ UNCHANGED <<settingVars, file, xray>>

Next ==
  \/ \E a \in Addrs : Choose(a) \/ SetManual(a)
  \/ SelectInitial \/ SetAuto \/ Tick
  \/ Read \/ ReadFail
  \/ Truncate \/ Write \/ WriteFail
  \/ Restart \/ RestartFail
  \/ Age
  \/ Crash

(* Startup ends, the loop ticks for ever, time passes, a sync that has     *)
(* begun runs to its end, and reading a file that holds a list of rules,   *)
(* writing and restarting do not fail every time.                          *)
Fairness ==
  /\ SF_vars(SelectInitial) /\ SF_vars(Tick) /\ SF_vars(Age)
  /\ WF_vars(Read \/ ReadFail)
  /\ SF_vars(Read) /\ SF_vars(Truncate) /\ SF_vars(Write) /\ SF_vars(Restart)

Spec == Init /\ [][Next]_vars /\ Fairness

-----------------------------------------------------------------------------
Forces(a, rules) == rules # << >> /\ rules[1] = ForcedTo(a)

(* What a sync leaves does not depend on the syncs, failures and crashes   *)
(* before it: the rules of the administrator in their order, under at most *)
(* one rule that forces a backend, in xray and in every file that is not   *)
(* cut short; one with null has none of them to lose (balancer.go:336-368). *)
RulesForgetHistory ==
  \A rules \in {xray} \cup (IF file.is = "torn" THEN {} ELSE {file.rules}) :
    rules = firstRules \/ \E a \in Addrs \cup {NoAddr} : rules = Routed(a, firstRules)

OwnRules == \E i \in DOMAIN firstRules : firstRules[i].kind = "keep"

(* Where the unit is xray's, a choice that lasts in automatic mode reaches *)
(* xray in the end, although a sync that failed is taken for done: the     *)
(* loop repeats it once thirty seconds have passed (balancer.go:126-130,   *)
(* 308). Two things can end that for good, and nothing else can: a crash   *)
(* or a full disk between truncation and write (374); and, for an          *)
(* administrator with no rules of his own, one sync of an address without  *)
(* an outbound, whose null no later sync reads (336, 355, 366, 331-334).   *)
ChoiceReachesXray ==
  \A a \in Tagged :
    unit = "xray" /\ <>[](~manualMode /\ currentAddr = a)
      => \/ <>[]Forces(a, xray)
         \/ <>[](file.is = "torn")
         \/ ~OwnRules /\ <>[](file.is = "null")

(* balancer.go:357 logs "Xray routing forced to %s" and 383 "Xray restarted *)
(* successfully": if syncs come as far as the restart again and again, for *)
(* backends xray has an outbound for, then xray is made to use one.        *)
SyncsReachXray ==
  []<>(sync.at = "restart") /\ [](sync.at = "restart" => currentAddr \in Tagged)
    => <>(\E a \in Tagged : Forces(a, xray))
=============================================================================
