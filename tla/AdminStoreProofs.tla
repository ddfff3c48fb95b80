-------------------------- MODULE AdminStoreProofs --------------------------
(***************************************************************************)
(* The invariants of the admin panel's database, for any entries, feeds,   *)
(* links, clients, crashes and requests in flight. Three in turn, each on  *)
(* top of the ones before:                                                 *)
(*   IInv      seeding: ids are never handed out again, nothing else runs  *)
(*             meanwhile, and it goes through the entries in order;        *)
(*   StoreInv  what the rows refer to, and where a request can be;         *)
(*   Whole     per backend and link, what is imported and what is left to  *)
(*             import make up what was fetched.                            *)
(***************************************************************************)
EXTENDS AdminStore, TableProofs, FiniteSetTheorems

BootStages == {"count", "row", "fetch", "import", "load", "up"}

BootOK == boot \in [at : BootStages, entry : Nat, id : Nat, links : Seq(Links)]

Unique == \A r, s \in db : r.id = s.id => r = s

Fresh ==
  /\ \A r \in db : r.id < nextId
  /\ origin \in [Ids -> Nat]
  /\ \A id \in Ids : id >= nextId => origin[id] = 0

Quiet ==
  boot.at # "up" =>
    /\ \A w \in Admins : task[w].at = "idle"
    /\ \A w \in Reloaders : reloader[w].at = "idle"

(* The rows there are come from the entries before the one at hand, and    *)
(* the count comes before the first.                                       *)
InOrder ==
  /\ boot.at = "count" => boot.entry = 1
  /\ boot.at = "row" => \A r \in db : origin[r.id] < boot.entry
  /\ boot.at \in {"fetch", "import"} => \A r \in db : origin[r.id] <= boot.entry

IInv == TableTypeOK /\ BootOK /\ Unique /\ Fresh /\ Quiet /\ InOrder /\ SeededOnce

-----------------------------------------------------------------------------
LEMMA ServerIsAddr ==
  ASSUME NEW feed \in Feeds, ServerOf(feed) # NoAddr
  PROVE  ServerOf(feed) \in Addrs
<1>1. \E i \in DOMAIN feed : Names(feed, i)
  BY DEF ServerOf
<1>2. PICK j \in DOMAIN feed : Names(feed, j) /\ ServerOf(feed) = ServerInfo(feed[j])
  BY <1>1 DEF ServerOf
<1>3. feed[j] \in Links
  BY StoreAssumption
<1>4. QED
  BY <1>2, <1>3 DEF Names, ServerInfo, Links

LEMMA InitInv == Init => IInv
<1> SUFFICES ASSUME Init PROVE IInv
  OBVIOUS
<1>1. TableTypeOK
  BY TableInitTyped DEF Init
<1>2. BootOK
  BY DEF Init, BootOK, Boot, BootStages
<1>3. Unique
  BY InitialTablesAssumption DEF Init, TableInit, Unique
<1>4. Fresh /\ \A id \in Ids : origin[id] = 0
  BY DEF Init, TableInit, Fresh
<1>5. Quiet
  BY DEF Init, TableInit, Quiet, NoTask, Task, At, Holding
<1>6. InOrder
  BY DEF Init, InOrder, Boot
<1>7. SeededOnce
  <2>1. \A r \in db : r.id \in Ids
    BY <1>1 DEF TableTypeOK, Rows, Ids
  <2>2. QED
    BY <1>4, <2>1 DEF SeededOnce
<1>8. QED
  BY <1>1, <1>2, <1>3, <1>4, <1>5, <1>6, <1>7 DEF IInv

-----------------------------------------------------------------------------
(* Once the process is up no row is seeded; the table changes row by row   *)
(* without a new id, or by one row with a fresh one.                       *)
LEMMA UpKeeps ==
  ASSUME IInv, boot.at = "up", UNCHANGED <<boot, origin>>, TableTypeOK', nextId' = nextId,
         \A r \in db' : \E s \in db : s.id = r.id,
         Unique'
  PROVE  IInv'
<1> USE DEF IInv
<1>1. BootOK' /\ Quiet' /\ InOrder'
  BY DEF BootOK, Quiet, InOrder
<1>2. Fresh'
  BY DEF Fresh
<1>3. SeededOnce'
  <2>1. SUFFICES ASSUME NEW r \in db', NEW s \in db', origin[r.id] # 0,
                        origin[r.id] = origin[s.id]
                 PROVE  r = s
    BY DEF SeededOnce
  <2>2. PICK q \in db, t \in db : q.id = r.id /\ t.id = s.id
    OBVIOUS
  <2>3. q = t
    BY <2>1, <2>2 DEF SeededOnce
  <2>4. QED
    BY <2>2, <2>3 DEF Unique
<1>4. QED
  BY <1>1, <1>2, <1>3

LEMMA RowsKept ==
  ASSUME IInv, db' = db
  PROVE  Unique' /\ \A r \in db' : \E s \in db : s.id = r.id
BY DEF IInv, Unique

LEMMA UpAdds ==
  ASSUME IInv, boot.at = "up", UNCHANGED <<boot, origin>>,
         NEW w \in Admins, NEW a \in Addrs, NEW primary \in BOOLEAN, AddBackend(w, a, primary)
  PROVE  IInv'
<1> USE DEF IInv
<1> DEFINE new == [id |-> nextId, addr |-> a, primary |-> primary, enabled |-> TRUE]
<1>1. TableTypeOK'
  BY AdminTyped DEF AdminStart
<1>2. db' = db \cup {new} /\ nextId' = nextId + 1 /\ nextId <= MaxId /\ new.id = nextId
  BY DEF AddBackend
<1>3. nextId \in Ids /\ (\A r \in db : r.id \in Ids) /\ Ids \subseteq Int
  BY <1>2, MaxIdAssumption DEF TableTypeOK, Rows, Ids
<1> HIDE DEF new
<1>4. Unique'
  BY <1>2, <1>3 DEF Unique, Fresh
<1>5. Fresh'
  <2>1. ASSUME NEW r \in db'
        PROVE  r.id < nextId'
    <3>1. nextId \in Int /\ \A q \in db : q.id \in Int
      BY <1>3
    <3>2. r \in db \/ r = new
      BY <1>2
    <3>3. CASE r \in db
      <4>1. r.id < nextId
        BY <3>3 DEF Fresh
      <4>2. QED
        BY <1>2, <3>1, <3>3, <4>1
    <3>4. QED
      BY <1>2, <3>1, <3>2, <3>3
  <2>2. \A id \in Ids : id >= nextId' => origin'[id] = 0
    <3>1. \A id \in Ids : id >= nextId + 1 => id >= nextId
      BY <1>3
    <3>2. QED
      BY <1>2, <3>1 DEF Fresh
  <2>3. QED
    BY <2>1, <2>2 DEF Fresh
<1>6. origin[new.id] = 0
  BY <1>2, <1>3 DEF Fresh
<1>7. SeededOnce'
  BY <1>2, <1>6 DEF SeededOnce
<1>8. BootOK' /\ Quiet' /\ InOrder'
  BY DEF BootOK, Quiet, InOrder
<1>9. QED
  BY <1>1, <1>4, <1>5, <1>7, <1>8

LEMMA TableKept ==
  ASSUME IInv, boot.at = "up", UNCHANGED <<boot, origin>>, UNCHANGED tableVars
  PROVE  IInv'
<1>1. TableTypeOK' /\ nextId' = nextId /\ db' = db
  BY DEF IInv, TableTypeOK, tableVars
<1>2. QED
  BY <1>1, RowsKept, UpKeeps

LEMMA RowStaysInv ==
  ASSUME IInv, boot.at = "up", UNCHANGED <<boot, origin>>, NEW w \in Reloaders, RowStays(w)
  PROVE  IInv'
<1>1. TableTypeOK' /\ db' = db /\ nextId' = nextId
  BY StepTyped, PositionsTyped DEF IInv, RowStays, TableTypeOK
<1>2. QED
  BY <1>1, RowsKept, UpKeeps

(* Requests are served once the process is up.                             *)
LEMMA AdminUp ==
  ASSUME IInv, NEW w \in Admins, AdminBegins(w) \/ AdminGoesOn(w)
  PROVE  w \in Reloaders /\ boot.at = "up" /\ UNCHANGED <<boot, origin>>
<1> USE DEF IInv
<1>1. w \in Reloaders
  BY DEF Reloaders
<1>2. ASSUME AdminBegins(w)
      PROVE  boot.at = "up" /\ UNCHANGED <<boot, origin>>
  BY <1>2 DEF AdminBegins, AddRow, Toggle, Refetch, Delete, AddSub, DeleteSub, DeleteClient, Free
<1>3. ASSUME AdminGoesOn(w)
      PROVE  boot.at = "up" /\ UNCHANGED <<boot, origin>>
  <2>1. UNCHANGED <<boot, origin>>
    BY <1>3 DEF AdminGoesOn, ToggleStore, RefetchAbort, RefetchRow, ClearConfigs, Import,
                ImportPanic, ImportDone, DeleteRow, Pick, PickFails, DeleteSubRow
  <2>2. task[w].at # "idle" \/ reloader[w].at \in {"toggle", "refetch"}
    BY <1>3 DEF AdminGoesOn, ToggleStore, RefetchAbort, RefetchRow, ClearConfigs, Import,
                ImportPanic, ImportDone, DeleteRow, Pick, PickFails, DeleteSubRow,
                ToggleWrite, RefetchFail, RefetchKeep, RefetchWrite
  <2>3. QED
    BY <1>1, <2>1, <2>2 DEF Quiet
<1>4. QED
  BY <1>1, <1>2, <1>3

(* Each request of the admin panel, from its first statement to its last.  *)
LEMMA AdminInv ==
  ASSUME IInv, NEW w \in Admins, AdminBegins(w) \/ AdminGoesOn(w)
  PROVE  IInv'
<1> USE DEF IInv
<1>0. w \in Reloaders /\ boot.at = "up" /\ UNCHANGED <<boot, origin>>
  BY AdminUp
<1>1. ASSUME NEW feed \in Feeds, NEW primary \in Ticked, AddRow(w, feed, primary)
      PROVE  IInv'
  <2>1. ServerOf(feed) \in Addrs /\ primary \in BOOLEAN
    BY <1>1, ServerIsAddr, StoreAssumption DEF AddRow
  <2>2. AddBackend(w, ServerOf(feed), primary)
    BY <1>1 DEF AddRow
  <2>3. QED
    BY <1>0, <2>1, <2>2, UpAdds
<1>2. ASSUME NEW r \in db, Toggle(w, r) \/ Refetch(w, r)
      PROVE  IInv'
  <2>1. ToggleRead(w, r) \/ RefetchRead(w, r)
    BY <1>2 DEF Toggle, Refetch
  <2>2. TableTypeOK'
    BY <2>1, AdminTyped DEF AdminStart
  <2>3. db' = db /\ nextId' = nextId
    BY <2>1 DEF ToggleRead, RefetchRead
  <2>4. QED
    BY <1>0, <2>2, <2>3, RowsKept, UpKeeps
<1>3. ASSUME ToggleStore(w)
      PROVE  IInv'
  <2>1. CASE ToggleWrite(w)
    <3>1. TableTypeOK'
      BY <2>1, AdminTyped DEF AdminFinish
    <3>2. Unique' /\ \A r \in db' : \E s \in db : s.id = r.id
      BY <2>1 DEF ToggleWrite, Unique, TableTypeOK, Rows
    <3>3. QED
      BY <1>0, <2>1, <3>1, <3>2, UpKeeps DEF ToggleWrite
  <2>2. QED
    BY <1>0, <1>3, <2>1, RowStaysInv DEF ToggleStore
<1>4. ASSUME RefetchAbort(w)
      PROVE  IInv'
  <2>1. RefetchFail(w)
    BY <1>4 DEF RefetchAbort
  <2>2. TableTypeOK'
    BY <2>1, AdminTyped DEF AdminFinish
  <2>3. db' = db /\ nextId' = nextId
    BY <2>1 DEF RefetchFail
  <2>4. QED
    BY <1>0, <2>2, <2>3, RowsKept, UpKeeps
<1>5. ASSUME NEW feed \in Feeds, RefetchRow(w, feed)
      PROVE  IInv'
  <2>1. CASE RefetchKeep(w)
    <3>2. TableTypeOK'
      BY <2>1, AdminTyped DEF AdminFinish
    <3>3. db' = db /\ nextId' = nextId
      BY <2>1 DEF RefetchKeep
    <3>4. QED
      BY <1>0, <3>2, <3>3, RowsKept, UpKeeps
  <2>2. CASE ServerOf(feed) # NoAddr /\ RefetchWrite(w, ServerOf(feed))
    <3>1. RefetchWrite(w, ServerOf(feed)) /\ ServerOf(feed) \in Addrs
      BY <2>2, ServerIsAddr
    <3>2. TableTypeOK'
      BY <3>1, AdminTyped DEF AdminFinish
    <3>3. Unique' /\ \A r \in db' : \E s \in db : s.id = r.id
      BY <3>1 DEF RefetchWrite, Unique, TableTypeOK, Rows
    <3>4. QED
      BY <1>0, <3>1, <3>2, <3>3, UpKeeps DEF RefetchWrite
  <2>3. QED
    BY <1>0, <1>5, <2>1, <2>2, RowStaysInv DEF RefetchRow
<1>6. ASSUME DeleteRow(w)
      PROVE  IInv'
  <2>1. CASE DeleteBackend(w, task[w].id)
    <3>1. TableTypeOK'
      BY <2>1, StepTyped, PositionsTyped DEF DeleteBackend, TableTypeOK
    <3>2. Unique' /\ \A r \in db' : \E s \in db : s.id = r.id
      BY <2>1 DEF DeleteBackend, Unique
    <3>3. QED
      BY <1>0, <2>1, <3>1, <3>2, UpKeeps DEF DeleteBackend
  <2>2. QED
    BY <1>0, <1>6, <2>1, RowStaysInv DEF DeleteRow
<1>7. ASSUME ImportPanic(w)
      PROVE  IInv'
  <2>1. TableTypeOK' /\ db' = db /\ nextId' = nextId
    BY <1>7, StepTyped, PositionsTyped DEF ImportPanic, TableTypeOK
  <2>2. QED
    BY <1>0, <2>1, RowsKept, UpKeeps
<1>8. ASSUME UNCHANGED tableVars
      PROVE  IInv'
  BY <1>0, <1>8, TableKept
<1>9. ASSUME AdminBegins(w)
      PROVE  IInv'
  BY <1>1, <1>2, <1>8, <1>9 DEF AdminBegins, Delete, AddSub, DeleteSub, DeleteClient
<1>10. ASSUME AdminGoesOn(w)
       PROVE  IInv'
  BY <1>3, <1>4, <1>5, <1>6, <1>7, <1>8, <1>10
     DEF AdminGoesOn, ClearConfigs, Import, ImportDone, Pick, PickFails, DeleteSubRow
<1>11. QED
  BY <1>9, <1>10
-----------------------------------------------------------------------------
(* The start of the process.                                               *)
LEMMA BootStep ==
  ASSUME IInv, BootOK', InOrder', UNCHANGED <<task, reloader, db, nextId, origin>>,
         backends' \subseteq Rows, boot.at # "up"
  PROVE  IInv'
<1> USE DEF IInv
<1>1. TableTypeOK' /\ Unique' /\ Fresh' /\ SeededOnce'
  BY DEF TableTypeOK, Unique, Fresh, SeededOnce
<1>2. Quiet'
  BY DEF Quiet
<1>3. QED
  BY <1>1, <1>2

LEMMA BootInv ==
  ASSUME IInv, Booting
  PROVE  IInv'
<1> USE DEF IInv
<1>0. backends \subseteq Rows /\ db \subseteq Rows
  BY DEF TableTypeOK
<1>1. ASSUME SeedCount
      PROVE  IInv'
  <2>1. BootOK'
    BY <1>1 DEF SeedCount, BootOK, BootStages
  <2>2. boot'.at \in {"row", "load"} /\ (boot'.at = "row" => db' = {})
    BY <1>1 DEF SeedCount, BootOK, tableVars
  <2>3. InOrder'
    BY <2>2 DEF InOrder
  <2>4. QED
    BY <1>0, <1>1, <2>1, <2>3, BootStep DEF SeedCount, SeedUnchanged, SeedKeeps, tableVars
<1>10. ASSUME SeedMiscount
       PROVE  IInv'
  <2>1. /\ boot'.at = "row" /\ boot'.entry = boot.entry /\ BootOK'
        /\ origin' = [id \in Ids |-> 0] /\ UNCHANGED <<tableVars, task>> /\ boot.at # "up"
    BY <1>10 DEF SeedMiscount, SeedKeeps, BootOK, BootStages
  <2>2. \A r \in db : origin'[r.id] = 0
    BY <2>1 DEF TableTypeOK, Rows, Ids
  <2>3. TableTypeOK' /\ Unique' /\ Fresh' /\ Quiet'
    BY <2>1 DEF TableTypeOK, Unique, Fresh, Quiet, tableVars
  <2>4. db' = db /\ boot.entry = 1
    BY <1>10, <2>1 DEF SeedMiscount, InOrder, tableVars
  <2>5. SeededOnce'
    BY <2>2, <2>4 DEF SeededOnce
  <2>6. InOrder'
    BY <2>1, <2>2, <2>4 DEF InOrder
  <2>7. QED
    BY <2>1, <2>3, <2>5, <2>6
<1>2. ASSUME NEW feed \in Feeds, SeedRow(feed)
      PROVE  IInv'
  <2> DEFINE a == IF ServerOf(feed) = NoAddr THEN Portless ELSE ServerOf(feed)
             new == [id |-> nextId, primary |-> CfgBackends[boot.entry], enabled |-> TRUE,
                     addr |-> a]
  <2>1. /\ db' = db \cup {new} /\ nextId' = nextId + 1 /\ nextId <= MaxId
        /\ origin' = [origin EXCEPT ![nextId] = boot.entry] /\ new.id = nextId
        /\ boot.at = "row" /\ boot'.at = "fetch" /\ boot'.entry = boot.entry
        /\ boot.entry \in DOMAIN CfgBackends /\ UNCHANGED <<backends, reloader, task>>
    BY <1>2 DEF SeedRow, SeedUnchanged, SeedKeeps, BootOK
  <2>2. /\ nextId \in Ids /\ Ids \subseteq Int /\ (\A r \in db : r.id \in Ids)
        /\ nextId' \in 1 .. MaxId + 1
    BY <2>1, MaxIdAssumption DEF TableTypeOK, Rows, Ids
  <2>3. new \in Rows
    <3>1. a \in Addrs
      BY ServerIsAddr, StoreAssumption
    <3>2. CfgBackends[boot.entry] \in BOOLEAN
      BY <2>1, StoreAssumption
    <3>3. QED
      BY <2>2, <3>1, <3>2 DEF Rows, Ids
  <2> HIDE DEF new
  <2>4. TableTypeOK'
    BY <2>1, <2>2, <2>3 DEF TableTypeOK
  <2>5. boot.entry \in Nat \ {0} /\ nextId \in Nat
    <3>1. DOMAIN CfgBackends = 1 .. Len(CfgBackends)
      BY StoreAssumption
    <3>2. QED
      BY <2>1, <2>2, <3>1 DEF BootOK, Ids
  <2>6. \A r \in db : r.id # nextId /\ origin'[r.id] = origin[r.id]
    <3>1. \A r \in db : r.id # nextId
      BY <2>2, <2>5 DEF Fresh
    <3>2. QED
      BY <2>1, <2>2, <3>1 DEF Fresh
  <2>7. origin'[new.id] = boot.entry
    BY <2>1, <2>2 DEF Fresh
  <2>8. \A r \in db : origin[r.id] < boot.entry /\ origin[r.id] \in Nat
    BY <2>1, <2>2 DEF InOrder, Fresh
  <2>9. Unique'
    BY <2>1, <2>6 DEF Unique
  <2>10. SeededOnce'
    BY <2>1, <2>5, <2>6, <2>7, <2>8 DEF SeededOnce
  <2>11. InOrder'
    BY <2>1, <2>5, <2>6, <2>7, <2>8 DEF InOrder
  <2>12. Fresh'
    <3>1. ASSUME NEW r \in db'
          PROVE  r.id < nextId'
      <4>1. CASE r \in db
        <5>1. r.id < nextId /\ r.id \in Int
          BY <2>2, <4>1 DEF Fresh
        <5>2. QED
          BY <2>1, <2>5, <5>1
      <4>2. QED
        BY <2>1, <2>5, <4>1
    <3>2. origin' \in [Ids -> Nat]
      BY <2>1, <2>5 DEF Fresh
    <3>3. \A id \in Ids : id >= nextId' => origin'[id] = 0
      <4>1. \A id \in Ids : id >= nextId + 1 => id >= nextId /\ id # nextId
        BY <2>2, <2>5
      <4>2. QED
        BY <2>1, <4>1 DEF Fresh
    <3>4. QED
      BY <3>1, <3>2, <3>3 DEF Fresh
  <2>13. BootOK'
    BY <1>2, <2>5 DEF SeedRow, BootOK, BootStages
  <2>14. Quiet'
    BY <2>1 DEF Quiet
  <2>15. QED
    BY <2>4, <2>9, <2>10, <2>11, <2>12, <2>13, <2>14
<1>3. ASSUME SeedRowFail
      PROVE  IInv'
  <2>1. BootOK' /\ boot'.at = "row" /\ boot.at = "row" /\ boot'.entry = boot.entry + 1
    BY <1>3 DEF SeedRowFail, BootOK
  <2>2. \A r \in db : origin[r.id] \in Nat
    BY DEF Fresh, TableTypeOK, Rows, Ids
  <2>3. InOrder'
    BY <1>3, <2>1, <2>2 DEF SeedRowFail, InOrder, BootOK, tableVars
  <2>4. QED
    BY <1>0, <1>3, <2>1, <2>3, BootStep DEF SeedRowFail, SeedUnchanged, SeedKeeps, tableVars
<1>4. ASSUME NEW feed \in Feeds, SeedFetch(feed)
      PROVE  IInv'
  <2>1. BootOK' /\ boot'.at = "import" /\ boot.at = "fetch" /\ boot'.entry = boot.entry
    BY <1>4, StoreAssumption DEF SeedFetch, BootOK, BootStages
  <2>2. InOrder'
    BY <1>4, <2>1 DEF SeedFetch, InOrder, tableVars
  <2>3. QED
    BY <1>0, <1>4, <2>1, <2>2, BootStep DEF SeedFetch, SeedUnchanged, SeedKeeps, tableVars
<1>5. ASSUME SeedConfig
      PROVE  IInv'
  <2>1. BootOK' /\ boot'.at = "import" /\ boot.at = "import" /\ boot'.entry = boot.entry
    <3>1. boot.links \in Seq(Links) /\ boot.links # <<>>
      BY <1>5 DEF SeedConfig, BootOK
    <3>2. Tail(boot.links) \in Seq(Links)
      BY <3>1
    <3>3. QED
      BY <1>5, <3>2 DEF SeedConfig, BootOK
  <2>2. InOrder'
    BY <1>5, <2>1 DEF SeedConfig, InOrder, tableVars
  <2>3. QED
    BY <1>0, <1>5, <2>1, <2>2, BootStep DEF SeedConfig, SeedUnchanged, SeedKeeps, tableVars
<1>6. ASSUME SeedNext
      PROVE  IInv'
  <2>1. BootOK' /\ boot'.at = "row" /\ boot.at = "import" /\ boot'.entry = boot.entry + 1
    BY <1>6 DEF SeedNext, BootOK, BootStages, Boot
  <2>2. \A r \in db : origin[r.id] \in Nat
    BY DEF Fresh, TableTypeOK, Rows, Ids
  <2>3. InOrder'
    BY <1>6, <2>1, <2>2 DEF SeedNext, InOrder, BootOK, tableVars
  <2>4. QED
    BY <1>0, <1>6, <2>1, <2>3, BootStep DEF SeedNext, SeedUnchanged, SeedKeeps, tableVars
<1>7. ASSUME SeedDone
      PROVE  IInv'
  <2>1. BootOK' /\ boot'.at = "load" /\ boot.at = "row"
    BY <1>7 DEF SeedDone, BootOK, BootStages
  <2>2. InOrder'
    BY <2>1 DEF InOrder
  <2>3. QED
    BY <1>0, <1>7, <2>1, <2>2, BootStep DEF SeedDone, SeedUnchanged, SeedKeeps, tableVars
<1>8. ASSUME NewBalancer
      PROVE  IInv'
  <2>1. BootOK' /\ boot'.at = "up" /\ boot.at = "load"
    BY <1>8 DEF NewBalancer, BootOK, BootStages, Boot
  <2>2. InOrder'
    BY <2>1 DEF InOrder
  <2>3. backends' \subseteq Rows
    BY <1>0, <1>8, EnabledRowsSubset DEF NewBalancer
  <2>4. QED
    BY <1>8, <2>1, <2>2, <2>3, BootStep DEF NewBalancer, SeedUnchanged, SeedKeeps
<1>9. QED
  BY <1>1, <1>2, <1>3, <1>4, <1>5, <1>6, <1>7, <1>8, <1>10 DEF Booting

(* The process dies: what it was doing is gone, the table stays.           *)
LEMMA DieInv ==
  ASSUME IInv, Die
  PROVE  IInv'
<1> USE DEF IInv
<1>1. TableTypeOK'
  BY PositionsTyped DEF Die, TableTypeOK
<1>2. BootOK' /\ InOrder' /\ Quiet'
  BY DEF Die, BootOK, BootStages, Boot, InOrder, Quiet, NoTask, Task, At, Holding
<1>3. Unique' /\ Fresh' /\ SeededOnce'
  BY DEF Die, Unique, Fresh, SeededOnce
<1>4. QED
  BY <1>1, <1>2, <1>3

LEMMA ReloadInv ==
  ASSUME IInv, NEW w \in Reloaders, Reload(w)
  PROVE  IInv'
<1>1. CASE QueryFails(w)
  <2>1. TableTypeOK' /\ db' = db /\ nextId' = nextId
    BY <1>1, StepTyped, PositionsTyped DEF IInv, QueryFails, TableTypeOK
  <2>2. QED
    BY <2>1, RowsKept, UpKeeps DEF Reload
<1>3. CASE Query(w) \/ Assign(w)
  <2>1. TableTypeOK' /\ db' = db /\ nextId' = nextId
    BY <1>3, ReloadTyped DEF IInv, Query, Assign
  <2>2. QED
    BY <2>1, RowsKept, UpKeeps DEF Reload
<1>4. QED
  BY <1>1, <1>3 DEF Reload

LEMMA NextInv == IInv /\ [Next]_vars => IInv'
<1> SUFFICES ASSUME IInv, [Next]_vars
             PROVE  IInv'
  OBVIOUS
<1>1. ASSUME Crash \/ SeedPanic
      PROVE  IInv'
  BY <1>1, DieInv DEF Crash, SeedPanic
<1>2. ASSUME UNCHANGED vars
      PROVE  IInv'
  BY <1>2 DEF vars, tableVars, IInv, TableTypeOK, BootOK, Unique, Fresh, Quiet, InOrder,
              SeededOnce
<1>3. QED
  BY <1>1, <1>2, BootInv, AdminInv, ReloadInv DEF Next

-----------------------------------------------------------------------------
(* No entry of the config file is seeded twice, however often the process  *)
(* dies during the seeding and whatever the administrator adds, refetches  *)
(* and deletes (main.go:138-187): rows are seeded into an empty table, one *)
(* by one, before a request can be served, and their ids are fresh.        *)
THEOREM NeverSeededTwice == Spec => []SeededOnce
<1>1. IInv => SeededOnce
  BY DEF IInv
<1>2. QED
  BY <1>1, InitInv, NextInv, PTL DEF Spec

-----------------------------------------------------------------------------
(* What the rows of the other tables refer to. A request works on an id    *)
(* that was handed out; a goroutine does one request at a time.            *)
Tasks == [at : {"idle", "clear", "import", "row", "pick", "sub"}, id : Nat,
          links : Seq(Links), ids : SUBSET ConfigIds]

StoreTyped ==
  /\ configs \subseteq [id : ConfigIds, backend : Ids, link : Links]
  /\ subs \subseteq [id : 1 .. MaxSub, client : Clients]
  /\ picks \subseteq (1 .. MaxSub) \X ConfigIds
  /\ nextConfig \in 1 .. MaxConfig + 1 /\ nextSub \in 1 .. MaxSub + 1
  /\ feedOf \in [Ids -> Seq(Links)]
  /\ asked \in [1 .. MaxSub -> SUBSET ConfigIds]
  /\ task \in [Admins -> Tasks]

RequestOK(w) ==
  /\ task[w].at \in {"clear", "import", "row"} => task[w].id \in Ids /\ task[w].id < nextId
  /\ task[w].at \in {"pick", "sub"} => task[w].id \in 1 .. MaxSub /\ task[w].id < nextSub
  /\ task[w].at = "pick" => task[w].ids \subseteq asked[task[w].id]
  /\ reloader[w].at = "refetch" => reloader[w].id \in Ids /\ reloader[w].id < nextId
  /\ task[w].at # "idle" => reloader[w].at \notin {"refetch", "toggle"}

RequestsOK == \A w \in Admins : RequestOK(w)

SeedOK ==
  IF boot.at \in {"fetch", "import"} THEN boot.id \in Ids /\ boot.id < nextId ELSE boot.id = 0

(* Ids still to be handed out are used nowhere, and a row that is being    *)
(* seeded has no config before its links are fetched.                      *)
Unused ==
  /\ \A c \in configs : c.id < nextConfig /\ c.backend < nextId
  /\ boot.at = "fetch" => \A c \in configs : c.backend # boot.id

Joined == \A p \in picks : p[1] < nextSub /\ p[2] \in asked[p[1]]

StoreInv == StoreTyped /\ RequestsOK /\ SeedOK /\ Unused /\ Joined

-----------------------------------------------------------------------------
LEMMA IdsTyped ==
  /\ Ids \subseteq Nat \ {0} /\ MaxId \in Nat
  /\ ConfigIds \subseteq Nat \ {0} /\ MaxConfig \in Nat /\ MaxSub \in Nat \ {0}
BY MaxIdAssumption, StoreAssumption DEF Ids, ConfigIds

LEMMA FeedTyped ==
  ASSUME NEW feed \in Feeds
  PROVE  feed \in Seq(Links)
BY StoreAssumption

LEMMA NoLinks == <<>> \in Seq(Links)
OBVIOUS

LEMMA TaskTyped ==
  /\ NoTask \in Tasks /\ NoTask.at = "idle"
  /\ \A at \in {"clear", "import", "row", "pick", "sub"}, id \in Nat, links \in Seq(Links),
        ids \in SUBSET ConfigIds :
       Task(at, id, links, ids) \in Tasks
BY DEF NoTask, Task, Tasks

(* A goroutine takes a step of its request: the others are where they were *)
(* and what they rely on is still there.                                   *)
LEMMA OthersKeep ==
  ASSUME StoreInv, NEW w \in Admins, NEW to \in Tasks, TaskStep(w, to),
         \A v \in Admins \ {w} : reloader'[v] = reloader[v],
         nextId \in Int, nextId' \in Int, nextId <= nextId',
         nextSub' \in Int, nextSub <= nextSub',
         \A s \in 1 .. MaxSub : s < nextSub => asked'[s] = asked[s],
         RequestOK(w)'
  PROVE  task' \in [Admins -> Tasks] /\ RequestsOK'
<1>1. task' \in [Admins -> Tasks] /\ \A v \in Admins \ {w} : task'[v] = task[v]
  BY DEF TaskStep, StoreInv, StoreTyped
<1>2. ASSUME NEW v \in Admins \ {w}
      PROVE  RequestOK(v)'
  <2>1. RequestOK(v) /\ task'[v] = task[v] /\ reloader'[v] = reloader[v] /\ nextSub \in Int
    BY <1>1 DEF StoreInv, RequestsOK, StoreTyped
  <2>2. \A n \in Int : (n < nextId => n < nextId') /\ (n < nextSub => n < nextSub')
    BY <2>1
  <2>3. \A id \in Ids : id \in Int
    BY IdsTyped
  <2>4. \A s \in 1 .. MaxSub : s \in Int
    BY IdsTyped
  <2>5. PICK now : now = task[v]
    OBVIOUS
  <2>6. PICK its : its = reloader[v]
    OBVIOUS
  <2>7. /\ now.at \in {"clear", "import", "row"} => now.id \in Ids /\ now.id < nextId
        /\ now.at \in {"pick", "sub"} => now.id \in 1 .. MaxSub /\ now.id < nextSub
        /\ now.at = "pick" => now.ids \subseteq asked[now.id]
        /\ its.at = "refetch" => its.id \in Ids /\ its.id < nextId
        /\ now.at # "idle" => its.at \notin {"refetch", "toggle"}
    BY <2>1, <2>5, <2>6 DEF RequestOK
  <2>8. now.at \in {"clear", "import", "row"} => now.id \in Ids /\ now.id < nextId'
    BY <2>2, <2>3, <2>7
  <2>9. now.at \in {"pick", "sub"} => now.id \in 1 .. MaxSub /\ now.id < nextSub'
    BY <2>2, <2>4, <2>7
  <2>10. now.at = "pick" => now.ids \subseteq asked'[now.id]
    BY <2>7
  <2>11. its.at = "refetch" => its.id \in Ids /\ its.id < nextId'
    BY <2>2, <2>3, <2>7
  <2>12. task'[v] = now /\ reloader'[v] = its
    BY <2>1, <2>5, <2>6
  <2>13. QED
    BY <2>7, <2>8, <2>9, <2>10, <2>11, <2>12 DEF RequestOK
<1>3. QED
  BY <1>1, <1>2 DEF RequestsOK

(* The configs of an earlier run are numbered row by row.                  *)
LEMMA Numbered ==
  ASSUME NEW len \in Nat, NEW id \in Nat \ {0}, NEW next \in Nat, id < next, NEW i \in 1 .. len
  PROVE  /\ len * (id - 1) + i \in Nat \ {0}
         /\ len * (id - 1) + i < len * (next - 1) + 1
<1>1. len * (id - 1) \in Nat /\ len * (next - 1) \in Nat
  OBVIOUS
<1>2. len * (id - 1) + len = len * id
  OBVIOUS
<1>3. len * id <= len * (next - 1)
  OBVIOUS
<1>4. QED
  BY <1>1, <1>2, <1>3

LEMMA StoreInit == Init => StoreInv
<1> SUFFICES ASSUME Init PROVE StoreInv
  OBVIOUS
<1> USE IdsTyped
<1>1. TableTypeOK /\ nextId \in Nat
  BY InitInv DEF IInv, TableTypeOK
<1>2. PICK feed \in Feeds :
        /\ configs = ImportedFrom(feed, db)
        /\ feedOf = [id \in Ids |-> IF id < nextId THEN feed ELSE <<>>]
        /\ nextConfig = Len(feed) * (nextId - 1) + 1 /\ nextConfig <= MaxConfig + 1
  BY StoreAssumption DEF Init
<1>3. feed \in Seq(Links) /\ Len(feed) \in Nat /\ DOMAIN feed = 1 .. Len(feed)
  BY FeedTyped
<1>4. \A r \in db : r.id \in Ids /\ r.id < nextId
  BY <1>1 DEF TableTypeOK, Rows, Ids, Init, TableInit
<1>5. nextConfig \in 1 .. MaxConfig + 1
  <2>1. nextId - 1 \in Nat
    BY <1>1 DEF TableTypeOK
  <2>2. Len(feed) * (nextId - 1) \in Nat
    BY <1>3, <2>1
  <2>3. QED
    BY <1>2, <2>2
<1>6. \A c \in configs : /\ c \in [id : ConfigIds, backend : Ids, link : Links]
                         /\ c.id < nextConfig /\ c.backend < nextId
  <2>1. TAKE c \in configs
  <2>2. PICK r \in db, i \in DOMAIN feed :
          c = [id |-> Len(feed) * (r.id - 1) + i, backend |-> r.id, link |-> feed[i]]
    BY <1>2 DEF ImportedFrom
  <2>3. c.id \in Nat \ {0} /\ c.id < nextConfig
    BY <1>1, <1>2, <1>3, <1>4, <2>2, Numbered
  <2>4. c.id \in ConfigIds
    BY <1>5, <2>3 DEF ConfigIds
  <2>5. feed[i] \in Links
    BY <1>3
  <2>6. QED
    BY <1>4, <2>2, <2>3, <2>4, <2>5
<1>7. nextSub \in {1, 2} /\ subs \subseteq [id : {1}, client : Clients] /\ (nextSub = 1 => subs = {})
  BY DEF Init
<1>8. StoreTyped
  <2>1. feedOf \in [Ids -> Seq(Links)]
    BY <1>2, <1>3
  <2>2. asked \in [1 .. MaxSub -> SUBSET ConfigIds]
    BY <1>6 DEF Init
  <2>3. picks \subseteq (1 .. MaxSub) \X ConfigIds
    BY <1>6, <1>7 DEF Init
  <2>4. task \in [Admins -> Tasks]
    BY TaskTyped DEF Init
  <2>5. QED
    BY <1>5, <1>6, <1>7, <2>1, <2>2, <2>3, <2>4 DEF StoreTyped
<1>9. RequestsOK
  BY DEF Init, TableInit, RequestsOK, RequestOK, NoTask, Task, At, Holding, Reloaders
<1>10. SeedOK /\ Unused
  BY <1>6 DEF Init, Boot, SeedOK, Unused
<1>11. Joined
  <2>1. ASSUME NEW p \in picks
        PROVE  p[1] < nextSub /\ p[2] \in asked[p[1]]
    <3>1. PICK s \in subs, c \in configs : p = <<s.id, c.id>>
      BY DEF Init
    <3>2. s.id = 1 /\ nextSub = 2
      BY <1>7, <3>1
    <3>3. asked[1] = {d.id : d \in configs}
      BY <3>2 DEF Init
    <3>4. QED
      BY <3>1, <3>2, <3>3
  <2>2. QED
    BY <2>1 DEF Joined
<1>12. QED
  BY <1>8, <1>9, <1>10, <1>11 DEF StoreInv

-----------------------------------------------------------------------------
(* One config row more, or the rows of one backend fewer.                  *)
LEMMA CreateTyped ==
  ASSUME StoreInv, TableTypeOK, NEW id \in Ids, NEW link \in Links, CreateConfig(id, link),
         id < nextId, nextId' = nextId
  PROVE  /\ configs' \subseteq [id : ConfigIds, backend : Ids, link : Links]
         /\ nextConfig' \in 1 .. MaxConfig + 1
         /\ \A c \in configs' : c.id < nextConfig' /\ c.backend < nextId'
<1>0. CASE UNCHANGED <<configs, nextConfig>>
  BY <1>0 DEF StoreInv, StoreTyped, Unused
<1> SUFFICES ASSUME /\ nextConfig <= MaxConfig
                    /\ configs' = configs \cup {[id |-> nextConfig, backend |-> id, link |-> link]}
                    /\ nextConfig' = nextConfig + 1
             PROVE  /\ configs' \subseteq [id : ConfigIds, backend : Ids, link : Links]
                    /\ nextConfig' \in 1 .. MaxConfig + 1
                    /\ \A c \in configs' : c.id < nextConfig' /\ c.backend < nextId'
  BY <1>0 DEF CreateConfig
<1>1. /\ nextConfig \in ConfigIds /\ nextConfig' = nextConfig + 1
      /\ nextConfig' \in 1 .. MaxConfig + 1
  BY IdsTyped DEF StoreInv, StoreTyped, ConfigIds
<1>2. ASSUME NEW c \in configs'
      PROVE  /\ c \in [id : ConfigIds, backend : Ids, link : Links]
             /\ c.id < nextConfig' /\ c.backend < nextId'
  <2>1. CASE c \in configs
    <3>1. /\ c \in [id : ConfigIds, backend : Ids, link : Links]
          /\ c.id < nextConfig /\ c.backend < nextId
      BY <2>1 DEF StoreInv, StoreTyped, Unused
    <3>2. c.id \in Nat
      BY <3>1, IdsTyped
    <3>3. QED
      BY <1>1, <3>1, <3>2, IdsTyped
  <2>2. CASE c = [id |-> nextConfig, backend |-> id, link |-> link]
    BY <1>1, <2>2, IdsTyped
  <2>3. QED
    BY <2>1, <2>2
<1>3. QED
  BY <1>1, <1>2

LEMMA FewerConfigs ==
  ASSUME StoreInv, NEW id, DeleteConfigsOf(id), UNCHANGED <<nextConfig, nextId>>
  PROVE  /\ configs' \subseteq configs
         /\ configs' \subseteq [id : ConfigIds, backend : Ids, link : Links]
         /\ \A c \in configs' : c.id < nextConfig' /\ c.backend < nextId'
BY DEF DeleteConfigsOf, StoreInv, StoreTyped, Unused

LEMMA TailTyped ==
  ASSUME NEW links \in Seq(Links), links # <<>>
  PROVE  Head(links) \in Links /\ Tail(links) \in Seq(Links)
OBVIOUS

(* The seeding: nothing of a request is touched.                           *)
LEMMA SeedStep ==
  ASSUME StoreInv, SeedKeeps, TableTypeOK, nextId' \in Int, nextId <= nextId',
         SeedOK', Unused',
         configs' \subseteq [id : ConfigIds, backend : Ids, link : Links],
         nextConfig' \in 1 .. MaxConfig + 1, feedOf' \in [Ids -> Seq(Links)]
  PROVE  StoreInv'
<1>1. StoreTyped' /\ Joined'
  BY DEF SeedKeeps, subVars, StoreInv, StoreTyped, Joined
<1>2. ASSUME NEW w \in Admins
      PROVE  RequestOK(w)'
  <2>1. RequestOK(w)
    BY DEF StoreInv, RequestsOK
  <2>2. \A n \in Ids : n \in Int /\ (n < nextId => n < nextId')
    BY IdsTyped DEF TableTypeOK
  <2>3. QED
    BY <2>1, <2>2 DEF SeedKeeps, subVars, RequestOK
<1>3. QED
  BY <1>1, <1>2 DEF StoreInv, RequestsOK

LEMMA StoreBoot ==
  ASSUME IInv, StoreInv, Booting
  PROVE  StoreInv'
<1> USE IdsTyped
<1>1. /\ TableTypeOK /\ BootOK /\ SeedOK /\ Unused /\ StoreTyped
      /\ nextId \in Nat /\ nextId <= nextId
      /\ configs \subseteq [id : ConfigIds, backend : Ids, link : Links]
      /\ nextConfig \in 1 .. MaxConfig + 1 /\ feedOf \in [Ids -> Seq(Links)]
  BY DEF IInv, StoreInv, StoreTyped, TableTypeOK
<1>2. ASSUME SeedCount \/ SeedMiscount \/ SeedRowFail \/ SeedNext \/ SeedDone \/ NewBalancer
      PROVE  StoreInv'
  <2>1. UNCHANGED <<nextId, configVars>> /\ SeedKeeps
    BY <1>2 DEF SeedCount, SeedMiscount, SeedRowFail, SeedNext, SeedDone, NewBalancer, tableVars,
                SeedUnchanged
  <2>2. boot'.at \in {"row", "load", "up"} /\ SeedOK'
    BY <1>1, <1>2 DEF SeedCount, SeedMiscount, SeedRowFail, SeedNext, SeedDone, NewBalancer, Boot, BootOK, SeedOK
  <2>3. Unused'
    BY <1>1, <2>1, <2>2 DEF Unused, configVars
  <2>4. QED
    BY <1>1, <2>1, <2>2, <2>3, SeedStep DEF configVars
<1>3. ASSUME NEW feed \in Feeds, SeedRow(feed)
      PROVE  StoreInv'
  <2>1. /\ UNCHANGED configVars /\ SeedKeeps /\ nextId' = nextId + 1 /\ nextId <= MaxId
        /\ boot'.at = "fetch" /\ boot'.id = nextId
    BY <1>1, <1>3 DEF SeedRow, BootOK, SeedUnchanged
  <2>2. nextId \in Ids
    BY <1>1, <2>1 DEF TableTypeOK, Ids
  <2>3. SeedOK'
    BY <1>1, <2>1, <2>2 DEF SeedOK
  <2>4. \A c \in configs : c.backend \in Nat /\ c.backend < nextId
    BY <1>1 DEF Unused
  <2>5. Unused'
    BY <1>1, <2>1, <2>4 DEF Unused, configVars
  <2>6. QED
    BY <1>1, <1>3, <2>1, <2>3, <2>5, SeedStep DEF configVars
<1>4. ASSUME NEW feed \in Feeds, SeedFetch(feed)
      PROVE  StoreInv'
  <2>1. /\ UNCHANGED <<nextId, configs, nextConfig>> /\ SeedKeeps
        /\ boot'.at = "import" /\ boot'.id = boot.id /\ boot.at = "fetch"
        /\ feedOf' \in [Ids -> Seq(Links)]
    BY <1>1, <1>4, FeedTyped DEF SeedFetch, BootOK, tableVars, SeedUnchanged
  <2>2. SeedOK' /\ Unused'
    BY <1>1, <2>1 DEF SeedOK, Unused
  <2>3. QED
    BY <1>1, <2>1, <2>2, SeedStep
<1>5. ASSUME SeedConfig
      PROVE  StoreInv'
  <2>1. /\ UNCHANGED <<nextId, feedOf>> /\ SeedKeeps /\ boot.links # <<>>
        /\ boot'.at = "import" /\ boot'.id = boot.id /\ boot.at = "import"
        /\ CreateConfig(boot.id, Head(boot.links))
    BY <1>1, <1>5 DEF SeedConfig, BootOK, tableVars
  <2>2. boot.id \in Ids /\ boot.id < nextId /\ Head(boot.links) \in Links
    BY <1>1, <2>1, TailTyped DEF SeedOK, BootOK
  <2>3. /\ configs' \subseteq [id : ConfigIds, backend : Ids, link : Links]
        /\ nextConfig' \in 1 .. MaxConfig + 1
        /\ \A c \in configs' : c.id < nextConfig' /\ c.backend < nextId'
    BY <1>1, <2>1, <2>2, CreateTyped
  <2>4. SeedOK' /\ Unused'
    BY <1>1, <2>1, <2>3 DEF SeedOK, Unused
  <2>5. QED
    BY <1>1, <2>1, <2>3, <2>4, SeedStep
<1>6. QED
  BY <1>2, <1>3, <1>4, <1>5 DEF Booting

LEMMA StoreDie ==
  ASSUME IInv, StoreInv, Die
  PROVE  StoreInv'
<1>1. task' = [w \in Admins |-> NoTask] /\ UNCHANGED <<configVars, subVars, nextId>>
  BY DEF Die
<1>2. StoreTyped'
  BY <1>1, TaskTyped DEF configVars, subVars, StoreInv, StoreTyped
<1>3. RequestsOK'
  BY TaskTyped DEF Die, RequestsOK, RequestOK, At, Holding, Reloaders
<1>4. SeedOK' /\ Unused'
  BY <1>1 DEF Die, Boot, SeedOK, Unused, configVars, StoreInv
<1>5. Joined'
  BY <1>1 DEF subVars, StoreInv, Joined
<1>6. QED
  BY <1>2, <1>3, <1>4, <1>5 DEF StoreInv

-----------------------------------------------------------------------------
(* A request takes a step and leaves the join rows alone.                  *)
ConfigsTyped ==
  /\ configs \subseteq [id : ConfigIds, backend : Ids, link : Links]
  /\ nextConfig \in 1 .. MaxConfig + 1
  /\ feedOf \in [Ids -> Seq(Links)]
  /\ \A c \in configs : c.id < nextConfig /\ c.backend < nextId

LEMMA ConfigsKept ==
  ASSUME StoreInv, TableTypeOK, UNCHANGED configVars, nextId' \in Int, nextId <= nextId'
  PROVE  ConfigsTyped'
<1>1. ASSUME NEW c \in configs
      PROVE  c.id < nextConfig /\ c.backend < nextId'
  <2>1. c.backend < nextId /\ c.backend \in Ids /\ c.id < nextConfig
    BY DEF StoreInv, StoreTyped, Unused
  <2>2. c.backend \in Int
    <3>1. \A id \in Ids : id \in Int
      BY IdsTyped
    <3>2. QED
      BY <2>1, <3>1
  <2>3. nextId \in Int
    BY DEF TableTypeOK
  <2>4. QED
    BY <2>1, <2>2, <2>3
<1>2. QED
  BY <1>1 DEF configVars, ConfigsTyped, StoreInv, StoreTyped

LEMMA AdminStep ==
  ASSUME StoreInv, TableTypeOK, boot.at = "up", UNCHANGED <<boot, picks, nextSub, asked>>,
         subs' \subseteq subs, nextId' \in Int, nextId <= nextId', ConfigsTyped',
         NEW w \in Admins, NEW to \in Tasks, TaskStep(w, to),
         \A v \in Admins \ {w} : reloader'[v] = reloader[v],
         RequestOK(w)'
  PROVE  StoreInv'
<1>1. nextId \in Int /\ nextSub \in Int
  BY DEF TableTypeOK, StoreInv, StoreTyped
<1>2. nextSub' \in Int /\ nextSub <= nextSub' /\ \A s \in 1 .. MaxSub : asked'[s] = asked[s]
  BY <1>1
<1>3. task' \in [Admins -> Tasks] /\ RequestsOK'
  BY <1>1, <1>2, OthersKeep
<1>4. StoreTyped' /\ Joined'
  BY <1>3 DEF ConfigsTyped, StoreInv, StoreTyped, Joined
<1>5. SeedOK' /\ Unused'
  BY DEF ConfigsTyped, StoreInv, SeedOK, Unused
<1>6. QED
  BY <1>3, <1>4, <1>5 DEF StoreInv

(* The goroutine goes on with the same request, or has done with it.       *)
LEMMA TaskKept ==
  ASSUME StoreInv, NEW w \in Admins, UNCHANGED task
  PROVE  task[w] \in Tasks /\ TaskStep(w, task[w])
BY DEF StoreInv, StoreTyped, TaskStep

LEMMA TaskMoves ==
  ASSUME StoreInv, NEW w \in Admins, NEW to, TaskStep(w, to)
  PROVE  task'[w] = to
BY DEF StoreInv, StoreTyped, TaskStep

LEMMA ReloaderMoves ==
  ASSUME TableTypeOK, NEW w \in Admins, NEW to, Step(w, to)
  PROVE  reloader'[w] = to /\ \A v \in Admins \ {w} : reloader'[v] = reloader[v]
BY DEF TableTypeOK, Reloaders, Step

(* Nothing but the position in the request and the backends change.        *)
LEMMA PositionStep ==
  ASSUME StoreInv, TableTypeOK, boot.at = "up", UNCHANGED <<boot, configVars, subVars, nextId>>,
         NEW w \in Admins, NEW to, Step(w, to),
         UNCHANGED task \/ TaskStep(w, NoTask),
         to.at = "refetch" => to.id \in Ids /\ to.id < nextId,
         to.at \in {"refetch", "toggle"} => task'[w].at = "idle"
  PROVE  StoreInv'
<1>1. nextId' \in Int /\ nextId <= nextId'
  BY DEF TableTypeOK
<1>2. ConfigsTyped'
  BY <1>1, ConfigsKept
<1>3. reloader'[w] = to /\ \A v \in Admins \ {w} : reloader'[v] = reloader[v]
  BY ReloaderMoves
<1>4. PICK t \in Tasks : TaskStep(w, t) /\ t \in {task[w], NoTask}
  BY TaskKept, TaskTyped
<1>5. task'[w] = t
  BY <1>4, TaskMoves
<1>6. RequestOK(w) /\ NoTask.at = "idle"
  BY TaskTyped DEF StoreInv, RequestsOK
<1>7. RequestOK(w)'
  BY <1>3, <1>4, <1>5, <1>6 DEF RequestOK, subVars
<1>8. QED
  BY <1>1, <1>2, <1>3, <1>4, <1>7, AdminStep DEF subVars

(* The requests on backends, statement by statement.                       *)
LEMMA StoreAdd ==
  ASSUME IInv, StoreInv, NEW w \in Admins, NEW feed \in Feeds, NEW primary, AddRow(w, feed, primary)
  PROVE  StoreInv'
<1>1. /\ boot.at = "up" /\ UNCHANGED <<boot, configs, nextConfig, subVars>>
      /\ nextId' = nextId + 1 /\ Step(w, At("changed")) /\ nextId <= MaxId
      /\ feedOf' = [feedOf EXCEPT ![nextId] = feed]
      /\ TaskStep(w, Task("import", nextId, feed, {}))
  BY DEF AddRow, AddBackend, Free
<1>2. TableTypeOK /\ nextId \in Ids /\ nextId \in Nat /\ feed \in Seq(Links)
  BY <1>1, FeedTyped DEF IInv, TableTypeOK, Ids
<1>3. ConfigsTyped'
  <2>1. \A c \in configs : c.id < nextConfig /\ c.backend < nextId /\ c.backend \in Ids
    BY DEF StoreInv, StoreTyped, Unused
  <2>2. \A id \in Ids : id < nextId => id < nextId + 1
    BY <1>2, IdsTyped
  <2>3. QED
    BY <1>1, <1>2, <2>1, <2>2 DEF ConfigsTyped, StoreInv, StoreTyped
<1>4. task'[w] = Task("import", nextId, feed, {}) /\ reloader'[w] = At("changed")
  BY <1>1, <1>2, TaskMoves, ReloaderMoves
<1>5. RequestOK(w)'
  BY <1>1, <1>2, <1>4 DEF RequestOK, Task, At, Holding
<1>6. Task("import", nextId, feed, {}) \in Tasks
  BY <1>2, TaskTyped
<1>7. \A v \in Admins \ {w} : reloader'[v] = reloader[v]
  BY <1>1, <1>2, ReloaderMoves
<1>8. nextId' \in Int /\ nextId <= nextId'
  BY <1>1, <1>2
<1>9. QED
  BY <1>1, <1>2, <1>3, <1>5, <1>6, <1>7, <1>8, AdminStep DEF subVars

LEMMA StorePosition ==
  ASSUME IInv, StoreInv, NEW w \in Admins, boot.at = "up", UNCHANGED boot,
         \/ \E r \in db : Toggle(w, r) \/ Refetch(w, r)
         \/ ToggleStore(w) \/ RefetchAbort(w) \/ ImportPanic(w) \/ DeleteRow(w)
  PROVE  StoreInv'
<1>1. TableTypeOK
  BY DEF IInv
<1>2. ASSUME NEW r \in db, Toggle(w, r) \/ Refetch(w, r)
      PROVE  StoreInv'
  <2>1. UNCHANGED <<configVars, subVars, nextId, task>> /\ task[w] = NoTask
    BY <1>2 DEF Toggle, Refetch, ToggleRead, RefetchRead, Free
  <2>2. PICK at \in {"toggle", "refetch"}, on \in BOOLEAN : Step(w, Holding(at, r.id, on, {}))
    BY <1>1, <1>2 DEF Toggle, Refetch, ToggleRead, RefetchRead, TableTypeOK, Rows
  <2>3. r.id \in Ids /\ r.id < nextId
    BY <1>1 DEF TableTypeOK, Rows, Ids, IInv, Fresh
  <2> DEFINE to == Holding(at, r.id, on, {})
  <2>4. to.id = r.id /\ Step(w, to)
    BY <2>2 DEF Holding
  <2> HIDE DEF to
  <2>5. task'[w].at = "idle"
    BY <2>1, TaskTyped
  <2>6. QED
    BY <1>1, <2>1, <2>3, <2>4, <2>5, PositionStep
<1>3. ASSUME ToggleStore(w) \/ RefetchAbort(w) \/ ImportPanic(w) \/ DeleteRow(w)
      PROVE  StoreInv'
  <2>1. /\ UNCHANGED <<configVars, subVars, nextId>>
        /\ UNCHANGED task \/ TaskStep(w, NoTask)
        /\ Step(w, At("idle")) \/ Step(w, At("changed"))
    BY <1>3 DEF ToggleStore, RefetchAbort, ImportPanic, DeleteRow, ToggleWrite, RefetchFail,
                DeleteBackend, RowStays
  <2>2. At("idle").at = "idle" /\ At("changed").at = "changed"
    BY DEF At, Holding
  <2>3. CASE Step(w, At("idle"))
    BY <1>1, <2>1, <2>2, <2>3, PositionStep
  <2>4. CASE Step(w, At("changed"))
    BY <1>1, <2>1, <2>2, <2>4, PositionStep
  <2>5. QED
    BY <2>1, <2>3, <2>4
<1>4. QED
  BY <1>2, <1>3

LEMMA StoreRefetch ==
  ASSUME IInv, StoreInv, NEW w \in Admins, boot.at = "up", NEW feed \in Feeds, RefetchRow(w, feed)
  PROVE  StoreInv'
<1> DEFINE id == reloader[w].id
<1>1. /\ UNCHANGED <<boot, configs, nextConfig, subVars, nextId>> /\ Step(w, At("changed"))
      /\ reloader[w].at = "refetch"
      /\ feedOf' = [feedOf EXCEPT ![id] = feed]
      /\ TaskStep(w, Task("clear", id, feed, {}))
  BY DEF RefetchRow, RefetchKeep, RefetchWrite, RowStays
<1>2. TableTypeOK /\ RequestOK(w) /\ feed \in Seq(Links) /\ nextId \in Int
  BY FeedTyped DEF IInv, StoreInv, RequestsOK, TableTypeOK
<1>3. id \in Ids /\ id < nextId /\ id \in Nat
  BY <1>1, <1>2, IdsTyped DEF RequestOK
<1> HIDE DEF id
<1>4. ConfigsTyped'
  BY <1>1, <1>2 DEF ConfigsTyped, StoreInv, StoreTyped, Unused
<1>5. task'[w] = Task("clear", id, feed, {}) /\ reloader'[w] = At("changed")
  BY <1>1, <1>2, TaskMoves, ReloaderMoves
<1>6. RequestOK(w)'
  BY <1>1, <1>3, <1>5 DEF RequestOK, Task, At, Holding
<1>7. Task("clear", id, feed, {}) \in Tasks
  BY <1>2, <1>3, TaskTyped
<1>8. \A v \in Admins \ {w} : reloader'[v] = reloader[v]
  BY <1>1, <1>2, ReloaderMoves
<1>9. QED
  BY <1>1, <1>2, <1>4, <1>6, <1>7, <1>8, AdminStep DEF subVars

LEMMA StoreImport ==
  ASSUME IInv, StoreInv, NEW w \in Admins, boot.at = "up",
         ClearConfigs(w) \/ Import(w) \/ ImportDone(w)
  PROVE  StoreInv'
<1>1. /\ UNCHANGED <<boot, subVars, nextId, reloader, feedOf>>
      /\ task[w].at \in {"clear", "import"}
  BY DEF ClearConfigs, Import, ImportDone, tableVars, configVars
<1>2. TableTypeOK /\ RequestOK(w) /\ task[w] \in Tasks /\ nextId \in Int
      /\ feedOf \in [Ids -> Seq(Links)]
  BY DEF IInv, StoreInv, StoreTyped, RequestsOK, TableTypeOK
<1>3. task[w].id \in Ids /\ task[w].id < nextId /\ reloader[w].at \notin {"refetch", "toggle"}
  BY <1>1, <1>2 DEF RequestOK
<1>4. PICK to \in Tasks : /\ TaskStep(w, to)
                          /\ to = NoTask \/ (to.id = task[w].id /\ to.at = "import")
  <2>1. CASE ClearConfigs(w)
    <3>1. [task[w] EXCEPT !.at = "import"] \in Tasks
      BY <1>2 DEF Tasks
    <3>2. [task[w] EXCEPT !.at = "import"].id = task[w].id
          /\ [task[w] EXCEPT !.at = "import"].at = "import"
      BY <1>2 DEF Tasks
    <3>3. QED
      BY <2>1, <3>1, <3>2 DEF ClearConfigs
  <2>2. CASE Import(w)
    <3> DEFINE to == [task[w] EXCEPT !.links = Tail(@)]
    <3>1. task[w].links \in Seq(Links) /\ task[w].links # <<>> /\ task[w].at = "import"
      BY <1>2, <2>2 DEF Import, Tasks
    <3>2. Tail(task[w].links) \in Seq(Links)
      BY <3>1, TailTyped
    <3>3. to \in Tasks /\ to.id = task[w].id /\ to.at = "import"
      BY <1>2, <3>1, <3>2 DEF Tasks
    <3>4. QED
      BY <2>2, <3>3 DEF Import
  <2>3. CASE ImportDone(w)
    BY <2>3, TaskTyped DEF ImportDone
  <2>4. QED
    BY <2>1, <2>2, <2>3
<1>5. task'[w] = to
  BY <1>4, TaskMoves
<1>6. RequestOK(w)'
  BY <1>1, <1>3, <1>4, <1>5, TaskTyped DEF RequestOK
<1>7. ConfigsTyped'
  <2>1. CASE ClearConfigs(w)
    BY <1>1, <1>2, <2>1, FewerConfigs DEF ClearConfigs, ConfigsTyped, StoreInv, StoreTyped
  <2>2. CASE Import(w)
    <3>1. task[w].links \in Seq(Links) /\ task[w].links # <<>>
      BY <1>2, <2>2 DEF Import, Tasks
    <3>2. CreateConfig(task[w].id, Head(task[w].links)) /\ Head(task[w].links) \in Links
      BY <2>2, <3>1, TailTyped DEF Import
    <3>3. QED
      BY <1>1, <1>2, <1>3, <3>2, CreateTyped DEF ConfigsTyped
  <2>3. CASE ImportDone(w)
    BY <1>1, <1>2, <2>3, ConfigsKept DEF ImportDone
  <2>4. QED
    BY <2>1, <2>2, <2>3
<1>8. QED
  BY <1>1, <1>2, <1>4, <1>6, <1>7, AdminStep DEF subVars

LEMMA StoreDelete ==
  ASSUME IInv, StoreInv, NEW w \in Admins, boot.at = "up", NEW id \in 1 .. nextId - 1, Delete(w, id)
  PROVE  StoreInv'
<1>1. /\ UNCHANGED <<boot, subVars, nextId, nextConfig, reloader>> /\ DeleteConfigsOf(id)
      /\ feedOf' = [feedOf EXCEPT ![id] = <<>>] /\ reloader[w].at = "idle"
      /\ TaskStep(w, Task("row", id, <<>>, {}))
  BY DEF Delete, tableVars, Free
<1>2. TableTypeOK /\ nextId \in Int /\ id \in Ids /\ id < nextId /\ id \in Nat
  BY IdsTyped DEF IInv, TableTypeOK, Ids
<1>3. ConfigsTyped'
  <2>1. feedOf' \in [Ids -> Seq(Links)]
    BY <1>1, NoLinks DEF StoreInv, StoreTyped
  <2>2. QED
    BY <1>1, <2>1, FewerConfigs DEF ConfigsTyped, StoreInv, StoreTyped
<1>4. task'[w] = Task("row", id, <<>>, {})
  BY <1>1, TaskMoves
<1>5. RequestOK(w)'
  BY <1>1, <1>2, <1>4 DEF RequestOK, Task
<1>6. Task("row", id, <<>>, {}) \in Tasks
  BY <1>2, NoLinks, TaskTyped
<1>7. QED
  BY <1>1, <1>2, <1>3, <1>5, <1>6, AdminStep DEF subVars

(* The requests on subscriptions.                                          *)
LEMMA SubStep ==
  ASSUME StoreInv, TableTypeOK, boot.at = "up", UNCHANGED <<boot, configVars, tableVars>>,
         NEW w \in Admins, NEW to \in Tasks, TaskStep(w, to), RequestOK(w)',
         nextSub' \in 1 .. MaxSub + 1, nextSub <= nextSub',
         subs' \subseteq [id : 1 .. MaxSub, client : Clients],
         picks' \subseteq (1 .. MaxSub) \X ConfigIds,
         asked' \in [1 .. MaxSub -> SUBSET ConfigIds],
         \A s \in 1 .. MaxSub : s < nextSub => asked'[s] = asked[s],
         Joined'
  PROVE  StoreInv'
<1>1. nextId \in Int /\ nextId' = nextId /\ nextId <= nextId' /\ reloader' = reloader
  BY DEF TableTypeOK, tableVars
<1>2. task' \in [Admins -> Tasks] /\ RequestsOK'
  BY <1>1, OthersKeep
<1>3. StoreTyped'
  BY <1>2 DEF StoreInv, StoreTyped, configVars
<1>4. SeedOK' /\ Unused'
  BY <1>1 DEF StoreInv, SeedOK, Unused, configVars
<1>5. QED
  BY <1>2, <1>3, <1>4 DEF StoreInv

LEMMA FormsTyped ==
  ASSUME StoreInv, NEW ids \in Forms
  PROVE  ids \in SUBSET ConfigIds
<1>1. nextConfig \in 1 .. MaxConfig + 1 /\ MaxConfig \in Nat
  BY IdsTyped DEF StoreInv, StoreTyped
<1>2. 1 .. nextConfig - 1 \subseteq ConfigIds
  BY <1>1 DEF ConfigIds
<1>3. QED
  BY <1>2 DEF Forms

LEMMA StoreAddSub ==
  ASSUME IInv, StoreInv, NEW w \in Admins, NEW client \in Clients, NEW ids \in Forms,
         AddSub(w, client, ids)
  PROVE  StoreInv'
<1> USE IdsTyped
<1>1. /\ boot.at = "up" /\ UNCHANGED <<boot, configVars, tableVars, picks>> /\ nextSub <= MaxSub
      /\ subs' = subs \cup {[id |-> nextSub, client |-> client]}
      /\ nextSub' = nextSub + 1 /\ asked' = [asked EXCEPT ![nextSub] = ids]
      /\ TaskStep(w, Task("pick", nextSub, <<>>, ids)) /\ reloader[w].at = "idle"
  BY DEF AddSub, Free
<1>2. TableTypeOK /\ StoreTyped /\ ids \in SUBSET ConfigIds
  BY FormsTyped DEF IInv, StoreInv
<1>3. nextSub \in 1 .. MaxSub /\ nextSub' \in 1 .. MaxSub + 1 /\ nextSub \in Nat /\ nextSub <= nextSub'
  BY <1>1, <1>2 DEF StoreTyped
<1>4. /\ asked' \in [1 .. MaxSub -> SUBSET ConfigIds] /\ asked'[nextSub] = ids
      /\ \A s \in 1 .. MaxSub : s < nextSub => asked'[s] = asked[s]
  BY <1>1, <1>2, <1>3 DEF StoreTyped
<1>5. Joined'
  <2>1. ASSUME NEW p \in picks
        PROVE  p[1] < nextSub' /\ p[2] \in asked'[p[1]]
    <3>1. p[1] \in 1 .. MaxSub /\ p[1] < nextSub /\ p[2] \in asked[p[1]]
      BY <1>2 DEF StoreTyped, StoreInv, Joined
    <3>2. asked'[p[1]] = asked[p[1]]
      BY <1>4, <3>1
    <3>3. p[1] < nextSub + 1
      BY <1>3, <3>1
    <3>4. QED
      BY <1>1, <3>1, <3>2, <3>3
  <2>2. QED
    BY <1>1, <2>1 DEF Joined
<1>6. task'[w] = Task("pick", nextSub, <<>>, ids) /\ Task("pick", nextSub, <<>>, ids) \in Tasks
  BY <1>1, <1>2, <1>3, NoLinks, TaskMoves, TaskTyped
<1>7. RequestOK(w)'
  <2>1. reloader' = reloader /\ nextSub < nextSub'
    BY <1>1, <1>3 DEF tableVars
  <2>2. QED
    BY <1>1, <1>3, <1>4, <1>6, <2>1 DEF RequestOK, Task
<1>8. subs' \subseteq [id : 1 .. MaxSub, client : Clients] /\ picks' \subseteq (1 .. MaxSub) \X ConfigIds
  BY <1>1, <1>2, <1>3 DEF StoreTyped
<1>9. QED
  BY <1>1, <1>2, <1>3, <1>4, <1>5, <1>6, <1>7, <1>8, SubStep

(* The other four take rows away, or add a join row the form named.        *)
LEMMA StoreSub ==
  ASSUME IInv, StoreInv, NEW w \in Admins, boot.at = "up",
         UNCHANGED <<boot, configVars, tableVars, nextSub, asked>>,
         NEW to \in Tasks, TaskStep(w, to), RequestOK(w)',
         subs' \subseteq subs,
         \A p \in picks' \ picks :
           p \in (1 .. MaxSub) \X ConfigIds /\ p[1] < nextSub /\ p[2] \in asked[p[1]]
  PROVE  StoreInv'
<1>1. TableTypeOK /\ StoreTyped /\ Joined
  BY DEF IInv, StoreInv
<1>2. /\ nextSub' \in 1 .. MaxSub + 1 /\ nextSub <= nextSub'
      /\ asked' \in [1 .. MaxSub -> SUBSET ConfigIds]
      /\ subs' \subseteq [id : 1 .. MaxSub, client : Clients]
      /\ picks' \subseteq (1 .. MaxSub) \X ConfigIds
  BY <1>1, IdsTyped DEF StoreTyped
<1>3. Joined'
  BY <1>1 DEF Joined
<1>4. QED
  BY <1>1, <1>2, <1>3, SubStep

LEMMA StorePick ==
  ASSUME IInv, StoreInv, NEW w \in Admins, boot.at = "up", Pick(w)
  PROVE  StoreInv'
<1>1. /\ UNCHANGED <<boot, configVars, tableVars, nextSub, asked, subs>> /\ task[w].at = "pick"
  BY DEF Pick
<1>2. /\ task[w] \in Tasks /\ task[w].id \in 1 .. MaxSub /\ task[w].id < nextSub
      /\ task[w].ids \subseteq asked[task[w].id] /\ task[w].ids \in SUBSET ConfigIds
      /\ reloader[w].at \notin {"refetch", "toggle"}
  BY <1>1 DEF StoreInv, StoreTyped, RequestsOK, RequestOK, Tasks
<1>3. reloader' = reloader
  BY <1>1 DEF tableVars
<1>4. CASE task[w].ids = {}
  <2>1. TaskStep(w, NoTask) /\ UNCHANGED picks /\ NoTask \in Tasks
    BY <1>4, TaskTyped DEF Pick
  <2>2. task'[w].at = "idle"
    BY <2>1, TaskMoves, TaskTyped
  <2>3. RequestOK(w)'
    BY <1>1, <1>2, <1>3, <2>2 DEF RequestOK
  <2>4. QED
    BY <1>1, <2>1, <2>3, StoreSub
<1>5. CASE task[w].ids # {}
  <2>1. PICK c \in task[w].ids :
          /\ picks' = picks \cup {<<task[w].id, c>>}
          /\ TaskStep(w, [task[w] EXCEPT !.ids = @ \ {c}])
    BY <1>5 DEF Pick
  <2> DEFINE to == [task[w] EXCEPT !.ids = @ \ {c}]
  <2>2. /\ to \in Tasks /\ TaskStep(w, to) /\ to.at = "pick" /\ to.id = task[w].id
        /\ to.ids \subseteq task[w].ids
    BY <1>1, <1>2, <2>1 DEF Tasks
  <2> HIDE DEF to
  <2>3. task'[w] = to
    BY <2>2, TaskMoves
  <2>4. RequestOK(w)'
    BY <1>1, <1>2, <1>3, <2>2, <2>3 DEF RequestOK
  <2>5. \A p \in picks' \ picks :
           p \in (1 .. MaxSub) \X ConfigIds /\ p[1] < nextSub /\ p[2] \in asked[p[1]]
    BY <1>2, <2>1
  <2>6. QED
    BY <1>1, <2>2, <2>4, <2>5, StoreSub
<1>6. QED
  BY <1>4, <1>5

LEMMA StorePickFails ==
  ASSUME IInv, StoreInv, NEW w \in Admins, boot.at = "up", PickFails(w)
  PROVE  StoreInv'
<1>1. /\ UNCHANGED <<boot, configVars, tableVars, nextSub, asked, subs, picks>>
      /\ task[w].at = "pick"
  BY DEF PickFails, subVars
<1>2. /\ task[w] \in Tasks /\ task[w].id \in 1 .. MaxSub /\ task[w].id < nextSub
      /\ task[w].ids \subseteq asked[task[w].id] /\ task[w].ids \in SUBSET ConfigIds
      /\ reloader[w].at \notin {"refetch", "toggle"}
  BY <1>1 DEF StoreInv, StoreTyped, RequestsOK, RequestOK, Tasks
<1>3. PICK c \in task[w].ids : TaskStep(w, [task[w] EXCEPT !.ids = @ \ {c}])
  BY DEF PickFails
<1> DEFINE to == [task[w] EXCEPT !.ids = @ \ {c}]
<1>4. /\ to \in Tasks /\ TaskStep(w, to) /\ to.at = "pick" /\ to.id = task[w].id
      /\ to.ids \subseteq task[w].ids
  BY <1>1, <1>2, <1>3 DEF Tasks
<1> HIDE DEF to
<1>5. task'[w] = to
  BY <1>4, TaskMoves
<1>6. reloader' = reloader
  BY <1>1 DEF tableVars
<1>7. RequestOK(w)'
  BY <1>1, <1>2, <1>4, <1>5, <1>6 DEF RequestOK
<1>8. QED
  BY <1>1, <1>4, <1>7, StoreSub

LEMMA StoreDeleteSub ==
  ASSUME IInv, StoreInv, NEW w \in Admins, boot.at = "up",
         \/ \E s \in 1 .. nextSub - 1 : DeleteSub(w, s)
         \/ DeleteSubRow(w)
         \/ \E client \in Clients : DeleteClient(w, client)
  PROVE  StoreInv'
<1>1. /\ UNCHANGED <<boot, configVars, tableVars, nextSub, asked>> /\ subs' \subseteq subs
      /\ picks' \subseteq picks
  BY DEF DeleteSub, DeleteSubRow, DeleteClient
<1>2. RequestOK(w) /\ reloader' = reloader /\ nextSub \in 1 .. MaxSub + 1
  BY <1>1 DEF StoreInv, StoreTyped, RequestsOK, tableVars
<1>3. PICK to \in Tasks : TaskStep(w, to) /\ RequestOK(w)'
  <2>1. ASSUME NEW s \in 1 .. nextSub - 1, DeleteSub(w, s)
        PROVE  \E to \in Tasks : TaskStep(w, to) /\ RequestOK(w)'
    <3> DEFINE to == Task("sub", s, <<>>, {})
    <3>1. TaskStep(w, to) /\ reloader[w].at = "idle"
      BY <2>1 DEF DeleteSub, Free
    <3>2. s \in Nat /\ s \in 1 .. MaxSub /\ s < nextSub
      BY <1>2, IdsTyped
    <3>3. to \in Tasks /\ to.at = "sub" /\ to.id = s
      BY <3>2, NoLinks, TaskTyped DEF Task
    <3> HIDE DEF to
    <3>4. task'[w] = to
      BY <3>1, TaskMoves
    <3>5. RequestOK(w)'
      BY <1>1, <1>2, <3>1, <3>2, <3>3, <3>4 DEF RequestOK
    <3>6. QED
      BY <3>1, <3>3, <3>5
  <2>2. ASSUME DeleteSubRow(w)
        PROVE  \E to \in Tasks : TaskStep(w, to) /\ RequestOK(w)'
    <3>1. TaskStep(w, NoTask) /\ NoTask \in Tasks /\ NoTask.at = "idle" /\ task[w].at = "sub"
      BY <2>2, TaskTyped DEF DeleteSubRow
    <3>2. task'[w].at = "idle"
      BY <3>1, TaskMoves
    <3>3. RequestOK(w)'
      BY <1>1, <1>2, <3>1, <3>2 DEF RequestOK
    <3>4. QED
      BY <3>1, <3>3
  <2>3. ASSUME UNCHANGED task
        PROVE  \E to \in Tasks : TaskStep(w, to) /\ RequestOK(w)'
    <3>1. task[w] \in Tasks /\ TaskStep(w, task[w])
      BY <2>3, TaskKept
    <3>2. RequestOK(w)'
      BY <1>1, <1>2, <2>3 DEF RequestOK, tableVars
    <3>3. QED
      BY <3>1, <3>2
  <2>4. QED
    BY <2>1, <2>2, <2>3 DEF DeleteClient
<1>4. QED
  BY <1>1, <1>3, StoreSub

LEMMA StoreReload ==
  ASSUME IInv, StoreInv, NEW w \in Reloaders, Reload(w)
  PROVE  StoreInv'
<1>1. /\ boot.at = "up" /\ UNCHANGED <<boot, configVars, subVars, task, nextId>> /\ TableTypeOK
  BY DEF Reload, Query, QueryFails, Assign, IInv
<1>2. PICK to : Step(w, to) /\ to.at \in {"idle", "queried"}
  BY DEF Reload, Query, QueryFails, Assign, At, Holding
<1>3. CASE w \in Admins
  BY <1>1, <1>2, <1>3, PositionStep
<1>4. CASE w \notin Admins
  <2>1. \A v \in Admins : reloader'[v] = reloader[v]
    BY <1>1, <1>2, <1>4 DEF Step, TableTypeOK, Reloaders
  <2>2. RequestsOK'
    BY <1>1, <2>1 DEF StoreInv, RequestsOK, RequestOK, subVars
  <2>3. QED
    BY <1>1, <2>2 DEF StoreInv, StoreTyped, SeedOK, Unused, Joined, subVars, configVars
<1>5. QED
  BY <1>3, <1>4

LEMMA StoreNext == IInv /\ StoreInv /\ [Next]_vars => StoreInv'
<1> SUFFICES ASSUME IInv, StoreInv, [Next]_vars PROVE StoreInv'
  OBVIOUS
<1>1. ASSUME Crash \/ SeedPanic
      PROVE  StoreInv'
  BY <1>1, StoreDie DEF Crash, SeedPanic
<1>2. ASSUME UNCHANGED vars
      PROVE  StoreInv'
  BY <1>2 DEF vars, tableVars, configVars, subVars, StoreInv, StoreTyped, RequestsOK, RequestOK,
              SeedOK, Unused, Joined
<1>3. ASSUME NEW w \in Admins, AdminBegins(w)
      PROVE  StoreInv'
  <2>1. boot.at = "up" /\ UNCHANGED boot
    BY <1>3, AdminUp
  <2>2. QED
    BY <1>3, <2>1, StoreAdd, StorePosition, StoreDelete, StoreAddSub, StoreDeleteSub
       DEF AdminBegins
<1>4. ASSUME NEW w \in Admins, AdminGoesOn(w)
      PROVE  StoreInv'
  <2>1. boot.at = "up" /\ UNCHANGED boot
    BY <1>4, AdminUp
  <2>2. QED
    BY <1>4, <2>1, StorePosition, StoreRefetch, StoreImport, StorePick, StorePickFails,
       StoreDeleteSub
       DEF AdminGoesOn
<1>5. QED
  BY <1>1, <1>2, <1>3, <1>4, StoreBoot, StoreReload DEF Next

(* Whatever the requests, the reloads, the crashes and the links, the      *)
(* tables hold rows of their types, ids included, and a request under way  *)
(* is one of the handlers of admin.go between two of its statements.       *)
THEOREM TypeCorrect == Spec => []TypeOK
<1>1. IInv /\ StoreInv => TypeOK
  <2>1. SUFFICES ASSUME IInv, StoreInv PROVE TypeOK
    OBVIOUS
  <2>2. ASSUME NEW w \in Admins
        PROVE  /\ task[w].at \in {"idle", "clear", "import", "row", "pick", "sub"}
               /\ task[w].at # "idle" => task[w].id \in Nat \ {0}
    <3>1. task[w] \in Tasks /\ RequestOK(w)
      BY <2>1 DEF StoreInv, StoreTyped, RequestsOK
    <3>2. 1 .. MaxSub \subseteq Nat \ {0} /\ Ids \subseteq Nat \ {0}
      BY IdsTyped
    <3>3. QED
      BY <3>1, <3>2 DEF Tasks, RequestOK
  <2>3. boot.at \in {"count", "row", "fetch", "import", "load", "up"}
    BY <2>1 DEF IInv, BootOK, BootStages
  <2>4. QED
    BY <2>1, <2>2, <2>3 DEF TypeOK, IInv, StoreInv, StoreTyped
<1>2. QED
  BY <1>1, InitInv, NextInv, StoreInit, StoreNext, PTL DEF Spec

(* A subscription is joined to configs its own form named, and to no       *)
(* other, in every interleaving of the requests: deleteClient              *)
(* (admin.go:590-595) leaves the join rows of the subscriptions it         *)
(* deletes, but their ids never come again.                                *)
THEOREM JoinedAsAsked == Spec => []PicksAsAsked
<1>1. StoreInv => PicksAsAsked
  BY DEF StoreInv, Joined, PicksAsAsked
<1>2. QED
  BY <1>1, InitInv, NextInv, StoreInit, StoreNext, PTL DEF Spec

-----------------------------------------------------------------------------
(* What was imported for a backend and what is left of its links make up   *)
(* the links fetched for it, link by link, while nothing disturbs it: no   *)
(* more unless old configs could not be deleted, no fewer unless that link *)
(* could not be stored.                                                    *)
Of(id, link) == {c \in configs : c.backend = id /\ c.link = link}

Count(links, link) == Cardinality({i \in DOMAIN links : links[i] = link})

HasLink(id, rest, link) ==
  /\ IsFiniteSet(Of(id, link))
  /\ id \notin kept => Cardinality(Of(id, link)) + Count(rest, link) <= Count(feedOf[id], link)
  /\ <<id, link>> \notin missed =>
        Cardinality(Of(id, link)) + Count(rest, link) >= Count(feedOf[id], link)

Has(id, rest) == \A link \in Links : HasLink(id, rest, link)

Finite(id) == \A link \in Links : IsFiniteSet(Of(id, link))

HasTask(w, id) ==
  IF task[w].at = "clear" THEN task[w].links = feedOf[id] /\ Finite(id)
  ELSE Has(id, task[w].links)

Importing(w, id) == task[w].at \in {"clear", "import"} /\ task[w].id = id

WholeAt(id) ==
  /\ \A v, w \in Admins : Works(v, id) /\ Works(w, id) => v = w
  /\ \A w \in Admins : Importing(w, id) => HasTask(w, id)
  /\ boot.at = "import" /\ boot.id = id => Has(id, boot.links)
  /\ boot.id # id /\ (\A w \in Admins : ~Importing(w, id)) => Has(id, <<>>)

Whole == \A id \in Ids \ disturbed : WholeAt(id)

-----------------------------------------------------------------------------
(* Counting links.                                                         *)
LEMMA SameSize ==
  ASSUME NEW S, NEW T, IsFiniteSet(S), NEW f \in [S -> T],
         \A x, y \in S : f[x] = f[y] => x = y,
         \A t \in T : \E x \in S : f[x] = t
  PROVE  IsFiniteSet(T) /\ Cardinality(T) = Cardinality(S)
<1>1. f \in Bijection(S, T)
  BY DEF Bijection, Injection, Surjection, IsInjective
<1>2. QED
  BY <1>1, FS_Bijection DEF ExistsBijection

LEMMA CountType ==
  ASSUME NEW links \in Seq(Links), NEW link
  PROVE  IsFiniteSet({i \in DOMAIN links : links[i] = link}) /\ Count(links, link) \in Nat
<1>1. DOMAIN links = 1 .. Len(links) /\ Len(links) \in Nat
  OBVIOUS
<1>2. IsFiniteSet(1 .. Len(links))
  BY <1>1, FS_Interval
<1>3. IsFiniteSet({i \in DOMAIN links : links[i] = link})
  BY <1>1, <1>2, FS_Subset
<1>4. QED
  BY <1>3, FS_CardinalityType DEF Count

LEMMA CountNone ==
  ASSUME NEW link
  PROVE  Count(<<>>, link) = 0
<1>1. {i \in DOMAIN <<>> : <<>>[i] = link} = {}
  OBVIOUS
<1>2. QED
  BY <1>1, FS_EmptySet DEF Count

LEMMA CountTail ==
  ASSUME NEW links \in Seq(Links), links # <<>>, NEW link
  PROVE  Count(links, link) = Count(Tail(links), link) + IF Head(links) = link THEN 1 ELSE 0
<1> DEFINE rest == Tail(links)
           S == {i \in DOMAIN links : links[i] = link}
           T == {i \in DOMAIN rest : rest[i] = link}
           R == {i \in S : i # 1}
           f == [i \in T |-> i + 1]
<1>1. /\ Len(links) \in Nat \ {0} /\ DOMAIN links = 1 .. Len(links)
      /\ rest \in Seq(Links) /\ DOMAIN rest = 1 .. Len(links) - 1
      /\ \A i \in 1 .. Len(links) - 1 : rest[i] = links[i + 1]
      /\ Head(links) = links[1]
  OBVIOUS
<1> HIDE DEF rest
<1>2. T \subseteq Int /\ f \in [T -> R]
  <2>1. ASSUME NEW i \in T
        PROVE  i \in 1 .. Len(links) - 1 /\ i + 1 \in R
    <3>1. i \in 1 .. Len(links) - 1 /\ rest[i] = link
      BY <1>1
    <3>2. i + 1 \in 1 .. Len(links) /\ i + 1 # 1
      BY <1>1, <3>1
    <3>3. QED
      BY <1>1, <3>1, <3>2
  <2>2. QED
    BY <2>1
<1>3. \A x, y \in T : f[x] = f[y] => x = y
  BY <1>2
<1>4. \A t \in R : \E x \in T : f[x] = t
  <2>1. TAKE t \in R
  <2>2. t \in 1 .. Len(links) /\ t # 1 /\ links[t] = link
    BY <1>1
  <2>3. t - 1 \in 1 .. Len(links) - 1 /\ (t - 1) + 1 = t
    BY <1>1, <2>2
  <2>4. t - 1 \in T
    BY <1>1, <2>2, <2>3
  <2>5. f[t - 1] = t
    BY <2>3, <2>4
  <2>6. QED
    BY <2>4, <2>5
<1>5. IsFiniteSet(T) /\ Cardinality(T) = Count(rest, link) /\ Cardinality(T) \in Nat
  BY <1>1, CountType DEF Count
<1> HIDE DEF f, T
<1>6. IsFiniteSet(R) /\ Cardinality(R) = Cardinality(T)
  BY <1>2, <1>3, <1>4, <1>5, SameSize
<1>7. CASE Head(links) = link
  <2>1. S = R \cup {1} /\ 1 \notin R
    BY <1>1, <1>7
  <2> HIDE DEF R, S
  <2>2. Cardinality(S) = Cardinality(R) + 1
    BY <1>6, <2>1, FS_AddElement
  <2>3. QED
    BY <1>5, <1>6, <1>7, <2>2 DEF Count, rest, S
<1>8. CASE Head(links) # link
  <2>1. S = R
    BY <1>1, <1>8
  <2> HIDE DEF R, S
  <2>2. Cardinality(S) = Cardinality(T)
    BY <1>6, <2>1
  <2>3. Count(links, link) = Cardinality(S)
    BY DEF Count, S
  <2>4. QED
    BY <1>5, <1>8, <2>2, <2>3 DEF rest
<1>9. QED
  BY <1>7, <1>8

(* What one statement does to the configs of a backend.                    *)
SameStore(id) ==
  /\ feedOf'[id] = feedOf[id]
  /\ \A link \in Links : Of(id, link)' = Of(id, link)
  /\ id \in kept <=> id \in kept'
  /\ \A link \in Links : <<id, link>> \in missed <=> <<id, link>> \in missed'

LEMMA StoreKept ==
  ASSUME UNCHANGED <<configs, kept, missed>>, NEW id \in Ids, feedOf'[id] = feedOf[id]
  PROVE  SameStore(id)
BY DEF SameStore, Of

LEMMA CreateOther ==
  ASSUME NEW at, NEW new, CreateConfig(at, new), UNCHANGED <<feedOf, kept>>, NEW id \in Ids, id # at
  PROVE  SameStore(id)
BY DEF CreateConfig, SameStore, Of

LEMMA DeleteOther ==
  ASSUME NEW at, DeleteConfigsOf(at), UNCHANGED missed, NEW id \in Ids, id # at,
         feedOf'[id] = feedOf[id]
  PROVE  SameStore(id)
BY DEF DeleteConfigsOf, SameStore, Of

LEMMA HasKept ==
  ASSUME NEW id \in Ids, SameStore(id), NEW rest, Has(id, rest)
  PROVE  Has(id, rest)'
BY DEF SameStore, Has, HasLink

LEMMA HasFinite ==
  ASSUME NEW id, NEW rest, Has(id, rest)
  PROVE  Finite(id)
BY DEF Has, HasLink, Finite

(* One link of the rest is imported, or skipped and known to be.           *)
LEMMA HasOneMore ==
  ASSUME StoreInv, NEW id \in Ids, NEW links \in Seq(Links), links # <<>>,
         CreateConfig(id, Head(links)), UNCHANGED <<feedOf, kept>>, Has(id, links)
  PROVE  Has(id, Tail(links))'
<1> DEFINE new == [id |-> nextConfig, backend |-> id, link |-> Head(links)]
<1>1. ASSUME NEW link \in Links
      PROVE  HasLink(id, Tail(links), link)'
  <2>1. PICK has, left, rest, due :
          /\ has = Cardinality(Of(id, link)) /\ left = Count(links, link)
          /\ rest = Count(Tail(links), link) /\ due = Count(feedOf[id], link)
    OBVIOUS
  <2>2. /\ IsFiniteSet(Of(id, link)) /\ has \in Nat
        /\ id \notin kept => has + left <= due
        /\ <<id, link>> \notin missed => has + left >= due
    BY <2>1, FS_CardinalityType DEF Has, HasLink
  <2>3. rest \in Nat /\ due \in Nat /\ left = rest + IF Head(links) = link THEN 1 ELSE 0
    <3>1. feedOf[id] \in Seq(Links)
      BY DEF StoreInv, StoreTyped
    <3>2. rest \in Nat /\ due \in Nat
      BY <2>1, <3>1, TailTyped, CountType
    <3>3. left = rest + IF Head(links) = link THEN 1 ELSE 0
      BY <2>1, CountTail
    <3>4. QED
      BY <3>2, <3>3
  <2>4. CASE Head(links) = link /\ configs' = configs \cup {new} /\ UNCHANGED missed
    <3>1. Of(id, link)' = Of(id, link) \cup {new}
      BY <2>4 DEF Of
    <3>2. new \notin Of(id, link)
      <4>1. \A c \in configs : c.id < nextConfig
        BY DEF StoreInv, Unused
      <4>2. nextConfig \in Int
        BY DEF StoreInv, StoreTyped
      <4>3. new \notin configs
        BY <4>1, <4>2
      <4>4. QED
        BY <4>3 DEF Of
    <3> HIDE DEF new
    <3>3. IsFiniteSet(Of(id, link)') /\ Cardinality(Of(id, link)') = has + 1
      BY <2>1, <2>2, <3>1, <3>2, FS_AddElement
    <3>4. /\ id \notin kept' => (has + 1) + rest <= due
          /\ <<id, link>> \notin missed' => (has + 1) + rest >= due
      BY <2>2, <2>3, <2>4
    <3>5. QED
      BY <2>1, <3>3, <3>4 DEF HasLink
  <2>5. CASE Of(id, link)' = Of(id, link) /\ (Head(links) = link => <<id, link>> \in missed')
             /\ missed \subseteq missed'
    <3>1. /\ id \notin kept' => has + rest <= due
          /\ <<id, link>> \notin missed' => has + rest >= due
      BY <2>2, <2>3, <2>5
    <3>2. QED
      BY <2>1, <2>2, <2>5, <3>1 DEF HasLink
  <2>6. CASE Head(links) # link
    <3>1. Of(id, link)' = Of(id, link) /\ missed \subseteq missed'
      BY <2>6 DEF CreateConfig, Of
    <3>2. QED
      BY <2>5, <2>6, <3>1
  <2>7. CASE Head(links) = link /\ UNCHANGED configs /\ missed' = missed \cup {<<id, Head(links)>>}
    BY <2>5, <2>7 DEF Of
  <2>8. QED
    BY <2>4, <2>6, <2>7 DEF CreateConfig
<1>2. QED
  BY <1>1 DEF Has

(* The configs of a backend are gone, or counted as kept: all its links    *)
(* are left.                                                               *)
LEMMA HasAll ==
  ASSUME StoreInv', NEW id \in Ids,
         \/ \A c \in configs' : c.backend # id
         \/ id \in kept' /\ Finite(id)'
  PROVE  Has(id, feedOf[id])'
<1>1. ASSUME NEW link \in Links
      PROVE  HasLink(id, feedOf[id], link)'
  <2>1. feedOf'[id] \in Seq(Links)
    BY DEF StoreInv, StoreTyped
  <2>2. PICK due : due = Count(feedOf'[id], link)
    OBVIOUS
  <2>3. due \in Nat
    BY <2>1, <2>2, CountType
  <2>4. CASE \A c \in configs' : c.backend # id
    <3>1. Of(id, link)' = {}
      BY <2>4 DEF Of
    <3>2. QED
      BY <2>2, <2>3, <3>1, FS_EmptySet DEF HasLink
  <2>5. CASE id \in kept' /\ Finite(id)'
    <3>1. PICK has : has = Cardinality(Of(id, link)')
      OBVIOUS
    <3>2. IsFiniteSet(Of(id, link)') /\ has \in Nat
      BY <2>5, <3>1, FS_CardinalityType DEF Finite
    <3>3. has + due >= due
      BY <2>3, <3>2
    <3>4. QED
      BY <2>2, <2>5, <3>1, <3>2, <3>3 DEF HasLink
  <2>6. QED
    BY <2>4, <2>5
<1>2. QED
  BY <1>1 DEF Has

-----------------------------------------------------------------------------
(* A backend nothing is done to stays as it is.                            *)
SameWork(id) ==
  \A w \in Admins :
    /\ Works(w, id)' => Works(w, id)
    /\ Works(w, id)' \/ Importing(w, id) => task'[w] = task[w]

LEMMA WholeOther ==
  ASSUME NEW id \in Ids, WholeAt(id), SameStore(id), SameWork(id), boot.id # id, boot'.id # id
  PROVE  WholeAt(id)'
<1>1. \A v, w \in Admins : Works(v, id)' /\ Works(w, id)' => v = w
  BY DEF WholeAt, SameWork
<1>2. ASSUME NEW w \in Admins, Importing(w, id)'
      PROVE  HasTask(w, id)'
  <2>1. task'[w] = task[w]
    BY <1>2 DEF SameWork, Works, Importing
  <2>2. HasTask(w, id)
    BY <1>2, <2>1 DEF WholeAt, Importing
  <2>3. CASE task[w].at = "clear"
    BY <2>1, <2>2, <2>3 DEF HasTask, SameStore, Finite
  <2>4. CASE task[w].at # "clear"
    <3>1. PICK rest : rest = task[w].links
      OBVIOUS
    <3>2. Has(id, rest)
      BY <2>2, <2>4, <3>1 DEF HasTask
    <3>3. Has(id, rest)'
      BY <3>2, HasKept
    <3>4. QED
      BY <2>1, <2>4, <3>1, <3>3 DEF HasTask, Has, HasLink
  <2>5. QED
    BY <2>3, <2>4
<1>3. ASSUME \A w \in Admins : ~Importing(w, id)'
      PROVE  Has(id, <<>>)'
  <2>1. \A w \in Admins : ~Importing(w, id)
    BY <1>3 DEF SameWork, Importing
  <2>2. Has(id, <<>>)
    BY <2>1 DEF WholeAt
  <2>3. QED
    BY <2>2, HasKept
<1>4. ~(boot'.at = "import" /\ boot'.id = id)
  OBVIOUS
<1>5. QED
  BY <1>1, <1>2, <1>3, <1>4 DEF WholeAt

(* The seeding: no request is under way.                                   *)
LEMMA WholeBoot ==
  ASSUME IInv, StoreInv, StoreInv', Whole, Booting
  PROVE  Whole'
<1>1. UNCHANGED <<task, reloader, disturbed>> /\ boot.at # "up"
  BY DEF Booting, SeedCount, SeedMiscount, SeedRow, SeedRowFail, SeedFetch, SeedConfig, SeedNext, SeedDone,
         NewBalancer, SeedUnchanged, SeedKeeps
<1>2. \A id : SameWork(id)
  BY <1>1 DEF SameWork, Works
<1>3. \A w \in Admins : \A id : ~Works(w, id)' /\ ~Importing(w, id)'
  BY <1>1 DEF IInv, Quiet, Works, Importing, Reloaders
<1>4. boot.id \in Ids \/ boot.id = 0
  BY DEF StoreInv, SeedOK
<1>5. SUFFICES ASSUME NEW id \in Ids, id \notin disturbed PROVE WholeAt(id)'
  BY <1>1 DEF Whole
<1>6. WholeAt(id) /\ id # 0
  BY <1>5, IdsTyped DEF Whole
<1>7. ASSUME \/ boot'.id = id /\ ~(boot'.at = "import")
             \/ boot'.at = "import" /\ boot'.id = id /\ Has(id, boot.links)'
      PROVE  WholeAt(id)'
  BY <1>3, <1>7 DEF WholeAt
<1>8. ASSUME SeedCount \/ SeedMiscount \/ SeedRowFail \/ SeedDone \/ NewBalancer
      PROVE  WholeAt(id)'
  <2>1. UNCHANGED configVars /\ boot.at \in {"count", "row", "load"}
    BY <1>8 DEF SeedCount, SeedMiscount, SeedRowFail, SeedDone, NewBalancer
  <2>2. boot.id = 0 /\ boot'.id = 0
    BY <1>8, <2>1 DEF StoreInv, SeedOK, SeedCount, SeedMiscount, SeedRowFail, SeedDone, NewBalancer, IInv, BootOK,
       Boot
  <2>3. SameStore(id)
    BY <2>1, StoreKept DEF configVars
  <2>4. QED
    BY <1>2, <1>6, <2>2, <2>3, WholeOther
<1>9. ASSUME NEW feed \in Feeds, SeedRow(feed)
      PROVE  WholeAt(id)'
  <2>1. UNCHANGED configVars /\ boot.at = "row" /\ boot'.at = "fetch"
    BY <1>9 DEF SeedRow, IInv, BootOK
  <2>2. boot.id = 0
    BY <2>1 DEF StoreInv, SeedOK
  <2>3. SameStore(id)
    BY <2>1, StoreKept DEF configVars
  <2>4. CASE boot'.id = id
    BY <1>7, <2>1, <2>4
  <2>5. CASE boot'.id # id
    BY <1>2, <1>6, <2>2, <2>3, <2>5, WholeOther
  <2>6. QED
    BY <2>4, <2>5
<1>10. ASSUME NEW feed \in Feeds, SeedFetch(feed)
       PROVE  WholeAt(id)'
  <2>1. /\ UNCHANGED <<configs, kept, missed>> /\ boot.at = "fetch" /\ boot'.at = "import" /\ boot'.id = boot.id
        /\ boot'.links = feed /\ feedOf' = [feedOf EXCEPT ![boot.id] = feed]
    BY <1>10 DEF SeedFetch, IInv, BootOK
  <2>2. feedOf \in [Ids -> Seq(Links)] /\ \A c \in configs : c.backend # boot.id
    BY <2>1 DEF StoreInv, StoreTyped, Unused
  <2>3. CASE boot.id = id
    <3>1. \A c \in configs' : c.backend # id
      BY <2>1, <2>2, <2>3
    <3>2. Has(id, feedOf[id])'
      BY <3>1, HasAll
    <3>3. feedOf'[id] = boot'.links
      BY <2>1, <2>2, <2>3
    <3>4. Has(id, boot.links)'
      BY <3>2, <3>3 DEF Has, HasLink
    <3>5. QED
      BY <1>7, <2>1, <2>3, <3>4
  <2>4. CASE boot.id # id
    <3>1. feedOf'[id] = feedOf[id]
      BY <2>1, <2>2, <2>4
    <3>2. SameStore(id)
      BY <2>1, <3>1, StoreKept
    <3>3. QED
      BY <1>2, <1>6, <2>1, <2>4, <3>2, WholeOther
  <2>5. QED
    BY <2>3, <2>4
<1>11. ASSUME SeedConfig
       PROVE  WholeAt(id)'
  <2>1. /\ UNCHANGED <<feedOf, kept>> /\ boot.at = "import" /\ boot'.at = "import" /\ boot'.id = boot.id
        /\ boot.links \in Seq(Links) /\ boot.links # <<>> /\ boot'.links = Tail(boot.links)
        /\ CreateConfig(boot.id, Head(boot.links))
    BY <1>11 DEF SeedConfig, IInv, BootOK
  <2>2. CASE boot.id = id
    <3>1. PICK links : links = boot.links
      OBVIOUS
    <3>2. Has(id, links)
      BY <1>6, <2>1, <2>2, <3>1 DEF WholeAt
    <3>3. links \in Seq(Links) /\ links # <<>> /\ CreateConfig(id, Head(links))
          /\ UNCHANGED <<feedOf, kept>>
      BY <2>1, <2>2, <3>1
    <3>4. Has(id, Tail(links))'
      BY <3>2, <3>3, HasOneMore
    <3>5. boot'.links = Tail(links)
      BY <2>1, <3>1
    <3>6. Has(id, boot.links)'
      BY <3>4, <3>5 DEF Has, HasLink
    <3>7. QED
      BY <1>7, <2>1, <2>2, <3>6
  <2>3. CASE boot.id # id
    <3>1. SameStore(id)
      BY <2>1, <2>3, CreateOther
    <3>2. QED
      BY <1>2, <1>6, <2>1, <2>3, <3>1, WholeOther
  <2>4. QED
    BY <2>2, <2>3
<1>12. ASSUME SeedNext
       PROVE  WholeAt(id)'
  <2>1. UNCHANGED configVars /\ boot.at = "import" /\ boot.links = <<>> /\ boot'.id = 0
        /\ boot'.at = "row"
    BY <1>12 DEF SeedNext, Boot
  <2>2. SameStore(id)
    BY <2>1, StoreKept DEF configVars
  <2>3. CASE boot.id = id
    <3>1. Has(id, <<>>)
      BY <1>6, <2>1, <2>3 DEF WholeAt
    <3>2. Has(id, <<>>)'
      BY <2>2, <3>1, HasKept
    <3>3. QED
      BY <1>3, <2>1, <3>2 DEF WholeAt
  <2>4. CASE boot.id # id
    BY <1>2, <1>6, <2>1, <2>2, <2>4, WholeOther
  <2>5. QED
    BY <2>3, <2>4
<1>13. QED
  BY <1>8, <1>9, <1>10, <1>11, <1>12 DEF Booting

(* A death disturbs every backend something was being done to.             *)
LEMMA WholeDie ==
  ASSUME IInv, StoreInv, Whole, Die
  PROVE  Whole'
<1>1. SUFFICES ASSUME NEW id \in Ids, id \notin disturbed' PROVE WholeAt(id)'
  BY DEF Whole
<1>2. /\ UNCHANGED configVars /\ boot'.id = 0 /\ boot'.at = "count"
      /\ id \notin disturbed /\ \A w \in Admins : ~Works(w, id)
  BY <1>1 DEF Die, Boot
<1>3. boot.id # id
  <2>1. boot.at \in {"fetch", "import"} => boot.id # id
    BY <1>1 DEF Die
  <2>2. QED
    BY <2>1, IdsTyped DEF StoreInv, SeedOK
<1>4. \A w \in Admins : ~Works(w, id)' /\ ~Importing(w, id)'
  BY TaskTyped DEF Die, Works, Importing, At, Holding, Reloaders
<1>5. SameStore(id)
  BY <1>2, StoreKept DEF configVars
<1>6. SameWork(id)
  BY <1>2, <1>4 DEF SameWork, Works, Importing
<1>7. boot'.id # id /\ WholeAt(id)
  BY <1>1, <1>2, IdsTyped DEF Whole
<1>8. QED
  BY <1>3, <1>5, <1>6, <1>7, WholeOther

-----------------------------------------------------------------------------
(* Requests: those that leave a backend alone, and the one that works on   *)
(* it, alone.                                                              *)
LEMMA WorkElsewhere ==
  ASSUME NEW id, NEW w \in Admins,
         \A v \in Admins \ {w} : task'[v] = task[v] /\ reloader'[v] = reloader[v],
         ~Importing(w, id), ~Works(w, id)'
  PROVE  SameWork(id)
BY DEF SameWork, Works, Importing

LEMMA WholeOwn ==
  ASSUME NEW id \in Ids, boot'.id # id, NEW w \in Admins,
         \A v \in Admins \ {w} : ~Works(v, id)',
         Importing(w, id)' => HasTask(w, id)',
         ~Importing(w, id)' => Has(id, <<>>)'
  PROVE  WholeAt(id)'
<1>1. \A v \in Admins : Importing(v, id)' => Works(v, id)'
  BY DEF Importing, Works
<1>2. \A v \in Admins : Importing(v, id)' => v = w
  BY <1>1
<1>3. QED
  BY <1>2 DEF WholeAt

LEMMA OthersWork ==
  ASSUME NEW id, NEW w \in Admins,
         \A v \in Admins \ {w} : task'[v] = task[v] /\ reloader'[v] = reloader[v] /\ ~Works(v, id)
  PROVE  \A v \in Admins \ {w} : ~Works(v, id)'
BY DEF Works

(* While requests are served, nothing is being seeded.                     *)
LEMMA NoSeeding ==
  ASSUME StoreInv, boot.at = "up", UNCHANGED boot, NEW id \in Ids
  PROVE  boot.id # id /\ boot'.id # id
BY IdsTyped DEF StoreInv, SeedOK

LEMMA OneMoves ==
  ASSUME StoreInv, NEW w \in Admins, NEW to, TaskStep(w, to)
  PROVE  task'[w] = to /\ \A v \in Admins \ {w} : task'[v] = task[v]
BY DEF StoreInv, StoreTyped, TaskStep

(* What does not touch the configs, nor begin to.                          *)
LEMMA WholeIdle ==
  ASSUME IInv, StoreInv, Whole, boot.at = "up", UNCHANGED <<boot, configVars>>,
         disturbed \subseteq disturbed',
         NEW w \in Admins,
         \A v \in Admins \ {w} : task'[v] = task[v] /\ reloader'[v] = reloader[v],
         \/ task'[w] = task[w] /\ (reloader'[w] = reloader[w] \/ reloader'[w].at # "refetch")
         \/ /\ task[w].at \notin {"clear", "import"} \/ task[w].id \in disturbed'
            /\ task'[w].at \notin {"clear", "import", "row"}
            /\ reloader'[w].at # "refetch"
  PROVE  Whole'
<1>1. SUFFICES ASSUME NEW id \in Ids, id \notin disturbed' PROVE WholeAt(id)'
  BY DEF Whole
<1>2. WholeAt(id) /\ boot.id # id /\ boot'.id # id
  BY <1>1, NoSeeding DEF Whole
<1>3. SameStore(id)
  BY StoreKept DEF configVars
<1>4. SameWork(id)
  <2>1. CASE task'[w] = task[w] /\ (reloader'[w] = reloader[w] \/ reloader'[w].at # "refetch")
    BY <2>1 DEF SameWork, Works
  <2>2. CASE /\ task[w].at \notin {"clear", "import"} \/ task[w].id \in disturbed'
             /\ task'[w].at \notin {"clear", "import", "row"}
             /\ reloader'[w].at # "refetch"
    <3>1. ~Importing(w, id) /\ ~Works(w, id)'
      BY <1>1, <2>2 DEF Importing, Works
    <3>2. QED
      BY <3>1, WorkElsewhere
  <2>3. QED
    BY <2>1, <2>2
<1>5. QED
  BY <1>2, <1>3, <1>4, WholeOther

LEMMA WholeElsewhere ==
  ASSUME IInv, StoreInv, Whole, NEW w \in Admins, boot.at = "up", UNCHANGED boot,
         \/ \E r \in db : Toggle(w, r)
         \/ ToggleStore(w) \/ RefetchAbort(w) \/ ImportPanic(w) \/ DeleteRow(w)
         \/ \E client \in Clients, ids \in Forms : AddSub(w, client, ids)
         \/ \E s \in 1 .. nextSub - 1 : DeleteSub(w, s)
         \/ \E client \in Clients : DeleteClient(w, client)
         \/ Pick(w) \/ PickFails(w) \/ DeleteSubRow(w)
  PROVE  Whole'
<1>1. TableTypeOK /\ RequestOK(w)
  BY DEF IInv, StoreInv, RequestsOK
<1>2. ASSUME NEW r \in db, Toggle(w, r)
      PROVE  Whole'
  <2>1. UNCHANGED <<configVars, task, disturbed>> /\ Step(w, Holding("toggle", r.id, ~r.enabled, {}))
    BY <1>2 DEF Toggle, ToggleRead
  <2>2. reloader'[w].at = "toggle" /\ \A v \in Admins \ {w} : reloader'[v] = reloader[v]
    BY <1>1, <2>1, ReloaderMoves DEF Holding
  <2>3. QED
    BY <2>1, <2>2, WholeIdle
<1>3. ASSUME ToggleStore(w) \/ RefetchAbort(w)
      PROVE  Whole'
  <2>1. /\ UNCHANGED <<configVars, task, disturbed>>
        /\ Step(w, At("changed")) \/ Step(w, At("idle"))
    BY <1>3 DEF ToggleStore, ToggleWrite, RowStays, RefetchAbort, RefetchFail
  <2>2. reloader'[w].at # "refetch" /\ \A v \in Admins \ {w} : reloader'[v] = reloader[v]
    BY <1>1, <2>1, ReloaderMoves DEF At, Holding
  <2>3. QED
    BY <2>1, <2>2, WholeIdle
<1>4. ASSUME ImportPanic(w) \/ DeleteRow(w)
      PROVE  Whole'
  <2>1. /\ UNCHANGED configVars /\ TaskStep(w, NoTask)
        /\ Step(w, At("changed")) \/ Step(w, At("idle"))
        /\ disturbed \subseteq disturbed'
        /\ task[w].at = "row" \/ task[w].id \in disturbed'
    BY <1>4 DEF ImportPanic, DeleteRow, DeleteBackend, RowStays
  <2>2. reloader'[w].at # "refetch" /\ \A v \in Admins \ {w} : reloader'[v] = reloader[v]
    BY <1>1, <2>1, ReloaderMoves DEF At, Holding
  <2>3. task'[w].at = "idle" /\ \A v \in Admins \ {w} : task'[v] = task[v]
    BY <2>1, OneMoves, TaskTyped
  <2>4. QED
    BY <2>1, <2>2, <2>3, WholeIdle
<1>5. ASSUME NEW client \in Clients, DeleteClient(w, client)
      PROVE  Whole'
  <2>1. UNCHANGED <<configVars, task, disturbed, reloader>>
    BY <1>5 DEF DeleteClient, tableVars
  <2>2. QED
    BY <2>1, WholeIdle
<1>6. ASSUME NEW to, TaskStep(w, to), to.at \in {"idle", "pick", "sub"},
             task[w].at \in {"idle", "pick", "sub"}, reloader[w].at # "refetch",
             UNCHANGED <<configVars, disturbed, reloader>>
      PROVE  Whole'
  <2>1. task'[w] = to /\ \A v \in Admins \ {w} : task'[v] = task[v]
    BY <1>6, OneMoves
  <2>2. QED
    BY <1>6, <2>1, WholeIdle
<1>7. ASSUME NEW client \in Clients, NEW ids \in Forms, AddSub(w, client, ids)
      PROVE  Whole'
  <2> DEFINE to == Task("pick", nextSub, <<>>, ids)
  <2>1. /\ TaskStep(w, to) /\ to.at = "pick" /\ task[w] = NoTask /\ reloader[w].at = "idle"
        /\ UNCHANGED <<configVars, disturbed, reloader>>
    BY <1>7 DEF AddSub, Free, Task, tableVars
  <2> HIDE DEF to
  <2>2. QED
    BY <1>6, <2>1, TaskTyped
<1>8. ASSUME NEW s \in 1 .. nextSub - 1, DeleteSub(w, s)
      PROVE  Whole'
  <2> DEFINE to == Task("sub", s, <<>>, {})
  <2>1. /\ TaskStep(w, to) /\ to.at = "sub" /\ task[w] = NoTask /\ reloader[w].at = "idle"
        /\ UNCHANGED <<configVars, disturbed, reloader>>
    BY <1>8 DEF DeleteSub, Free, Task, tableVars
  <2> HIDE DEF to
  <2>2. QED
    BY <1>6, <2>1, TaskTyped
<1>9. ASSUME DeleteSubRow(w)
      PROVE  Whole'
  <2>1. /\ TaskStep(w, NoTask) /\ task[w].at = "sub"
        /\ UNCHANGED <<configVars, disturbed, reloader>>
    BY <1>9 DEF DeleteSubRow, tableVars
  <2>2. QED
    BY <1>1, <1>6, <2>1, TaskTyped DEF RequestOK
<1>10. ASSUME Pick(w)
       PROVE  Whole'
  <2>1. task[w].at = "pick" /\ task[w] \in Tasks /\ UNCHANGED <<configVars, disturbed, reloader>>
    BY <1>10 DEF Pick, tableVars, StoreInv, StoreTyped
  <2>2. reloader[w].at # "refetch"
    BY <1>1, <2>1 DEF RequestOK
  <2>3. CASE task[w].ids = {}
    BY <1>6, <1>10, <2>1, <2>2, <2>3, TaskTyped DEF Pick
  <2>4. CASE task[w].ids # {}
    <3>1. PICK c \in task[w].ids : TaskStep(w, [task[w] EXCEPT !.ids = @ \ {c}])
      BY <1>10, <2>4 DEF Pick
    <3>2. [task[w] EXCEPT !.ids = @ \ {c}].at = "pick"
      BY <2>1 DEF Tasks
    <3>3. QED
      BY <1>6, <2>1, <2>2, <3>1, <3>2
  <2>5. QED
    BY <2>3, <2>4
<1>12. ASSUME PickFails(w)
       PROVE  Whole'
  <2>1. task[w].at = "pick" /\ task[w] \in Tasks /\ UNCHANGED <<configVars, disturbed, reloader>>
    BY <1>12 DEF PickFails, tableVars, StoreInv, StoreTyped
  <2>2. reloader[w].at # "refetch"
    BY <1>1, <2>1 DEF RequestOK
  <2>3. PICK c \in task[w].ids : TaskStep(w, [task[w] EXCEPT !.ids = @ \ {c}])
    BY <1>12 DEF PickFails
  <2>4. [task[w] EXCEPT !.ids = @ \ {c}].at = "pick"
    BY <2>1 DEF Tasks
  <2>5. QED
    BY <1>6, <2>1, <2>2, <2>3, <2>4
<1>11. QED
  BY <1>2, <1>3, <1>4, <1>5, <1>7, <1>8, <1>9, <1>10, <1>12

(* addBackend: the row is new, so is everything about it.                  *)
LEMMA WholeAdd ==
  ASSUME IInv, StoreInv, StoreInv', Whole, NEW w \in Admins, boot.at = "up", UNCHANGED boot,
         NEW feed \in Feeds, NEW primary, AddRow(w, feed, primary)
  PROVE  Whole'
<1> DEFINE to == Task("import", nextId, feed, {})
<1>1. /\ UNCHANGED <<configs, kept, missed, disturbed>>
      /\ feedOf' = [feedOf EXCEPT ![nextId] = feed]
      /\ TaskStep(w, to) /\ Step(w, At("changed")) /\ task[w] = NoTask /\ nextId <= MaxId
      /\ to.at = "import" /\ to.id = nextId /\ to.links = feed
  BY DEF AddRow, AddBackend, Free, Task
<1> HIDE DEF to
<1>2. TableTypeOK /\ nextId \in Ids /\ feedOf \in [Ids -> Seq(Links)]
  BY <1>1 DEF IInv, TableTypeOK, Ids, StoreInv, StoreTyped
<1>3. task'[w] = to /\ reloader'[w].at = "changed"
      /\ \A v \in Admins \ {w} : task'[v] = task[v] /\ reloader'[v] = reloader[v]
  BY <1>1, <1>2, OneMoves, ReloaderMoves DEF At, Holding
<1>4. ASSUME NEW id \in Ids, id \notin disturbed, id # nextId
      PROVE  WholeAt(id)'
  <2>1. WholeAt(id) /\ boot.id # id /\ boot'.id # id
    BY <1>4, NoSeeding DEF Whole
  <2>2. feedOf'[id] = feedOf[id]
    BY <1>1, <1>2, <1>4
  <2>3. SameStore(id)
    BY <1>1, <2>2, StoreKept
  <2>4. ~Importing(w, id) /\ ~Works(w, id)'
    BY <1>1, <1>3, <1>4, TaskTyped DEF Importing, Works
  <2>5. SameWork(id)
    BY <1>3, <2>4, WorkElsewhere
  <2>6. QED
    BY <2>1, <2>3, <2>5, WholeOther
<1>5. PICK new \in Ids : new = nextId
  BY <1>2
<1>6. WholeAt(new)'
  <2>2. \A v \in Admins \ {w} : ~Works(v, new)
    <3>1. TAKE v \in Admins \ {w}
    <3>2. RequestOK(v)
      BY DEF StoreInv, RequestsOK
    <3>3. \A n \in Ids : n < nextId => n # new
      BY <1>5, IdsTyped
    <3>4. QED
      BY <3>2, <3>3 DEF RequestOK, Works
  <2>3. \A v \in Admins \ {w} : ~Works(v, new)'
    BY <1>3, <2>2, OthersWork
  <2>4. \A c \in configs' : c.backend # new
    <3>1. \A c \in configs : c.backend \in Ids /\ c.backend < nextId
      BY DEF StoreInv, StoreTyped, Unused
    <3>2. \A n \in Ids : n < nextId => n # new
      BY <1>5, IdsTyped
    <3>3. QED
      BY <1>1, <3>1, <3>2
  <2>5. Has(new, feedOf[new])'
    BY <2>4, HasAll
  <2>6. feedOf'[new] = task'[w].links /\ Importing(w, new)'
    BY <1>1, <1>2, <1>3, <1>5 DEF Importing
  <2>7. HasTask(w, new)'
    BY <1>1, <1>3, <2>5, <2>6 DEF HasTask, Has, HasLink
  <2>8. boot'.id # new
    BY NoSeeding
  <2>9. QED
    BY <2>3, <2>6, <2>7, <2>8, WholeOwn
<1>7. QED
  BY <1>1, <1>4, <1>5, <1>6 DEF Whole

(* A request begins on a backend: either nothing else is under way on it,  *)
(* or from now on it counts as disturbed.                                  *)
LEMMA WholeRefetch ==
  ASSUME IInv, StoreInv, Whole, NEW w \in Admins, boot.at = "up", UNCHANGED boot,
         NEW r \in db, Refetch(w, r)
  PROVE  Whole'
<1>1. /\ UNCHANGED <<configVars, task>> /\ Step(w, Holding("refetch", r.id, FALSE, {}))
      /\ task[w] = NoTask /\ Overlap(r.id)
  BY DEF Refetch, RefetchRead, Free
<1>2. TableTypeOK
  BY DEF IInv
<1>3. /\ reloader'[w].at = "refetch" /\ reloader'[w].id = r.id
      /\ \A v \in Admins \ {w} : reloader'[v] = reloader[v]
  BY <1>1, <1>2, ReloaderMoves DEF Holding
<1>4. SUFFICES ASSUME NEW id \in Ids, id \notin disturbed' PROVE WholeAt(id)'
  BY DEF Whole
<1>5. WholeAt(id) /\ boot.id # id /\ boot'.id # id
  BY <1>1, <1>4, NoSeeding DEF Whole, Overlap
<1>6. SameStore(id) /\ task'[w].at = "idle"
  BY <1>1, StoreKept, TaskTyped DEF configVars
<1>7. CASE id # r.id
  <2>1. ~Importing(w, id) /\ ~Works(w, id)'
    BY <1>1, <1>3, <1>6, <1>7 DEF Importing, Works
  <2>2. SameWork(id)
    BY <1>1, <1>3, <2>1, WorkElsewhere
  <2>3. QED
    BY <1>5, <1>6, <2>2, WholeOther
<1>8. CASE id = r.id
  <2>1. \A v \in Admins : ~Works(v, id)
    BY <1>1, <1>4, <1>8 DEF Overlap
  <2>2. \A v \in Admins \ {w} : ~Works(v, id)'
    BY <1>1, <1>3, <2>1, OthersWork
  <2>3. \A v \in Admins : ~Importing(v, id)
    BY <2>1 DEF Importing, Works
  <2>4. Has(id, <<>>)'
    BY <1>5, <1>6, <2>3, HasKept DEF WholeAt
  <2>5. ~Importing(w, id)'
    BY <1>6 DEF Importing
  <2>6. QED
    BY <1>5, <2>2, <2>4, <2>5, WholeOwn
<1>9. QED
  BY <1>7, <1>8

LEMMA WholeDelete ==
  ASSUME IInv, StoreInv, StoreInv', Whole, NEW w \in Admins, boot.at = "up", UNCHANGED boot,
         NEW del \in 1 .. nextId - 1, Delete(w, del)
  PROVE  Whole'
<1> DEFINE to == Task("row", del, <<>>, {})
<1>1. /\ UNCHANGED <<nextConfig, missed, reloader>> /\ DeleteConfigsOf(del) /\ Overlap(del)
      /\ feedOf' = [feedOf EXCEPT ![del] = <<>>] /\ TaskStep(w, to) /\ task[w] = NoTask
      /\ reloader[w].at = "idle" /\ to.at = "row" /\ to.id = del
  BY DEF Delete, tableVars, Free, Task
<1> HIDE DEF to
<1>2. feedOf \in [Ids -> Seq(Links)] /\ del \in Ids
  BY IdsTyped DEF StoreInv, StoreTyped, IInv, TableTypeOK, Ids
<1>3. task'[w] = to /\ \A v \in Admins \ {w} : task'[v] = task[v]
  BY <1>1, OneMoves
<1>4. SUFFICES ASSUME NEW id \in Ids, id \notin disturbed' PROVE WholeAt(id)'
  BY DEF Whole
<1>5. WholeAt(id) /\ boot.id # id /\ boot'.id # id
  BY <1>1, <1>4, NoSeeding DEF Whole, Overlap
<1>6. CASE id # del
  <2>1. ~Importing(w, id) /\ ~Works(w, id)'
    BY <1>1, <1>3, <1>6, TaskTyped DEF Importing, Works
  <2>2. SameWork(id)
    BY <1>1, <1>3, <2>1, WorkElsewhere
  <2>3. feedOf'[id] = feedOf[id]
    BY <1>1, <1>2, <1>6
  <2>4. SameStore(id)
    BY <1>1, <1>6, <2>3, DeleteOther
  <2>5. QED
    BY <1>5, <2>2, <2>4, WholeOther
<1>7. CASE id = del
  <2>1. \A v \in Admins : ~Works(v, id)
    BY <1>1, <1>4, <1>7 DEF Overlap
  <2>2. \A v \in Admins \ {w} : ~Works(v, id)'
    BY <1>1, <1>3, <2>1, OthersWork
  <2>3. feedOf'[id] = <<>>
    BY <1>1, <1>2, <1>7
  <2>8. Finite(id)
    <3>1. \A v \in Admins : ~Importing(v, id)
      BY <2>1 DEF Importing, Works
    <3>2. QED
      BY <1>5, <3>1, HasFinite DEF WholeAt
  <2>4. Has(id, feedOf[id])'
    BY <1>1, <1>7, <2>8, HasAll DEF DeleteConfigsOf, Finite, Of
  <2>5. Has(id, <<>>)'
    BY <2>3, <2>4 DEF Has, HasLink
  <2>6. ~Importing(w, id)'
    BY <1>1, <1>3 DEF Importing
  <2>7. QED
    BY <1>5, <2>2, <2>5, <2>6, WholeOwn
<1>8. QED
  BY <1>6, <1>7

(* A request on a backend nothing disturbs is alone on it.                 *)
LEMMA WholeRefetched ==
  ASSUME IInv, StoreInv, StoreInv', Whole, NEW w \in Admins, boot.at = "up", UNCHANGED boot,
         NEW feed \in Feeds, RefetchRow(w, feed)
  PROVE  Whole'
<1>1. PICK at : at = reloader[w].id
  OBVIOUS
<1> DEFINE to == Task("clear", at, feed, {})
<1>2. /\ UNCHANGED <<configs, kept, disturbed>> /\ feedOf' = [feedOf EXCEPT ![at] = feed]
      /\ missed' = {m \in missed : m[1] # at}
      /\ TaskStep(w, to) /\ Step(w, At("changed")) /\ reloader[w].at = "refetch"
      /\ to.at = "clear" /\ to.id = at /\ to.links = feed
  BY <1>1 DEF RefetchRow, RefetchKeep, RefetchWrite, RowStays, Task
<1> HIDE DEF to
<1>3. TableTypeOK /\ RequestOK(w) /\ feedOf \in [Ids -> Seq(Links)]
  BY DEF IInv, StoreInv, StoreTyped, RequestsOK
<1>4. task[w].at = "idle" \/ task[w].at \in {"pick", "sub"}
  BY <1>2, <1>3 DEF RequestOK, StoreInv, StoreTyped, Tasks
<1>5. task'[w] = to /\ reloader'[w].at = "changed"
      /\ \A v \in Admins \ {w} : task'[v] = task[v] /\ reloader'[v] = reloader[v]
  BY <1>2, <1>3, OneMoves, ReloaderMoves DEF At, Holding
<1>6. SUFFICES ASSUME NEW id \in Ids, id \notin disturbed PROVE WholeAt(id)'
  BY <1>2 DEF Whole
<1>7. WholeAt(id) /\ boot.id # id /\ boot'.id # id
  BY <1>6, NoSeeding DEF Whole
<1>8. CASE id # at
  <2>1. ~Importing(w, id) /\ ~Works(w, id)'
    BY <1>2, <1>4, <1>5, <1>8 DEF Importing, Works
  <2>2. SameWork(id)
    BY <1>5, <2>1, WorkElsewhere
  <2>3. feedOf'[id] = feedOf[id]
    BY <1>2, <1>3, <1>8
  <2>4. SameStore(id)
    BY <1>2, <1>8, <2>3 DEF SameStore, Of
  <2>5. QED
    BY <1>7, <2>2, <2>4, WholeOther
<1>9. CASE id = at
  <2>1. Works(w, id)
    BY <1>1, <1>2, <1>9 DEF Works
  <2>2. \A v \in Admins \ {w} : ~Works(v, id)
    BY <1>7, <2>1 DEF WholeAt
  <2>3. \A v \in Admins \ {w} : ~Works(v, id)'
    BY <1>5, <2>2, OthersWork
  <2>6. Finite(id)
    <3>1. \A v \in Admins : ~Importing(v, id)
      BY <1>2, <1>4, <2>2 DEF Importing, Works
    <3>2. QED
      BY <1>7, <3>1, HasFinite DEF WholeAt
  <2>4. Importing(w, id)' /\ HasTask(w, id)'
    BY <1>2, <1>3, <1>5, <1>9, <2>6 DEF Importing, HasTask, Finite, Of
  <2>5. QED
    BY <1>7, <2>3, <2>4, WholeOwn
<1>10. QED
  BY <1>8, <1>9

LEMMA WholeImport ==
  ASSUME IInv, StoreInv, StoreInv', Whole, NEW w \in Admins, boot.at = "up", UNCHANGED boot,
         ClearConfigs(w) \/ Import(w) \/ ImportDone(w)
  PROVE  Whole'
<1>1. PICK at : at = task[w].id
  OBVIOUS
<1>2. PICK links : links = task[w].links
  OBVIOUS
<1>3. UNCHANGED <<feedOf, reloader, disturbed>> /\ task[w].at \in {"clear", "import"}
  BY DEF ClearConfigs, Import, ImportDone, configVars, tableVars
<1>4. task[w] \in Tasks /\ RequestOK(w) /\ feedOf \in [Ids -> Seq(Links)] /\ links \in Seq(Links)
  BY <1>2 DEF StoreInv, StoreTyped, RequestsOK, Tasks
<1>5. reloader[w].at # "refetch"
  BY <1>3, <1>4 DEF RequestOK
<1>6. \A v \in Admins \ {w} : task'[v] = task[v] /\ reloader'[v] = reloader[v]
  BY <1>3, OneMoves DEF ClearConfigs, Import, ImportDone
<1>7. /\ ClearConfigs(w) =>
           /\ DeleteConfigsOf(at) /\ UNCHANGED missed
           /\ task'[w].at = "import" /\ task'[w].id = at /\ task'[w].links = links
      /\ Import(w) =>
           /\ CreateConfig(at, Head(links)) /\ links # <<>> /\ UNCHANGED kept
           /\ task'[w].at = "import" /\ task'[w].id = at /\ task'[w].links = Tail(links)
      /\ ImportDone(w) => UNCHANGED <<configs, kept, missed>> /\ links = <<>> /\ task'[w].at = "idle"
  <2>1. CASE ClearConfigs(w)
    <3>1. task'[w] = [task[w] EXCEPT !.at = "import"]
      BY <2>1, OneMoves DEF ClearConfigs
    <3>2. task'[w].at = "import" /\ task'[w].id = at /\ task'[w].links = links
      BY <1>1, <1>2, <1>4, <3>1 DEF Tasks
    <3>3. task[w].at = "clear" /\ DeleteConfigsOf(at) /\ UNCHANGED missed
      BY <1>1, <2>1 DEF ClearConfigs
    <3>4. QED
      BY <3>2, <3>3 DEF Import, ImportDone
  <2>2. CASE Import(w)
    <3>1. task[w].at = "import" /\ links # <<>> /\ CreateConfig(at, Head(links)) /\ UNCHANGED kept
      BY <1>1, <1>2, <2>2 DEF Import
    <3>2. task'[w] = [task[w] EXCEPT !.links = Tail(@)]
      BY <2>2, OneMoves DEF Import
    <3>3. task'[w].at = "import" /\ task'[w].id = at /\ task'[w].links = Tail(links)
      BY <1>1, <1>2, <1>4, <3>1, <3>2 DEF Tasks
    <3>4. ~ClearConfigs(w) /\ ~ImportDone(w)
      BY <1>2, <3>1 DEF ClearConfigs, ImportDone
    <3>5. QED
      BY <3>1, <3>3, <3>4
  <2>3. CASE ImportDone(w)
    <3>1. task[w].at = "import" /\ links = <<>> /\ UNCHANGED <<configs, kept, missed>>
      BY <1>2, <2>3 DEF ImportDone, configVars
    <3>2. task'[w].at = "idle"
      BY <2>3, OneMoves, TaskTyped DEF ImportDone
    <3>3. ~ClearConfigs(w) /\ ~Import(w)
      BY <1>2, <3>1 DEF ClearConfigs, Import
    <3>4. QED
      BY <3>1, <3>2, <3>3
  <2>4. QED
    BY <2>1, <2>2, <2>3
<1>8. SUFFICES ASSUME NEW id \in Ids, id \notin disturbed PROVE WholeAt(id)'
  BY <1>3 DEF Whole
<1>9. WholeAt(id) /\ boot.id # id /\ boot'.id # id
  BY <1>8, NoSeeding DEF Whole
<1>10. CASE id # at
  <2>1. ~Importing(w, id) /\ ~Works(w, id)'
    BY <1>1, <1>3, <1>5, <1>7, <1>10 DEF Importing, Works
  <2>2. SameWork(id)
    BY <1>6, <2>1, WorkElsewhere
  <2>3. SameStore(id)
    BY <1>3, <1>7, <1>10, DeleteOther, CreateOther, StoreKept
  <2>4. QED
    BY <1>9, <2>2, <2>3, WholeOther
<1>11. CASE id = at
  <2>1. Works(w, id) /\ Importing(w, id)
    BY <1>1, <1>3, <1>11 DEF Works, Importing
  <2>2. HasTask(w, id) /\ \A v \in Admins \ {w} : ~Works(v, id)
    BY <1>9, <2>1 DEF WholeAt
  <2>3. \A v \in Admins \ {w} : ~Works(v, id)'
    BY <1>6, <2>2, OthersWork
  <2>4. CASE ClearConfigs(w)
    <3>1. feedOf'[id] = task'[w].links /\ Finite(id)
      BY <1>2, <1>3, <1>7, <2>2, <2>4 DEF HasTask, ClearConfigs
    <3>2. Has(id, feedOf[id])'
      BY <1>7, <1>11, <2>4, <3>1, HasAll DEF DeleteConfigsOf, Finite, Of
    <3>3. Importing(w, id)' /\ HasTask(w, id)'
      BY <1>7, <1>11, <2>4, <3>1, <3>2 DEF Importing, HasTask, Has, HasLink
    <3>4. QED
      BY <1>9, <2>3, <3>3, WholeOwn
  <2>5. CASE Import(w)
    <3>1. Has(id, links)
      BY <1>2, <2>2, <2>5 DEF HasTask, Import
    <3>2. CreateConfig(id, Head(links)) /\ links # <<>> /\ UNCHANGED kept
      BY <1>7, <1>11, <2>5
    <3>3. Has(id, Tail(links))'
      BY <1>3, <1>4, <3>1, <3>2, HasOneMore
    <3>4. Importing(w, id)' /\ HasTask(w, id)'
      BY <1>7, <1>11, <2>5, <3>3 DEF Importing, HasTask, Has, HasLink
    <3>5. QED
      BY <1>9, <2>3, <3>4, WholeOwn
  <2>6. CASE ImportDone(w)
    <3>1. Has(id, <<>>)
      BY <1>2, <1>7, <2>2, <2>6 DEF HasTask, ImportDone
    <3>2. SameStore(id)
      BY <1>3, <1>7, <2>6, StoreKept
    <3>3. Has(id, <<>>)' /\ ~Importing(w, id)'
      BY <1>7, <2>6, <3>1, <3>2, HasKept DEF Importing
    <3>4. QED
      BY <1>9, <2>3, <3>3, WholeOwn
  <2>7. QED
    BY <2>4, <2>5, <2>6
<1>12. QED
  BY <1>10, <1>11

LEMMA WholeReload ==
  ASSUME IInv, StoreInv, Whole, NEW w \in Reloaders, Reload(w)
  PROVE  Whole'
<1>1. /\ boot.at = "up" /\ UNCHANGED <<boot, configVars, task, disturbed>> /\ TableTypeOK
  BY DEF Reload, Query, QueryFails, Assign, IInv
<1>2. PICK to : Step(w, to) /\ to.at \in {"idle", "queried"}
  BY DEF Reload, Query, QueryFails, Assign, At, Holding
<1>3. CASE w \in Admins
  <2>1. reloader'[w].at # "refetch" /\ \A v \in Admins \ {w} : reloader'[v] = reloader[v]
    BY <1>1, <1>2, <1>3, ReloaderMoves
  <2>2. QED
    BY <1>1, <1>3, <2>1, WholeIdle
<1>4. CASE w \notin Admins
  <2>1. \A v \in Admins : reloader'[v] = reloader[v]
    BY <1>1, <1>2, <1>4 DEF Step, TableTypeOK, Reloaders
  <2>2. ASSUME NEW id \in Ids, id \notin disturbed
        PROVE  WholeAt(id)'
    <3>1. WholeAt(id) /\ boot.id # id /\ boot'.id # id
      BY <1>1, <2>2, NoSeeding DEF Whole
    <3>2. SameStore(id)
      BY <1>1, StoreKept DEF configVars
    <3>3. SameWork(id)
      BY <1>1, <2>1 DEF SameWork, Works
    <3>4. QED
      BY <3>1, <3>2, <3>3, WholeOther
  <2>3. QED
    BY <1>1, <2>2 DEF Whole
<1>5. QED
  BY <1>3, <1>4

LEMMA WholeNext == IInv /\ StoreInv /\ StoreInv' /\ Whole /\ [Next]_vars => Whole'
<1> SUFFICES ASSUME IInv, StoreInv, StoreInv', Whole, [Next]_vars PROVE Whole'
  OBVIOUS
<1>1. ASSUME Crash \/ SeedPanic
      PROVE  Whole'
  BY <1>1, WholeDie DEF Crash, SeedPanic
<1>2. ASSUME UNCHANGED vars
      PROVE  Whole'
  <2>1. UNCHANGED <<configs, feedOf, kept, missed, task, reloader, boot, disturbed>>
    BY <1>2 DEF vars, tableVars, configVars
  <2>2. ASSUME NEW id, NEW rest, Has(id, rest)
        PROVE  Has(id, rest)'
    BY <2>1, <2>2 DEF Has, HasLink, Of
  <2>3. ASSUME NEW id \in Ids, WholeAt(id)
        PROVE  WholeAt(id)'
    <3>1. \A w \in Admins : (Works(w, id)' <=> Works(w, id)) /\ (Importing(w, id)' <=> Importing(w, id))
      BY <2>1 DEF Works, Importing
    <3>2. ASSUME NEW w \in Admins, HasTask(w, id)
          PROVE  HasTask(w, id)'
      BY <2>1, <2>2, <3>2 DEF HasTask, Finite, Of
    <3>3. boot'.at = "import" /\ boot'.id = id => Has(id, boot.links)'
      BY <2>1, <2>2, <2>3 DEF WholeAt
    <3>4. QED
      BY <2>1, <2>2, <2>3, <3>1, <3>2, <3>3 DEF WholeAt
  <2>4. QED
    BY <2>1, <2>3 DEF Whole
<1>3. ASSUME NEW w \in Admins, AdminBegins(w)
      PROVE  Whole'
  <2>1. boot.at = "up" /\ UNCHANGED boot
    BY <1>3, AdminUp
  <2>2. QED
    BY <1>3, <2>1, WholeAdd, WholeRefetch, WholeDelete, WholeElsewhere DEF AdminBegins
<1>4. ASSUME NEW w \in Admins, AdminGoesOn(w)
      PROVE  Whole'
  <2>1. boot.at = "up" /\ UNCHANGED boot
    BY <1>4, AdminUp
  <2>2. QED
    BY <1>4, <2>1, WholeRefetched, WholeImport, WholeElsewhere DEF AdminGoesOn
<1>5. QED
  BY <1>1, <1>2, <1>3, <1>4, WholeBoot, WholeReload DEF Next

-----------------------------------------------------------------------------
(* The database of an earlier run: every row has an id below nextId, and   *)
(* every such id a row.                                                    *)
LEMMA EveryIdHasARow ==
  ASSUME NEW S, NEW n \in Nat, \A r \in S : r.id \in 1 .. n, \A r, s \in S : r.id = s.id => r = s,
         Cardinality(S) = n
  PROVE  \A id \in 1 .. n : \E r \in S : r.id = id
<1> DEFINE f == [r \in S |-> r.id]
<1>1. f \in Injection(S, 1 .. n)
  BY DEF Injection, IsInjective
<1>2. IsFiniteSet(1 .. n) /\ Cardinality(1 .. n) = n
  BY FS_Interval
<1>3. f \in Surjection(S, 1 .. n)
  BY <1>1, <1>2, FS_Injection
<1>4. QED
  BY <1>3 DEF Surjection

LEMMA ImportedAll ==
  ASSUME NEW feed \in Seq(Links), NEW table, NEW r \in table, r.id \in Int,
         NEW link, configs = ImportedFrom(feed, table)
  PROVE  IsFiniteSet(Of(r.id, link)) /\ Cardinality(Of(r.id, link)) = Count(feed, link)
<1> DEFINE base == Len(feed) * (r.id - 1)
           S == {i \in DOMAIN feed : feed[i] = link}
           f == [i \in S |-> [id |-> base + i, backend |-> r.id, link |-> feed[i]]]
<1>1. base \in Int /\ DOMAIN feed \subseteq Int
  OBVIOUS
<1>2. IsFiniteSet(S)
  BY CountType
<1>3. f \in [S -> Of(r.id, link)]
  <2>1. ASSUME NEW i \in S
        PROVE  f[i] \in Of(r.id, link)
    BY DEF Of, ImportedFrom
  <2>2. QED
    BY <2>1
<1>4. \A c \in Of(r.id, link) : \E i \in S : f[i] = c
  <2>1. TAKE c \in Of(r.id, link)
  <2>2. PICK q \in table, i \in DOMAIN feed :
          c = [id |-> Len(feed) * (q.id - 1) + i, backend |-> q.id, link |-> feed[i]]
    BY DEF Of, ImportedFrom
  <2>3. q.id = r.id /\ feed[i] = link
    BY <2>2 DEF Of
  <2>4. i \in S /\ f[i] = c
    BY <2>2, <2>3
  <2>5. QED
    BY <2>4
<1> HIDE DEF base
<1>5. \A i, j \in S : f[i] = f[j] => i = j
  <2>1. TAKE i, j \in S
  <2>2. i \in Int /\ j \in Int
    BY <1>1
  <2>3. f[i].id = base + i /\ f[j].id = base + j
    OBVIOUS
  <2>4. QED
    BY <1>1, <2>2, <2>3
<1> HIDE DEF f, S
<1>6. IsFiniteSet(Of(r.id, link)) /\ Cardinality(Of(r.id, link)) = Cardinality(S)
  BY <1>2, <1>3, <1>4, <1>5, SameSize
<1>7. QED
  BY <1>6 DEF Count, S

LEMMA WholeInit == Init => Whole
<1> SUFFICES ASSUME Init PROVE Whole
  OBVIOUS
<1>1. TableTypeOK /\ StoreInv /\ Unique
  BY InitInv, StoreInit DEF IInv
<1>2. PICK feed \in Feeds :
        /\ configs = ImportedFrom(feed, db)
        /\ feedOf = [id \in Ids |-> IF id < nextId THEN feed ELSE <<>>]
  BY StoreAssumption DEF Init
<1>3. feed \in Seq(Links)
  BY FeedTyped
<1>4. nextId \in Nat /\ nextId = Cardinality(db) + 1 /\ Cardinality(db) = nextId - 1 /\ nextId - 1 \in Nat
  <2>1. nextId \in 1 .. MaxId + 1
    BY <1>1 DEF TableTypeOK
  <2>2. nextId = Cardinality(db) + 1
    BY DEF Init
  <2>3. Cardinality(db) \in Nat
    <3>1. IsFiniteSet(db)
      <4> DEFINE f == [r \in db |-> r.id]
      <4>1. f \in Injection(db, Ids)
        BY <1>1 DEF Injection, IsInjective, TableTypeOK, Rows, Ids, Unique
      <4>2. IsFiniteSet(Ids)
        BY MaxIdAssumption, FS_Interval DEF Ids
      <4>3. QED
        BY <4>1, <4>2, FS_Injection
    <3>2. QED
      BY <3>1, FS_CardinalityType
  <2>4. QED
    BY <2>1, <2>2, <2>3
<1>5. \A r \in db : r.id \in 1 .. nextId - 1
  BY <1>1, <1>4 DEF Init, TableInit, TableTypeOK, Rows
<1>6. \A id \in 1 .. nextId - 1 : \E r \in db : r.id = id
  BY <1>1, <1>4, <1>5, EveryIdHasARow DEF Unique
<1>7. ASSUME NEW id \in Ids
      PROVE  Has(id, <<>>)
  <2>1. ASSUME NEW link \in Links
        PROVE  HasLink(id, <<>>, link)
    <3> DEFINE c == Cardinality(Of(id, link))
               n == Count(<<>>, link)
               d == Count(feedOf[id], link)
    <3> SUFFICES IsFiniteSet(Of(id, link)) /\ c = d /\ c \in Nat
      <4>1. n = 0
        BY CountNone
      <4> HIDE DEF c, n, d
      <4>2. c + n = d
        BY <4>1
      <4>3. c + n <= d /\ c + n >= d
        BY <4>1
      <4>4. QED
        BY <4>3 DEF HasLink, c, n, d
    <3>1. CASE id < nextId
      <4>1. id \in 1 .. nextId - 1
        BY <1>4, <3>1, IdsTyped
      <4>2. PICK r \in db : r.id = id
        BY <1>6, <4>1
      <4>3. IsFiniteSet(Of(id, link)) /\ Cardinality(Of(id, link)) = Count(feed, link)
        <5>1. r.id \in Int
          BY <4>1, <4>2
        <5>2. IsFiniteSet(Of(r.id, link)) /\ Cardinality(Of(r.id, link)) = Count(feed, link)
          BY <1>2, <1>3, <5>1, ImportedAll
        <5>3. QED
          BY <4>2, <5>2
      <4>4. feedOf[id] = feed /\ Count(feed, link) \in Nat
        BY <1>2, <1>3, <3>1, CountType
      <4>5. QED
        BY <4>3, <4>4, CountNone
    <3>2. CASE ~(id < nextId)
      <4>1. Of(id, link) = {}
        BY <1>1, <3>2 DEF Of, StoreInv, Unused
      <4>2. feedOf[id] = <<>>
        BY <1>2, <3>2
      <4>3. QED
        BY <4>1, <4>2, CountNone, FS_EmptySet
    <3>3. QED
      BY <3>1, <3>2
  <2>2. QED
    BY <2>1 DEF Has
<1>8. \A w \in Admins : \A id : ~Works(w, id) /\ ~Importing(w, id)
  BY TaskTyped DEF Init, TableInit, Works, Importing, At, Holding, Reloaders
<1>9. boot.at = "count"
  BY DEF Init, Boot
<1>10. QED
  BY <1>7, <1>8, <1>9 DEF Whole, WholeAt

(* Between requests a backend has its last fetch's links and no other: an  *)
(* INSERT or DELETE whose error nobody looked at costs the link or leaves  *)
(* the configs it was about, and nothing else, in every interleaving of    *)
(* the statements of any number of requests, with crashes and failures     *)
(* anywhere among them, unless two requests on that very backend           *)
(* overlapped or one broke off on it (admin.go:478-484, 530-537, 559-560;  *)
(* main.go:177-182).                                                       *)
THEOREM WholeImports == Spec => []ImportedWhole
<1>1. StoreInv /\ Whole => ImportedWhole
  <2>1. SUFFICES ASSUME StoreInv, Whole, NEW id \in Ids \ disturbed,
                        \A w \in Admins : ~Works(w, id), boot.id # id, NEW link \in FeedLinks
                 PROVE  /\ id \notin kept => Cardinality(Of(id, link)) <= Count(feedOf[id], link)
                        /\ <<id, link>> \notin missed =>
                              Cardinality(Of(id, link)) >= Count(feedOf[id], link)
    BY DEF ImportedWhole, Of, Count
  <2>2. \A w \in Admins : ~Importing(w, id)
    BY <2>1 DEF Importing, Works
  <2>3. Has(id, <<>>)
    BY <2>1, <2>2 DEF Whole, WholeAt
  <2>4. link \in Links
    <3>1. PICK feed \in Feeds : \E i \in DOMAIN feed : link = feed[i]
      BY DEF FeedLinks
    <3>2. QED
      BY <3>1, FeedTyped
  <2>5. PICK has, due : has = Cardinality(Of(id, link)) /\ due = Count(feedOf[id], link)
    OBVIOUS
  <2>6. has \in Nat
    BY <2>3, <2>4, <2>5, FS_CardinalityType DEF Has, HasLink
  <2>7. /\ id \notin kept => has + 0 <= due
        /\ <<id, link>> \notin missed => has + 0 >= due
    BY <2>3, <2>4, <2>5, CountNone DEF Has, HasLink
  <2>8. QED
    BY <2>5, <2>6, <2>7
<1>2. QED
  BY <1>1, InitInv, NextInv, StoreInit, StoreNext, WholeInit, WholeNext, PTL DEF Spec
=============================================================================
