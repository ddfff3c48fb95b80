----------------------------- MODULE TableProofs -----------------------------
(***************************************************************************)
(* Proofs about BackendTable: every request of the admin panel and every   *)
(* reload keeps the table and the copy of it well typed, for any number of *)
(* requests in flight, any ids and any addresses.                          *)
(***************************************************************************)
EXTENDS BackendTable, TLAPS

(* What the query of loadBackends returns are rows of the table.           *)
LEMMA EnabledRowsSubset ==
  \A table : EnabledRows(table) \subseteq table
BY DEF EnabledRows

(* A goroutine takes one step of its request: the others keep theirs.      *)
LEMMA StepTyped ==
  ASSUME reloader \in [Reloaders -> Requests], NEW w, NEW to \in Requests, Step(w, to)
  PROVE  reloader' \in [Reloaders -> Requests]
BY DEF Step

(* The positions a request can take.                                       *)
LEMMA PositionsTyped ==
  /\ At("idle") \in Requests /\ At("changed") \in Requests
  /\ \A id \in 1 .. MaxId, on \in BOOLEAN : Holding("toggle", id, on, {}) \in Requests
  /\ \A id \in 1 .. MaxId : Holding("refetch", id, FALSE, {}) \in Requests
  /\ \A rows \in SUBSET Rows : Holding("queried", 0, FALSE, rows) \in Requests
BY MaxIdAssumption DEF At, Holding, Requests

(* The start and the end of a request of the admin panel (addBackend,      *)
(* toggleBackend, refetchBackend, deleteBackend).                          *)
LEMMA AdminTyped ==
  ASSUME TableTypeOK, NEW w \in Admins, AdminStart(w) \/ AdminFinish(w)
  PROVE  TableTypeOK'
<1> USE DEF TableTypeOK
<1>0. w \in Reloaders /\ reloader[w] \in Requests
  BY DEF Reloaders
<1>1. ASSUME NEW a \in Addrs, NEW primary \in BOOLEAN, AddBackend(w, a, primary)
      PROVE  TableTypeOK'
  <2>0. nextId \in 1 .. MaxId
    BY <1>1, MaxIdAssumption DEF AddBackend
  <2>1. db' \subseteq Rows
    <3>1. [id |-> nextId, addr |-> a, primary |-> primary, enabled |-> TRUE] \in Rows
      BY <2>0 DEF Rows
    <3>2. QED
      BY <1>1, <3>1 DEF AddBackend
  <2>2. nextId' \in 1 .. MaxId + 1
    BY <1>1, MaxIdAssumption DEF AddBackend
  <2>3. reloader' \in [Reloaders -> Requests]
    BY <1>1, StepTyped, PositionsTyped DEF AddBackend
  <2>4. QED
    BY <1>1, <2>1, <2>2, <2>3 DEF AddBackend
<1>2. ASSUME NEW r \in db, ToggleRead(w, r) \/ RefetchRead(w, r)
      PROVE  TableTypeOK'
  <2>1. r.id \in 1 .. MaxId /\ (~r.enabled) \in BOOLEAN
    BY DEF Rows
  <2>2. reloader' \in [Reloaders -> Requests]
    BY <1>2, <2>1, StepTyped, PositionsTyped DEF ToggleRead, RefetchRead
  <2>3. QED
    BY <1>2, <2>2 DEF ToggleRead, RefetchRead
<1>3. ASSUME NEW id \in 1 .. MaxId, DeleteBackend(w, id)
      PROVE  TableTypeOK'
  BY <1>3, StepTyped, PositionsTyped DEF DeleteBackend
<1>4. CASE ToggleWrite(w)
  <2>1. reloader[w].on \in BOOLEAN
    BY <1>0 DEF Requests
  <2>2. db' \subseteq Rows
    BY <1>4, <2>1 DEF ToggleWrite, Rows
  <2>3. reloader' \in [Reloaders -> Requests]
    BY <1>4, StepTyped, PositionsTyped DEF ToggleWrite
  <2>4. QED
    BY <1>4, <2>2, <2>3 DEF ToggleWrite
<1>5. CASE RefetchFail(w) \/ RefetchKeep(w)
  BY <1>5, StepTyped, PositionsTyped DEF RefetchFail, RefetchKeep
<1>6. ASSUME NEW a \in Addrs, RefetchWrite(w, a)
      PROVE  TableTypeOK'
  <2>1. db' \subseteq Rows
    BY <1>6 DEF RefetchWrite, Rows
  <2>2. reloader' \in [Reloaders -> Requests]
    BY <1>6, StepTyped, PositionsTyped DEF RefetchWrite
  <2>3. QED
    BY <1>6, <2>1, <2>2 DEF RefetchWrite
<1>7. QED
  BY <1>1, <1>2, <1>3, <1>4, <1>5, <1>6 DEF AdminStart, AdminFinish

(* The two halves of a reload.                                             *)
LEMMA ReloadTyped ==
  ASSUME TableTypeOK, NEW w \in Reloaders, Query(w) \/ Assign(w)
  PROVE  TableTypeOK'
<1> USE DEF TableTypeOK
<1>1. CASE Query(w)
  <2>1. EnabledRows(db) \in SUBSET Rows
    BY EnabledRowsSubset
  <2>2. reloader' \in [Reloaders -> Requests]
    BY <1>1, <2>1, StepTyped, PositionsTyped DEF Query
  <2>3. QED
    BY <1>1, <2>2 DEF Query
<1>2. CASE Assign(w)
  <2>1. reloader[w].rows \subseteq Rows
    BY DEF Requests
  <2>2. QED
    BY <1>2, <2>1, StepTyped, PositionsTyped DEF Assign
<1>3. QED
  BY <1>1, <1>2

(* What the process starts from.                                           *)
LEMMA TableInitTyped == TableInit => TableTypeOK
<1>1. ASSUME TableInit
      PROVE  db \subseteq Rows /\ backends \subseteq Rows
  BY <1>1, InitialTablesAssumption, EnabledRowsSubset DEF TableInit
<1>2. QED
  BY <1>1, PositionsTyped DEF TableInit, TableTypeOK
=============================================================================
