---------------------------- MODULE BackendTable ----------------------------
(***************************************************************************)
(* The backends table, the requests of the admin panel that change it      *)
(* (admin.go) and the copy of its enabled rows the Balancer works from     *)
(* (loadBackends in balancer.go). Every handler of the admin server runs   *)
(* on a goroutine of its own, reads and writes the database with separate  *)
(* statements, and reloads the copy with a query it makes outside b.mu.    *)
(***************************************************************************)
EXTENDS Backend

CONSTANTS
  Admins,        \* bound: admin requests in flight at once
  Ticker,        \* the goroutine of Balancer.Start, which reloads every interval
  InitialTables  \* the tables the process may find or seed when it starts

ASSUME TickerAssumption == Ticker \notin Admins
ASSUME InitialTablesAssumption ==
  \A table \in InitialTables :
    table \subseteq Rows /\ \A r, s \in table : r.id = s.id => r = s

VARIABLES
  db,        \* the rows of the table
  nextId,    \* the next id AUTOINCREMENT hands out
  reloader,  \* goroutine -> how far its request, or its reload, has come
  backends   \* b.backends

tableVars == <<db, nextId, reloader, backends>>

Reloaders == Admins \cup {Ticker}

(* at: "idle"; "toggle" and "refetch" hold a row read by First; "changed"  *)
(* is about to reload; "queried" holds the rows its query returned.        *)
Requests == [at : {"idle", "toggle", "refetch", "changed", "queried"},
             id : 0 .. MaxId, on : BOOLEAN, rows : SUBSET Rows]

Holding(at, id, on, rows) == [at |-> at, id |-> id, on |-> on, rows |-> rows]

At(at) == Holding(at, 0, FALSE, {})

TableTypeOK ==
  /\ db \subseteq Rows
  /\ nextId \in 1 .. MaxId + 1
  /\ reloader \in [Reloaders -> Requests]
  /\ backends \subseteq Rows

(* seedBackendsFromConfig has run, and NewBalancer has loaded the rows.    *)
TableInit ==
  /\ db \in InitialTables
  /\ nextId \in 1 .. MaxId + 1
  /\ \A r \in db : r.id < nextId
  /\ reloader = [w \in Reloaders |-> At("idle")]
  /\ backends = EnabledRows(db)

-----------------------------------------------------------------------------
Step(w, to) == reloader' = [reloader EXCEPT ![w] = to]

(* Mutant: the row is stored before it has an id.                          *)
AddBackend_NoId(w, a, primary) ==
  /\ reloader[w].at = "idle"
  /\ nextId <= MaxId
  /\ db' = db \cup {[id |-> 0, addr |-> a, primary |-> primary, enabled |-> TRUE]}
  /\ nextId' = nextId + 1
  /\ Step(w, At("changed"))
  /\ UNCHANGED backends

(* addBackend: the row is created after its subscription was fetched.      *)
AddBackend(w, a, primary) ==
  /\ reloader[w].at = "idle"
  /\ nextId <= MaxId
  /\ db' = db \cup {[id |-> nextId, addr |-> a, primary |-> primary, enabled |-> TRUE]}
  /\ nextId' = nextId + 1
  /\ Step(w, At("changed"))
  /\ UNCHANGED backends

(* toggleBackend reads the row and writes the opposite of what it read.    *)
ToggleRead(w, r) ==
  /\ reloader[w].at = "idle"
  /\ r \in db
  /\ Step(w, Holding("toggle", r.id, ~r.enabled, {}))
  /\ UNCHANGED <<db, nextId, backends>>

ToggleWrite(w) ==
  /\ reloader[w].at = "toggle"
  /\ db' = {IF r.id = reloader[w].id THEN [r EXCEPT !.enabled = reloader[w].on] ELSE r : r \in db}
  /\ Step(w, At("changed"))
  /\ UNCHANGED <<nextId, backends>>

DeleteBackend(w, id) ==
  /\ reloader[w].at = "idle"
  /\ db' = {r \in db : r.id # id}
  /\ Step(w, At("changed"))
  /\ UNCHANGED <<nextId, backends>>

(* refetchBackend reads the row, fetches its subscription and stores the   *)
(* server the links now name; a failed fetch ends the request, and links   *)
(* that cannot be parsed leave the address alone.                          *)
RefetchRead(w, r) ==
  /\ reloader[w].at = "idle"
  /\ r \in db
  /\ Step(w, Holding("refetch", r.id, FALSE, {}))
  /\ UNCHANGED <<db, nextId, backends>>

RefetchFail(w) ==
  /\ reloader[w].at = "refetch"
  /\ Step(w, At("idle"))
  /\ UNCHANGED <<db, nextId, backends>>

RefetchKeep(w) ==
  /\ reloader[w].at = "refetch"
  /\ Step(w, At("changed"))
  /\ UNCHANGED <<db, nextId, backends>>

RefetchWrite(w, a) ==
  /\ reloader[w].at = "refetch"
  /\ db' = {IF r.id = reloader[w].id THEN [r EXCEPT !.addr = a] ELSE r : r \in db}
  /\ Step(w, At("changed"))
  /\ UNCHANGED <<nextId, backends>>

(* Mutant: the loop of Start reloads what it has, only requests query.     *)
Query_AdminsOnly(w) ==
  /\ reloader[w].at = IF w = Ticker THEN "idle" ELSE "changed"
  /\ Step(w, Holding("queried", 0, FALSE, IF w = Ticker THEN backends ELSE EnabledRows(db)))
  /\ UNCHANGED <<db, nextId, backends>>

(* loadBackends: the query, then the assignment under b.mu.                *)
Query(w) ==
  /\ reloader[w].at = IF w = Ticker THEN "idle" ELSE "changed"
  /\ Step(w, Holding("queried", 0, FALSE, EnabledRows(db)))
  /\ UNCHANGED <<db, nextId, backends>>

Assign(w) ==
  /\ reloader[w].at = "queried"
  /\ backends' = reloader[w].rows
  /\ Step(w, At("idle"))
  /\ UNCHANGED <<db, nextId>>

AdminStart(w) ==
  \/ \E a \in Addrs, primary \in BOOLEAN : AddBackend(w, a, primary)
  \/ \E r \in db : ToggleRead(w, r) \/ RefetchRead(w, r)
  \/ \E id \in 1 .. MaxId : DeleteBackend(w, id)

AdminFinish(w) ==
  \/ ToggleWrite(w)
  \/ RefetchFail(w)
  \/ RefetchKeep(w)
  \/ \E a \in Addrs : RefetchWrite(w, a)
=============================================================================
