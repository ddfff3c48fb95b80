----------------------------- MODULE AdminStore -----------------------------
(***************************************************************************)
(* The whole database of the admin panel: the backends of BackendTable,    *)
(* the configs imported with them, the clients' subscriptions and the join *)
(* rows between those two, from the seeding of an empty table on. Each     *)
(* statement of a request is a step: there are no transactions. Nothing    *)
(* checks what a row refers to. A statement may fail (a locked file, a     *)
(* full disk): where the code does not look at the error it goes on with   *)
(* the next one. The process can be killed between any two steps, and a    *)
(* panic on a link ends the request (net/http recovers it) or, in the      *)
(* seeding, the process; systemd starts it again.                          *)
(***************************************************************************)
EXTENDS BackendTable, SubscriptionLinks, FiniteSets

CONSTANTS
  Feeds,        \* what a fetch of a subscription may return
  FirstFeeds,   \* bound: those of them the rows of an earlier run came from
  CfgBackends,  \* cfg.Backends: their primary flags, in order
  Portless,     \* ":0", the address of a row that was seeded without a server
  Clients,      \* the ids of the clients
  Ticked,       \* bound: the states of the box "primary" in addBackend's form
  MaxConfig, MaxSub, MaxPicks, MaxRequests, MaxFaults  \* bounds

ASSUME StoreAssumption ==
  /\ Feeds \subseteq Seq(Links) /\ <<>> \in Feeds /\ FirstFeeds \subseteq Feeds
  /\ CfgBackends \in Seq(BOOLEAN) /\ Ticked \subseteq BOOLEAN
  /\ Portless \in Addrs
  /\ {MaxConfig, MaxPicks, MaxRequests, MaxFaults} \subseteq Nat /\ MaxSub \in Nat \ {0}
  /\ Admins = 1 .. MaxRequests

VARIABLES
  configs, subs, picks,  \* sub_configs, subscriptions, subscription_configs
  nextConfig, nextSub,
  task,      \* admin goroutine -> the statements its request has left
  boot,      \* how far the start of the process has come
  requests, faults,  \* how many; a fault is a crash or a failed statement
  feedOf,    \* history: backend id -> the links imported for it last
  origin,    \* history: backend id -> the entry it was seeded from, else 0
  kept,      \* history: ids whose last DELETE of configs failed
  missed,    \* history: <<id, link>> whose INSERT failed since the last fetch
  disturbed, \* history: ids whose requests overlapped or broke off
  asked      \* history: subscription id -> the configs its form named

countVars == <<requests, faults>>
subVars == <<subs, picks, nextSub, asked>>
configVars == <<configs, nextConfig, feedOf, kept, missed>>
vars == <<tableVars, configVars, subVars, task, boot, countVars, origin, disturbed>>

Ids == 1 .. MaxId
ConfigIds == 1 .. MaxConfig

Task(at, id, links, ids) == [at |-> at, id |-> id, links |-> links, ids |-> ids]
NoTask == Task("idle", 0, <<>>, {})
Boot(at, entry, id, links) == [at |-> at, entry |-> entry, id |-> id, links |-> links]

TypeOK ==
  /\ TableTypeOK
  /\ configs \subseteq [id : ConfigIds, backend : Ids, link : Links]
  /\ subs \subseteq [id : 1 .. MaxSub, client : Clients]
  /\ picks \subseteq (1 .. MaxSub) \X ConfigIds
  /\ nextConfig \in 1 .. MaxConfig + 1 /\ nextSub \in 1 .. MaxSub + 1
  /\ \A w \in Admins :
       /\ task[w].at \in {"idle", "clear", "import", "row", "pick", "sub"}
       /\ task[w].at # "idle" => task[w].id \in Nat \ {0}
  /\ boot.at \in {"count", "row", "fetch", "import", "load", "up"}

(* The configs of the rows of a table, numbered row by row.                *)
ImportedFrom(feed, table) ==
  {[id |-> Len(feed) * (r.id - 1) + i, backend |-> r.id, link |-> feed[i]] :
     r \in table, i \in DOMAIN feed}

(* The database is empty, or that of an earlier run: every row was         *)
(* imported whole and the first client has subscribed to every config.     *)
Init ==
  /\ TableInit /\ nextId = Cardinality(db) + 1
  /\ \E feed \in FirstFeeds :
       /\ \A i \in DOMAIN feed : ~Panics(feed[i])
       /\ configs = ImportedFrom(feed, db)
       /\ feedOf = [id \in Ids |-> IF id < nextId THEN feed ELSE <<>>]
       /\ nextConfig = Len(feed) * (nextId - 1) + 1 /\ nextConfig <= MaxConfig + 1
  /\ \/ db = {} /\ subs = {} /\ nextSub = 1
     \/ db # {} /\ nextSub = 2 /\ \E client \in Clients : subs = {[id |-> 1, client |-> client]}
  /\ asked = [s \in 1 .. MaxSub |-> IF s < nextSub THEN {c.id : c \in configs} ELSE {}]
  /\ picks = {<<s.id, c.id>> : s \in subs, c \in configs}
  /\ task = [w \in Admins |-> NoTask]
  /\ boot = Boot("count", 1, 0, <<>>)
  /\ requests = 0 /\ faults = 0
  /\ origin = [id \in Ids |-> 0] /\ disturbed = {} /\ kept = {} /\ missed = {}

-----------------------------------------------------------------------------
(* The statements shared by requests and seeding. Their errors are not     *)
(* looked at: a link that cannot be stored is skipped, configs that cannot *)
(* be deleted stay.                                                        *)
Fault == faults < MaxFaults /\ faults' = faults + 1

CreateConfig(id, link) ==
  \/ /\ nextConfig <= MaxConfig
     /\ configs' = configs \cup {[id |-> nextConfig, backend |-> id, link |-> link]}
     /\ nextConfig' = nextConfig + 1
     /\ UNCHANGED <<missed, faults>>
  \/ /\ Fault
     /\ missed' = missed \cup {<<id, link>>}
     /\ UNCHANGED <<configs, nextConfig>>

DeleteConfigsOf(id) ==
  \/ /\ configs' = {c \in configs : c.backend # id}
     /\ kept' = kept \ {id}
     /\ UNCHANGED faults
  \/ /\ Fault
     /\ kept' = kept \cup {id}
     /\ UNCHANGED configs

(* A request on the backend id is under way.                               *)
Works(w, id) ==
  \/ task[w].at \in {"clear", "import", "row"} /\ task[w].id = id
  \/ reloader[w].at = "refetch" /\ reloader[w].id = id

TaskStep(w, to) == task' = [task EXCEPT ![w] = to]

(* The next request; the goroutines that serve them are numbered as the    *)
(* requests come.                                                          *)
Free(w) ==
  /\ boot.at = "up"
  /\ task[w] = NoTask /\ reloader[w].at = "idle"
  /\ w = requests + 1 /\ requests' = w

Overlap(id) ==
  disturbed' = IF \E v \in Admins : Works(v, id) THEN disturbed \cup {id} ELSE disturbed

-----------------------------------------------------------------------------
(* seedBackendsFromConfig and NewBalancer, before anything else runs.      *)
SeedKeeps == UNCHANGED <<subVars, task, requests, disturbed, reloader>>
SeedUnchanged == SeedKeeps /\ UNCHANGED faults

(* Mutant: the entries of the config file are seeded at every start.       *)
SeedCount_Always ==
  /\ boot.at = "count"
  /\ boot' = [boot EXCEPT !.at = "row"]
  /\ UNCHANGED <<tableVars, configVars, origin>> /\ SeedUnchanged

SeedCount ==
  /\ boot.at = "count"
  /\ boot' = [boot EXCEPT !.at = IF db = {} THEN "row" ELSE "load"]
  /\ UNCHANGED <<tableVars, configVars, origin>> /\ SeedUnchanged

(* The rows cannot be counted: the error is not looked at either, and the  *)
(* count it leaves is 0. All entries are seeded, whatever is there; the    *)
(* history of where rows came from starts again.                           *)
SeedMiscount ==
  /\ boot.at = "count" /\ Fault
  /\ boot' = [boot EXCEPT !.at = "row"]
  /\ origin' = [id \in Ids |-> 0]
  /\ UNCHANGED <<tableVars, configVars>> /\ SeedKeeps

SeedRow(feed) ==
  /\ boot.at = "row" /\ boot.entry \in DOMAIN CfgBackends
  /\ ~ServerPanics(feed)
  /\ nextId <= MaxId
  /\ db' = db \cup {[id |-> nextId, primary |-> CfgBackends[boot.entry], enabled |-> TRUE,
                     addr |-> IF ServerOf(feed) = NoAddr THEN Portless ELSE ServerOf(feed)]}
  /\ nextId' = nextId + 1
  /\ origin' = [origin EXCEPT ![nextId] = boot.entry]
  /\ boot' = [boot EXCEPT !.at = "fetch", !.id = nextId]
  /\ UNCHANGED <<backends, configVars>> /\ SeedUnchanged

(* The row could not be stored: on with the next entry.                    *)
SeedRowFail ==
  /\ boot.at = "row" /\ boot.entry \in DOMAIN CfgBackends
  /\ boot' = [boot EXCEPT !.entry = @ + 1]
  /\ UNCHANGED <<tableVars, configVars, origin>> /\ SeedUnchanged

(* The configs come from a second fetch.                                   *)
SeedFetch(feed) ==
  /\ boot.at = "fetch"
  /\ boot' = [boot EXCEPT !.at = "import", !.links = feed]
  /\ feedOf' = [feedOf EXCEPT ![boot.id] = feed]
  /\ UNCHANGED <<tableVars, configs, nextConfig, kept, missed, origin>> /\ SeedUnchanged

SeedConfig ==
  /\ boot.at = "import" /\ boot.links # <<>> /\ ~Panics(Head(boot.links))
  /\ CreateConfig(boot.id, Head(boot.links))
  /\ boot' = [boot EXCEPT !.links = Tail(@)]
  /\ UNCHANGED <<tableVars, feedOf, kept, origin>> /\ SeedKeeps

SeedNext ==
  /\ boot.at = "import" /\ boot.links = <<>>
  /\ boot' = Boot("row", boot.entry + 1, 0, <<>>)
  /\ UNCHANGED <<tableVars, configVars, origin>> /\ SeedUnchanged

SeedDone ==
  /\ boot.at = "row" /\ boot.entry > Len(CfgBackends)
  /\ boot' = [boot EXCEPT !.at = "load"]
  /\ UNCHANGED <<tableVars, configVars, origin>> /\ SeedUnchanged

(* A query of loadBackends that fails leaves it with an empty list.        *)
NewBalancer ==
  /\ boot.at = "load"
  /\ boot' = Boot("up", 0, 0, <<>>)
  /\ \/ backends' = EnabledRows(db) /\ UNCHANGED faults
     \/ backends' = {} /\ Fault
  /\ UNCHANGED <<db, nextId, configVars, origin>> /\ SeedKeeps

Booting ==
  \/ SeedCount \/ SeedMiscount
  \/ \E feed \in Feeds : SeedRow(feed) \/ SeedFetch(feed)
  \/ SeedRowFail \/ SeedConfig \/ SeedNext \/ SeedDone
  \/ NewBalancer

(* The end of the process; what it was about to do is lost.                *)
Die ==
  /\ boot' = Boot("count", 1, 0, <<>>)
  /\ reloader' = [w \in Reloaders |-> At("idle")]
  /\ backends' = {}
  /\ task' = [w \in Admins |-> NoTask]
  /\ disturbed' = disturbed \cup {id \in Ids : \E w \in Admins : Works(w, id)}
                  \cup (IF boot.at \in {"fetch", "import"} THEN {boot.id} ELSE {})
  /\ UNCHANGED <<db, nextId, configVars, subVars, requests, origin>>

Crash ==
  /\ Fault
  /\ Die

SeedPanic ==
  /\ \/ boot.at = "row" /\ boot.entry \in DOMAIN CfgBackends /\ \E f \in Feeds : ServerPanics(f)
     \/ boot.at = "import" /\ boot.links # <<>> /\ Panics(Head(boot.links))
  /\ Die
  /\ UNCHANGED faults

-----------------------------------------------------------------------------
(* The requests that change backends. A feed that cannot be used ends      *)
(* addBackend before it has changed anything.                              *)
AddRow(w, feed, primary) ==
  /\ Free(w)
  /\ ~ServerPanics(feed) /\ ServerOf(feed) # NoAddr
  /\ AddBackend(w, ServerOf(feed), primary)
  /\ feedOf' = [feedOf EXCEPT ![nextId] = feed]
  /\ TaskStep(w, Task("import", nextId, feed, {}))
  /\ UNCHANGED <<configs, nextConfig, kept, missed, subVars, boot, faults, origin, disturbed>>

Toggle(w, r) ==
  /\ Free(w)
  /\ ToggleRead(w, r)
  /\ UNCHANGED <<configVars, subVars, task, boot, faults, origin, disturbed>>

(* The UPDATE or DELETE of the row failed: on to the reload.               *)
RowStays(w) ==
  /\ Fault
  /\ Step(w, At("changed"))
  /\ UNCHANGED <<db, nextId, backends>>

ToggleStore(w) ==
  /\ \/ ToggleWrite(w) /\ UNCHANGED faults
     \/ reloader[w].at = "toggle" /\ RowStays(w)
  /\ UNCHANGED <<configVars, subVars, task, boot, requests, origin, disturbed>>

Refetch(w, r) ==
  /\ Free(w)
  /\ RefetchRead(w, r)
  /\ Overlap(r.id)
  /\ UNCHANGED <<configVars, subVars, task, boot, faults, origin>>

(* A failed fetch, or a panic.                                             *)
RefetchAbort(w) ==
  /\ RefetchFail(w)
  /\ UNCHANGED <<configVars, subVars, task, boot, countVars, origin, disturbed>>

RefetchRow(w, feed) ==
  /\ ~ServerPanics(feed)
  /\ \/ ServerOf(feed) = NoAddr /\ RefetchKeep(w) /\ UNCHANGED faults
     \/ ServerOf(feed) # NoAddr /\ RefetchWrite(w, ServerOf(feed)) /\ UNCHANGED faults
     \/ ServerOf(feed) # NoAddr /\ reloader[w].at = "refetch" /\ RowStays(w)
  /\ feedOf' = [feedOf EXCEPT ![reloader[w].id] = feed]
  /\ missed' = {m \in missed : m[1] # reloader[w].id}
  /\ TaskStep(w, Task("clear", reloader[w].id, feed, {}))
  /\ UNCHANGED <<configs, nextConfig, kept, subVars, boot, requests, origin, disturbed>>

(* Mutant: the configs of the last fetch stay.                             *)
ClearConfigs_Keeps(w) ==
  /\ task[w].at = "clear"
  /\ TaskStep(w, [task[w] EXCEPT !.at = "import"])
  /\ UNCHANGED <<tableVars, configVars, subVars, boot, countVars, origin, disturbed>>

ClearConfigs(w) ==
  /\ task[w].at = "clear"
  /\ DeleteConfigsOf(task[w].id)
  /\ TaskStep(w, [task[w] EXCEPT !.at = "import"])
  /\ UNCHANGED <<tableVars, nextConfig, feedOf, missed, subVars, boot, requests, origin, disturbed>>

Import(w) ==
  /\ task[w].at = "import" /\ task[w].links # <<>> /\ ~Panics(Head(task[w].links))
  /\ CreateConfig(task[w].id, Head(task[w].links))
  /\ TaskStep(w, [task[w] EXCEPT !.links = Tail(@)])
  /\ UNCHANGED <<tableVars, feedOf, kept, subVars, boot, requests, origin, disturbed>>

(* The request is gone, and with it the reload at its end.                 *)
ImportPanic(w) ==
  /\ task[w].at = "import" /\ task[w].links # <<>> /\ Panics(Head(task[w].links))
  /\ disturbed' = disturbed \cup {task[w].id}
  /\ TaskStep(w, NoTask)
  /\ Step(w, At("idle"))
  /\ UNCHANGED <<db, nextId, backends, configVars, subVars, boot, countVars, origin>>

ImportDone(w) ==
  /\ task[w].at = "import" /\ task[w].links = <<>>
  /\ TaskStep(w, NoTask)
  /\ UNCHANGED <<tableVars, configVars, subVars, boot, countVars, origin, disturbed>>

Delete(w, id) ==
  /\ Free(w)
  /\ Overlap(id)
  /\ DeleteConfigsOf(id)
  /\ feedOf' = [feedOf EXCEPT ![id] = <<>>]
  /\ TaskStep(w, Task("row", id, <<>>, {}))
  /\ UNCHANGED <<tableVars, nextConfig, missed, subVars, boot, origin>>

DeleteRow(w) ==
  /\ task[w].at = "row"
  /\ \/ DeleteBackend(w, task[w].id) /\ UNCHANGED faults
     \/ RowStays(w)
  /\ TaskStep(w, NoTask)
  /\ UNCHANGED <<configVars, subVars, boot, requests, origin, disturbed>>

(* loadBackends takes the query that failed for an empty table.            *)
QueryFails(w) ==
  /\ reloader[w].at = IF w = Ticker THEN "idle" ELSE "changed"
  /\ Fault
  /\ Step(w, Holding("queried", 0, FALSE, {}))
  /\ UNCHANGED <<db, nextId, backends>>

Reload(w) ==
  /\ boot.at = "up"
  /\ \/ /\ w \in Admins => task[w] = NoTask
        /\ \/ Query(w) /\ UNCHANGED faults
           \/ QueryFails(w)
     \/ Assign(w) /\ UNCHANGED faults
  /\ UNCHANGED <<configVars, subVars, task, boot, requests, origin, disturbed>>

-----------------------------------------------------------------------------
(* Subscriptions. A form names configs of a page that may be old.          *)
Forms == {ids \in SUBSET (1 .. nextConfig - 1) : Cardinality(ids) <= MaxPicks}

(* Mutant: plain row ids, of which the last one is handed out again.       *)
AddSub_Reuses(w, client, ids) ==
  LET id == IF subs = {} THEN 1 ELSE nextSub IN
  /\ Free(w)
  /\ id <= MaxSub
  /\ subs' = subs \cup {[id |-> id, client |-> client]}
  /\ nextSub' = id + 1
  /\ asked' = [asked EXCEPT ![id] = ids]
  /\ TaskStep(w, Task("pick", id, <<>>, ids))
  /\ UNCHANGED <<tableVars, configVars, picks, boot, faults, origin, disturbed>>

AddSub(w, client, ids) ==
  /\ Free(w)
  /\ nextSub <= MaxSub
  /\ subs' = subs \cup {[id |-> nextSub, client |-> client]}
  /\ nextSub' = nextSub + 1
  /\ asked' = [asked EXCEPT ![nextSub] = ids]
  /\ TaskStep(w, Task("pick", nextSub, <<>>, ids))
  /\ UNCHANGED <<tableVars, configVars, picks, boot, faults, origin, disturbed>>

Pick(w) ==
  /\ task[w].at = "pick"
  /\ IF task[w].ids = {} THEN TaskStep(w, NoTask) /\ UNCHANGED picks
     ELSE \E c \in task[w].ids :
            /\ picks' = picks \cup {<<task[w].id, c>>}
            /\ TaskStep(w, [task[w] EXCEPT !.ids = @ \ {c}])
  /\ UNCHANGED <<tableVars, configVars, subs, nextSub, asked, boot, countVars, origin, disturbed>>

(* One of its rows could not be joined.                                    *)
PickFails(w) ==
  /\ task[w].at = "pick" /\ Fault
  /\ \E c \in task[w].ids : TaskStep(w, [task[w] EXCEPT !.ids = @ \ {c}])
  /\ UNCHANGED <<tableVars, configVars, subVars, boot, requests, origin, disturbed>>

DeleteSub(w, s) ==
  /\ Free(w)
  /\ \/ picks' = {p \in picks : p[1] # s} /\ UNCHANGED faults
     \/ Fault /\ UNCHANGED picks
  /\ TaskStep(w, Task("sub", s, <<>>, {}))
  /\ UNCHANGED <<tableVars, configVars, subs, nextSub, asked, boot, origin, disturbed>>

DeleteSubRow(w) ==
  /\ task[w].at = "sub"
  /\ \/ subs' = {s \in subs : s.id # task[w].id} /\ UNCHANGED faults
     \/ Fault /\ UNCHANGED subs
  /\ TaskStep(w, NoTask)
  /\ UNCHANGED <<tableVars, configVars, picks, nextSub, asked, boot, requests, origin, disturbed>>

(* deleteClient: the join rows stay. (If it fails it changes nothing.)     *)
DeleteClient(w, client) ==
  /\ Free(w)
  /\ subs' = {s \in subs : s.client # client}
  /\ UNCHANGED <<tableVars, configVars, picks, nextSub, asked, task, boot, faults, origin, disturbed>>

-----------------------------------------------------------------------------
AdminBegins(w) ==
  \/ \E feed \in Feeds, primary \in Ticked : AddRow(w, feed, primary)
  \/ \E r \in db : Toggle(w, r) \/ Refetch(w, r)
  \/ \E id \in 1 .. nextId - 1 : Delete(w, id)
  \/ \E client \in Clients, ids \in Forms : AddSub(w, client, ids)
  \/ \E s \in 1 .. nextSub - 1 : DeleteSub(w, s)
  \/ \E client \in Clients : DeleteClient(w, client)

AdminGoesOn(w) ==
  \/ ToggleStore(w)
  \/ RefetchAbort(w) \/ \E feed \in Feeds : RefetchRow(w, feed)
  \/ ClearConfigs(w) \/ Import(w) \/ ImportPanic(w) \/ ImportDone(w)
  \/ DeleteRow(w)
  \/ Pick(w) \/ PickFails(w) \/ DeleteSubRow(w)

Next ==
  \/ Booting \/ SeedPanic \/ Crash
  \/ \E w \in Admins : AdminBegins(w) \/ AdminGoesOn(w)
  \/ \E w \in Reloaders : Reload(w)

(* The process comes up in the end, and the loop of Start reloads for      *)
(* ever. Requests owe nothing: one may stay halfway for good.              *)
Fairness == WF_vars(Booting) /\ WF_vars(Reload(Ticker))

Spec == Init /\ [][Next]_vars /\ Fairness

-----------------------------------------------------------------------------
(* Reloads race (balancer.go:45-51), and a request that panics on a link   *)
(* never reloads: an old answer of the database can overwrite a newer one. *)
(* Once the table stops changing the copy still ends up equal to its       *)
(* enabled rows, because the loop of Start keeps reloading.                *)
BackendsConverge ==
  <>[][FALSE]_db => <>[](boot.at = "up" => backends = EnabledRows(db))

(* However often the process dies while it seeds the table, and whatever   *)
(* the administrator deletes, no entry of the config file is there twice   *)
(* (main.go:138-143).                                                      *)
SeededOnce ==
  \A r, s \in db : origin[r.id] # 0 /\ origin[r.id] = origin[s.id] => r = s

FeedLinks == UNION {{feed[i] : i \in DOMAIN feed} : feed \in Feeds}

(* Between requests, a backend has no link of its last fetch too often and *)
(* none of another fetch (a deleted one none at all) unless the DELETE of  *)
(* its configs failed, and none too few unless the INSERT of that very     *)
(* link failed: an error nobody looks at costs what it hit and no more.    *)
(* This does not hold of a backend on which two requests overlapped or one *)
(* broke off (admin.go:478-484, 530-537, 559-560; main.go:177-182).        *)
ImportedWhole ==
  \A id \in Ids \ disturbed :
    (\A w \in Admins : ~Works(w, id)) /\ boot.id # id
      => \A link \in FeedLinks :
           LET has == Cardinality({c \in configs : c.backend = id /\ c.link = link})
               due == Cardinality({i \in DOMAIN feedOf[id] : feedOf[id][i] = link})
           IN  /\ id \notin kept => has <= due
               /\ <<id, link>> \notin missed => has >= due

(* A subscription is joined to no config its own form did not name, though *)
(* deleteClient (admin.go:590-595) leaves the join rows of the             *)
(* subscriptions it deletes.                                               *)
PicksAsAsked ==
  \A s \in subs, p \in picks : p[1] = s.id => p[2] \in asked[s.id]
=============================================================================
