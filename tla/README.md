# proxy-balancer in TLA+

A verification development for the Go program in `src/`: a TLS front end that
accepts VLESS clients, forwards each connection to one *active* 3x-ui backend,
watches the backends' health, and lets an administrator manage them. The
modules model the program's control; TLC checks them on small instances and
TLAPS proves the central ones for every instance.

## 1. The system

| part | code | state | operations |
|---|---|---|---|
| Balancer | `balancer.go` | `currentAddr`, `backends`, `manualMode`, `manualAddr`, `lastSyncedAddr`, `lastSyncTime`, under `b.mu` | `Start` (startup, then a round per interval), `Reload`, `checkSubscriptions`, `failover`, `selectInitial`, `selectBest`, `SetManual`, `GetActive`, `GetBackendByAddr` |
| Health checker | `health.go` | `statuses`, `pings`, `observatoryOK`, under `h.mu` | `Start` (ticker goroutine and initial loop), `SetStatus`, `SetPing`, `BestUp`, `IsUp` |
| Observatory watcher | `observatory.go` | tag map, offset into xray's log | `scanLog` at startup, `readNewLines` every 5 s, a callback goroutine per change |
| Backends table | `models.go`, `admin.go` | SQLite rows | `addBackend`, `toggleBackend`, `refetchBackend`, `deleteBackend`, each followed by `Reload` |
| xray sync | `balancer.go:305-429` | xray's config file, xray's own rules | `syncXrayLocked`: read, filter and prepend a rule, write, `systemctl restart` |
| Proxy | `proxy.go` | open connections, metrics | accept, TLS, VLESS header, dial, two relay directions, close |
| VLESS codec, Vision framing, REALITY dialler, SNI parser | `vless.go`, `vision.go`, `reality.go`, `tls.go` | per-connection buffers | encode, decode, relay |
| Subscription links | `subscription_fetch.go` | none | fetch, find the server, parse a link |
| Admin store | `admin.go` | rows of `sub_configs`, `subscriptions`, `subscription_configs`, `clients` | import and delete configs, add and delete subscriptions and clients |
| Admin gate | `admin.go` | sessions, CSRF tokens | log in, check, pages that only read |
| Process | `main.go`, `config.go` | seeded table, listeners | seeding, start, shutdown |
| Metrics | `metrics.go` | counters, recent times | record, snapshot |
| 3x-ui client, test probe | `xui.go`, `testprobe/` | none | called by nothing, resp. a separate command |

How they interact. `main` seeds the table, builds the Balancer (which loads
the enabled rows) and starts, concurrently, `Balancer.Start`, the admin server
and the proxy. `Start` runs the observatory watcher's scan, hands statuses to
the observatory, dials every backend once, checks subscriptions, and chooses
the first active backend; then it loops. Statuses are written by four
goroutines (observatory tail, initial TCP loop, TCP ticker, subscription
checks), the active backend by five (startup and loop, observatory callbacks,
TCP callbacks, admin requests), the copy of the table by every admin request
and the loop. Each proxied connection reads the active address and then its
row, in two lock sections.

What is hard: most decisions are made from something read under a lock that
has been released (`manualMode` is even read without one); callbacks run on
goroutines of their own, in any order; database queries run outside the lock
that guards their result; the config sync has five fallible steps and no
rollback; and the process can be killed, by its own sync among others,
between any two steps. `PROJECT.json` lists the hazards line by line.

What makes each part correct: a failure of the active backend is acted upon or
known to be hopeless; a manual choice stays; xray is synced with what the proxy
uses; a backend that is up serves in the end (Balancer). No entry of the config
file is seeded twice, a backend has the links of its last fetch but for what a
failed statement cost it, a subscription its own picks (admin store). A backend
is told exactly what the client asked for (codec and proxy). A backend that
stopped answering ends up ranked last (health checker). The copy ends up equal to
the table (backends table). The rules file does not accumulate leftovers and a lasting
choice reaches xray (sync). No verdict of the log is acted on twice, out of
order or, in normal operation, not at all (watcher). What a peer sends is what
the other one gets (framing). Sockets and counters agree with the handlers, and
handlers end (proxy).

## 2. The modules

```
Backend ── HealthChecker ── TcpMonitor ─ TcpProofs   (closed with a network)
   │            └──────────────┐
   ├────── BackendTable ───────┴── Balancer ─ MCBalancer      implements ActiveBackend
   │            │                     └── BalancerProofs (with TableProofs)
   ├─ SubscriptionLinks ── AdminStore ─ MCAdminStore          (with BackendTable)
   │                           └── AdminStoreProofs (with TableProofs)
   └────── XraySync ─ MCXraySync
               └── XrayProofs

VlessHeader ── ProxyConn ─ MCProxyConn        VisionStream ─ VisionProofs    implements ByteStream
                   └── ProxyProofs            ObservatoryTail ─ TailProofs
```

ProxyConn, VisionStream and ObservatoryTail stand alone: they meet the others at
one point each (the active address, the relayed bytes, a verdict read from the
log), which they leave open or take as an input.

* **Backend** has the row of the table (the columns decisions depend on), the
  `ORDER BY primary DESC, id ASC` order and the enabled rows. An address is a
  model value, `NoAddr` the empty string.
* **HealthChecker** has the maps and their operations. Absent keys read as
  `FALSE` and 0 in Go, so the maps are total functions here. `BestUp` returns
  any of the addresses with the smallest key, since `sort.Slice` is not stable.
* **TcpMonitor** runs `HealthChecker.Start` next to a network whose backends
  come and go and to the other writers of statuses. The loop body of the ticker
  is two steps, the dial and what is made of it. `observatoryOK` is set from the
  start on: `Balancer.Start` runs `ObservatoryWatcher.Start`, which sets it for
  good, before `HealthChecker.Start`. So the ticker records pings and no more; the
  rest of its body (`health.go:124-134`) is dead code in this program and has no
  action.
* **BackendTable** has one request per admin goroutine, with its reads and
  writes of the database as separate steps, and the reload as a query and an
  assignment.
* **SubscriptionLinks** is what the program makes of a fetched subscription: the
  first link that names a server, and the links whose escape `url.Parse` refuses,
  where the nil result is used (`subscription_fetch.go:64`) and panics.
* **AdminStore** extends `BackendTable` to the whole database: configs,
  subscriptions and join rows, the seeding that runs before anything else
  (`boot`), every statement of a request as a step (`task` holds the ones it has
  left), crashes, and panics, which end a request (net/http recovers them) or, in
  the seeding, the process. A statement can fail as well (`Fault`), and where the
  code ignores the error the action goes on as the code does: a config that is
  not stored is skipped, configs that are not deleted stay, a row that is not
  updated stays, a count that fails reads as 0, a query that fails empties the
  copy. Ids are never handed out twice (AUTOINCREMENT) and nothing checks what a
  row refers to. `feedOf`, `origin`, `asked`, `disturbed`, `kept` and `missed` are
  history variables for the properties; the last two remember which DELETE and
  which INSERT of configs failed. `SeedMiscount` starts `origin` anew: entries that
  are there twice because the count failed are the code's, and not what
  `SeededOnce` is about.
* **Balancer** joins both with the goroutine of `Start` (a program counter
  `runner.at` and the round it is in), the tail of the observatory's log
  (`tail`: a read of a status, then the write), callbacks (`notifier`: the three
  sections of the closure at `balancer.go:85-92`), pings and the
  administrator. A section under `b.mu` is one step. This is sound because all
  fields but `manualMode` are accessed under `b.mu` only, and the single thing a
  section reads that is not protected by `b.mu` is `BestUp`, one atomic read
  under `h.mu`: the section can be taken to happen at that read. `manualMode` is
  written under `b.mu` and its unlocked reads are steps of their own. `stranded`
  is a history variable: the last choice among the backends found none up.
* **ActiveBackend** is what the choice promises, without goroutines: four ways the
  active address may move, each guarded by what is up and best at that moment,
  and `Rescue`, which must not be possible for ever. Balancer maps to it with
  `pinned` = the manual address in manual mode, and the stages after
  `selectInitial` as `running`. That `BestUp` puts a backend without a
  measurement behind one with any is its `Slower`, where the code ranks 9999.
* **XraySync** takes `syncXrayLocked` apart: the decision to sync, read, write
  (truncate, then fill), restart, each of which can fail, and `Crash` between
  any two. The unit it restarts is named `proxy-balancer`, under which the
  README and the Makefile install this program, while the log calls it xray:
  `unit` is either, and for the program's own a restart is its end and its next
  start (`Reborn`). The user's rules are kept in order; rules that name a backend or
  xray's own balancer are dropped (`balancer.go:345`): `Kept` is the loop over the
  rules, a recursive function of how many it has seen. The list starts as a nil
  slice, so an empty one is written as `null` (`Marshalled`), which no later sync
  takes for a list (`balancer.go:331-334`): the file is a list of rules, `null`, or
  torn, and `Read` is for the first only.
* **ObservatoryTail** has the file as a sequence of pieces: whole lines, and the
  two halves of a line xray writes in two goes. The offset counts pieces. After
  a cut the offset can point anywhere into the new file, so that what is read
  there may be taken for a fragment (`ReadFragment`). What acting on a line does
  is Balancer's; here `heard` remembers, per address, the last line acted on.
* **ByteStream** is what a direction of a connection promises: what comes out is
  a prefix of what was put in. **VisionStream** is one direction with its two
  peers, for each of the four pairs (from client or backend, with or without the
  Vision flow) that `proxyToBackend` chooses its relay by. Wires are sequences of
  tokens (user id, the rest of a frame header, content byte, padding byte,
  response header) and the operators on them follow the reader: `io.ReadFull`
  waits for all it wants, so taking a frame is a step that waits for the whole
  frame; other reads take any amount. The peer that decodes what the program
  framed is taken to follow the rules of `VisionReader`. `SourceEnd` is the peer
  or the network; `OtherEnd` is the other direction, whose deferred `Close` shuts the
  socket this one reads, whether or not its peer has closed already; `ProxyEnd` is
  this direction's own end, whose `Close` can reset the other socket and lose what
  is under way there.
* **VlessHeader** is the codec: `WriteHeader` and `ReadHeader` on sequences in
  which everything of fixed size is one element and what has a length comes after
  the byte that says how many (`% 256`), and the length of the header dump.
* **ProxyConn** has a record per connection: its stage in the handler, the two
  sockets, what the client asked for and what the backend was sent, and what each
  of the relay's goroutines waits for. Every early return of
  `handleRawConnection`, `handleTLSConnection` and `proxyToBackend` is an action.
  Two of the ways out are panics that end the process: a header too long for the
  64 bytes it is dumped into (`proxy.go:235-254`) and a `/sub/` request when the
  admin server is disabled (`proxy.go:337`, `main.go` passes nil). `Shutdown` is
  the way `main` ends: it waits for the accept loop, not for the connections.
  `GetActive` and `GetBackendByAddr` are two steps, between which `Switch` and
  `Relist` change what they return; which address they give is Balancer's.
* Operators whose names have an underscore (`Failover_NoRecheck`, …) are
  mutants: the bug each property was tried against. No specification uses them.

`PROJECT.json` maps each definition to its lines.

## 3. The runs

| run | shows | bounds |
|---|---|---|
| `tcp_monitor` | `SilentRanksLast`: a backend that stopped answering ends up ranked last, though two goroutines store dials that overlap | 2 addresses, pings 0..1, 2 changes of the world |
| `admin_store` | `SeededOnce`, `ImportedWhole`, `PicksAsAsked`, and under fairness `BackendsConverge`: once the table is left alone, the copy equals it | 2 requests, together or one after the other, 1 fault (a crash or a statement that fails), 2 backend ids, 4 config ids, 2 subscriptions with 1 pick each; empty database or that of an earlier run with a good feed; feeds that are empty, good, or end in a link that panics |
| `balancer` | `NoLostFailover`, `SyncTracksActive`, `PinnedWhileManual`, and that `ActiveBackend` is implemented: `OnlyAllowedMoves` and, under fairness, `RescuedInTheEnd` | 2 seeded backends, pings 0..1, 1 callback in flight |
| `balancer_admin` | `NoLostFailover` and `PinnedWhileManual` while the table changes, and under fairness `RescuedInTheEnd`: a current backend whose address is not in the list any more is left, although its status says up | 1 request, 1 id, 2 addresses of which one is tagged, no callbacks |
| `xray_sync` | `RulesForgetHistory`, and under fairness `ChoiceReachesXray` | both units, 3 addresses of which two have an outbound, a file with one rule of the administrator's own and one with none, so that a sync can write `null` |
| `observatory_tail` | `NothingTwice`, and while the file is not cut `NothingPassedOver` and `LineHeard` | 4 lines, 1 cut, 3 outbounds of which two are in the map |
| `vision_stream` | `IsStream` (the refinement), `EverythingArrives` | 3 bytes, frames of at most 2, padded to 2, peers' padding 0..1, all commands, at most 5 tokens under way before a peer writes on |
| `proxy_conn` | `GaugeIsExact`, `NoOrphanSocket`, `GreetingIsRequest`, and under fairness `HandlerEnds` | 2 connections, no admin server, targets that fit the dump, just fit it and do not |
| `tcp_overrides` | violated: `TcpNeverOverrides` | as `tcp_monitor` |
| `manual_active` | violated: `ManualMeansActive` | as `balancer` |
| `returns_to_primary` | violated: `ReturnsToPrimary` | as `balancer` |
| `self_restart` | violated: `SyncsReachXray` | as `xray_sync` |

Why the bounds are enough. Two backends give every choice the code
distinguishes: the current one, another one, none. Pings 0 and 1 give both
kinds of key (9999 and measured), ties and a strict order. One callback in
flight overlaps with the loop's own failover and with the administrator; two
in flight were checked as well for the safety properties (968,560 states) and
the proofs cover any number. Two changes of the world are enough for a status to
be wrong twice, once per writer. Two requests on the database race with each other
and with the ticker, statement by statement; a feed with two links has a state
between its imports, one crash falls between any two statements or into the
seeding, one failure hits any statement of them, and with two backend ids a row
can be deleted and another added. The safety properties were checked with a feed
of two good links as well (six config ids, 1,887,152 states), and
`WholeImports` is proved for any feeds. `balancer_admin` has one id and no callbacks for
the sake of its size: `balancer` covers two rows and the callbacks, and the proofs
cover any table, any callbacks and both together. In it the row is refetched from
the current address to the other one, which is up. Its safety properties were
checked with a callback as well (2,228,218 states), and `RescuedInTheEnd` with a
second row that stays and no tagged address (2,681,684 states). Four lines let two of one
address straddle the scan, the start of the tail and a read, with another
address's, whole or half, between them. Three bytes are one more than a frame
holds: a frame and a raw rest, two frames, an empty frame and a full one; reads
of 1 to 3 bytes split each of them. Two connections let one panic while the
other is in any stage, with two addresses for a switch between the two reads.
`proxy_conn` has no admin server because that case adds a way out and takes
none away.

Deadlock is checked in every run but `vision_stream`, where a direction that
has delivered everything and is shut down really has nothing more to do.

The violated runs are disagreements between the code and what its log lines
and README say; the traces are short and `PROJECT.json` quotes both sides.
`manual_active`: `SetManual` answered while `Start` still dials is undone by
`selectInitial`, which ignores `manualMode`.
`returns_to_primary`: nothing calls `tryFailback`. `self_restart`: where
`proxy-balancer` is this program, as the README sets it up, each sync ends the
process, the next one syncs at its start, and xray is never restarted. `tcp_overrides`: the
initial dials overwrite the observatory's verdicts after the log announced they
would not.

## 4. Fairness

* TcpMonitor: the initial loop and the ticker go on (weak fairness): dials have
  a timeout. Each address is dialled again and again (strong fairness, because
  one goroutine visits the addresses in turn, so that the dial of one address is
  disabled while another's is in progress).
* AdminStore: the process starts in the end, and the loop of `Start` reloads for
  ever. Requests owe nothing: one may stay halfway for good, with an old answer of
  the database in hand. Failures are bounded by `MaxFaults`: a query that fails for
  ever is not in the model.
* Balancer and ActiveBackend: the goroutine of `Start` gets on (dials and subscription fetches
  have timeouts, `scanLog` reads a finite file) and a spawned callback runs. The
  log, pings and the administrator owe nothing. That a callback always finds a
  free slot is not assumed: a full `Notifiers` delays the tail, nothing else.
* ObservatoryTail: the watcher's goroutine goes on; xray and logrotate owe
  nothing.
* VisionStream: the relay's goroutines and the peer that reads go on; the peer
  that writes owes nothing. Backpressure is not modelled.
* ProxyConn: a goroutine whose socket the other one has closed notices it (Go
  wakes a blocked read or write on `Close`), and peers read what they are sent
  (strong fairness of `Write`; with a peer that never reads, a write has no
  deadline and the handler does stay). Nothing is assumed of handshakes,
  headers, or a peer that sends nothing.
* XraySync: startup ends, the loop ticks, thirty seconds pass, and reading a file
  that holds a list of rules, truncating, writing and restarting do not fail every
  time (strong fairness). A sync that has begun goes on (weak fairness of
  `Read \/ ReadFail`), and nothing is assumed of a file that is torn or has `null`:
  those are never read again. A crash can always happen; `ChoiceReachesXray`
  therefore speaks of choices that last, and names the two states of the file in
  which such a choice does not arrive, `null` only where the administrator has no
  rules of his own.

## 5. Proofs

From the assumptions the modules declare on their constants, for every value of
them:

| module | theorem | inductive invariant and why it is needed |
|---|---|---|
| BalancerProofs | `TypeCorrect`, `FailoverNeverLost` (`NoLostFailover`), `SyncIsCurrent` (`SyncTracksActive`), `ManualIsPinned` (`PinnedWhileManual`) | `TypeOK /\ StartupStages /\ SyncTracksActive /\ NoLostFailover` |
| BalancerProofs | `ImplementsActive` (`OnlyAllowedMoves`) | the same, and a manual address exactly in manual mode; assumes `MaxPing < 9999` |
| TcpProofs | `TypeCorrect` | `TypeOK`, and the dial that waits to be stored is of a backend |
| AdminStoreProofs | `NeverSeededTwice` (`SeededOnce`) | types, ids unique and below `nextId`, nothing else runs during the seeding, rows stem from entries before the one at hand |
| AdminStoreProofs | `TypeCorrect`, `JoinedAsAsked` (`PicksAsAsked`) | that, and what each request in flight still names: ids that were handed out, picks that were asked for |
| AdminStoreProofs | `WholeImports` (`ImportedWhole`) | both, and for each id what its configs are halfway through every request, with what failed on the way |
| ProxyProofs | `RoundTrip` | none: a fact about the codec |
| ProxyProofs | `TypeCorrect`, `CountsExactly` (`GaugeIsExact`), `NothingLeaks` (`NoOrphanSocket`), `SaysWhatWasAsked` (`GreetingIsRequest`) | types, the gauge, and for each stage which sockets are open and what was sent |
| TailProofs | `TypeCorrect`, `ActsOnce` (`NothingTwice`), `PassesOverNothing` (`NothingPassedOver`) | types, lines in the file are ordered and not newer than the last begun, the halves of a line are next to each other, and `NothingTwice` extended to half lines |
| VisionProofs | `TypeCorrect`, `ImplementsStream` (`IsStream`) | types, and that what is on both wires and in the buffers reads, from the stage each reader is in, as the bytes not delivered yet |
| XrayProofs | `TypeCorrect`, `HistoryForgotten` (`RulesForgetHistory`) | types, `RulesForgetHistory` extended to the rules about to be written, and that a restart finds a whole file |

`TableProofs` shows that every action on the table keeps its type, for
BalancerProofs and AdminStoreProofs.

*Balancer.* `NoLostFailover` is nearly inductive because its right-hand
side names everyone who still has to look at the active backend
(`FailoverPending`) and `stranded` remembers the outcome of the last choice; it
needs `StartupStages` (the stages before `selectInitial` occur only in the
startup round) since the initial dials and `scanLog` write statuses that nobody
is told of. The lemma `Chosen` is the heart: after any choice among the
candidates the active backend is up or `stranded` holds, by soundness and
completeness of `BestUp`. The step lemmas then say for every action that it
leaves the active backend's status and the pending work alone, or chooses, or
adds pending work (`SubscriptionDown`, `TailSetDown`). `PinnedWhileManual` is an
action property: every step that assigns `currentAddr` after startup rereads
`manualMode` under the lock, or is the administrator's.

*ActiveBackend.* The initial states map to initial states and each action maps to
one of `Start`, `Choose`, `Pin`, `Release` or leaves the abstract choice alone.
That what `BestUp` returns is best in the sense of `Slower` needs a measured ping
to stay below the 9999 that stands for none: with a dial timeout of ten seconds
or more the code prefers a backend that does not answer.

*AdminStore.* The invariant comes in three layers. `IInv` is about seeding: a
crash between the row and its configs, or in the row, does not matter, because
the count of rows is taken before anything is seeded; a table emptied by the
administrator is seeded again, with new ids, and by then nothing of the earlier
seeding is in it. `StoreInv` adds what a request in flight still names, and that an
id not handed out yet is used nowhere; `PicksAsAsked` follows because ids are
never handed out twice, although join rows stay behind. `Whole` says, per backend
and link, that the configs there are and the links a request has left are together
not more than the links fetched last, unless the DELETE failed (`kept`), and not
fewer, unless the INSERT of that link did (`missed`); `Has` compares cardinalities
that each statement moves by one. It adds that two requests are never at work on a
backend that is not `disturbed`, since a second one would take the bookkeeping
apart halfway.

*Proxy.* The gauge is a cardinality: each step adds or removes at most one
connection from the counted set, or is a panic, which empties both. For
`GreetingIsRequest`, `RoundTrip` is applied to what `Greet` sends; the dump's 64
bytes are what keeps every length below 256, though nothing in the code says so.

*Framing.* Whether bytes on a wire are data, padding or a header depends on all that
is before them. The proof does not compute a parse: `Parsed` says that there is
one, a function `marks` from the places where a frame or raw bytes begin to how
they are read there and how many bytes of the stream come before. A read takes
the first places away, a write adds some at the end, and a cut wire keeps its
marks; two readers (VisionRelay and the peer) stand at places of one parse.
With it every step puts bytes into the stream (`Inputs`), lets the next ones out
(`Moves`), or does neither, which are the steps of ByteStream.

*xray sync.* `Kept` is idempotent, and a rule that forces a backend in front of a
list changes nothing of it, so what a sync writes depends on the
administrator's rules and the address only. This needs induction on the length of
the list, while the library's induction theorems take an operator, which no
installed prover instantiates; the lemmas `Least` and `UpTo` derive it for
sets from the well-foundedness of the naturals. A restart reads `file.rules`
without looking at `file.is`, so the invariant has to know that the file is
not torn by then. A `null` has the rules of the sync that wrote it, which are none.

*Watcher.* `NothingTwice` speaks of complete lines; half ones become complete by
a step of xray's, so the invariant includes them. `scanLog`'s result is the
largest number in a bounded set, which the library's well-founded order on the
naturals provides. `NothingPassedOver` is an action property: which step leaves which
line behind. Its exception, the start of the tail, is a gap of the code: a line
written after `scanLog` has read the file and before `startTail` asks for its size
is in neither.

Only model-checked: liveness (`RescuedInTheEnd`, `BackendsConverge`,
`SilentRanksLast`, `ChoiceReachesXray`, `LineHeard`,
`EverythingArrives`, `HandlerEnds`), which is out of the provers' reach, as is
the fairness of ActiveBackend: `ImplementsActive` is about its steps. Every safety
invariant and action property of the passing runs has a theorem.

## 6. What is left out

* The wording of log lines, links, JSON and HTTP; timing, except where an order
  depends on it; the duration of `systemctl` while `b.mu` is held.
* `tryFailback`, `BackendForSNI`, `extractSNI`, `GenerateSubscription`,
  `filterActiveConfigs`, `ProxyToBackend`, `XUIClient`: called by nothing.
* Sessions and CSRF tokens: a token is looked up and deleted under one lock and a
  session is a row with an expiry, so nothing interleaves; AdminStore's requests
  are the ones that were let in. Pages and endpoints that only read.
* REALITY: cryptography and a socket that is closed on every error; to ProxyConn
  it is a dial.
* Data-race effects beyond reading a stale or fresh `manualMode`: a Go `bool`
  is read whole.
* Seen while modelling, but not a matter of interleavings: `extractRealityParams`
  takes the user id from the remark of a link (`subscription_fetch.go:117`), which
  `ParseUUID` refuses unless the remark is a UUID (ProxyConn has the outcome,
  `BadId`); the link a subscription serves asks for a WebSocket
  (`admin.go:752`), which the proxy does not speak.

## 7. Plan

1. Done: Backend, HealthChecker, TcpMonitor, BackendTable, Balancer, XraySync,
   ObservatoryTail, ByteStream, VisionStream, ProxyConn; ActiveBackend and its
   refinement; SubscriptionLinks, AdminStore, VlessHeader; the proofs above.
2. Open: larger instances of `admin_store` (a second entry in the config file, two
   faults) and of `balancer_admin` (a second row).
