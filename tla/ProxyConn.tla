----------------------------- MODULE ProxyConn -----------------------------
(***************************************************************************)
(* Connections of proxy.go: each is accepted, looked at, unwrapped, given  *)
(* to the backend that is active by then, and relayed by two goroutines    *)
(* until both have ended. A panic in any of its goroutines ends the        *)
(* process with all its connections. What the balancer tells is taken to   *)
(* change at any time (Balancer has how), and peers to close at any time.  *)
(***************************************************************************)
EXTENDS VlessHeader, FiniteSets

CONSTANTS
  Conns,        \* bound: the connections ever made
  Addrs, NoAddr,
  Lists,        \* bound: the lists of backends there may be
  NoRow,
  NoId, BadId,  \* the empty user id, and one that is not 32 hex digits
  Targets,      \* bound: what clients may ask for
  TestTarget,   \* cfg.TestTarget, NoTarget when it is not set
  NoTarget,
  AdminEnabled  \* cfg.AdminEnabled: without it the proxy has no admin server

BackendRows == UNION Lists

ASSUME ProxyAssumption ==
  /\ NoAddr \notin Addrs /\ AdminEnabled \in BOOLEAN
  /\ NoRow \notin BackendRows
  /\ \A r \in BackendRows : r.addr \in Addrs /\ r.flow \in Seq(Nat)
  /\ Targets \subseteq Requests /\ TestTarget \in Requests \cup {NoTarget}
  /\ NoTarget \notin Targets
  /\ IsFiniteSet(Conns)

VARIABLES
  active,   \* GetActive()
  listed,   \* the rows GetBackendByAddr looks through
  conn,     \* the connections: sockets, and where their goroutines stand
  running,  \* the process is up
  opened, open, failed  \* TotalConnections, ActiveConnections, FailedConnections

counters == <<opened, open, failed>>
vars == <<active, listed, conn, running, counters>>

(* client, backend: the process holds the socket open. asked: what the     *)
(* client's header asks for. addr, row: the backend it is given to. sent:  *)
(* what was written to it. c2b, b2c: what a direction's goroutine waits    *)
(* for.                                                                    *)
Stages == {"none", "accepted", "http", "handshake", "peek", "header", "choose", "lookup",
           "dial", "greet", "relay", "closed"}
Waits == {"read", "write", "done"}
New == [at |-> "none", asked |-> NoTarget, addr |-> NoAddr, row |-> NoRow, sent |-> <<>>,
        client |-> FALSE, backend |-> FALSE, c2b |-> "done", b2c |-> "done"]

UserIds == {r.uuid : r \in BackendRows}
Connections ==
  [at : Stages, asked : Targets \cup {NoTarget}, addr : Addrs \cup {NoAddr},
   row : BackendRows \cup {NoRow}, sent : Seq(UserIds \cup Nat),
   client : BOOLEAN, backend : BOOLEAN, c2b : Waits, b2c : Waits]

(* Between RecordConnection and the deferred RecordClose.                  *)
Counted == {"handshake", "peek", "header", "choose", "lookup", "dial", "greet", "relay"}

TypeOK ==
  /\ active \in Addrs \cup {NoAddr} /\ listed \in Lists
  /\ conn \in [Conns -> Connections]
  /\ running \in BOOLEAN
  /\ {opened, open, failed} \subseteq 0 .. Cardinality(Conns)

Init ==
  /\ active = NoAddr /\ listed \in Lists
  /\ conn = [c \in Conns |-> New]
  /\ running = TRUE
  /\ opened = 0 /\ open = 0 /\ failed = 0

-----------------------------------------------------------------------------
(* The balancer, as the proxy sees it.                                     *)
Switch(a) ==
  /\ active # a
  /\ active' = a
  /\ UNCHANGED <<listed, conn, running, counters>>

Relist(rows) ==
  /\ listed # rows
  /\ listed' = rows
  /\ UNCHANGED <<active, conn, running, counters>>

-----------------------------------------------------------------------------
Goes(c, at) == conn' = [conn EXCEPT ![c].at = at]

Closed == [New EXCEPT !.at = "closed"]

Drop(c) == conn' = [conn EXCEPT ![c] = Closed]

(* The deferred functions of handleTLSConnection and proxyToBackend.       *)
(* Mutants: the client is not closed; the connection stays counted; a      *)
(* connection is taken off the count twice.                                *)
Finish_LeavesClient(c) ==
  /\ conn' = [conn EXCEPT ![c] = [Closed EXCEPT !.client = conn[c].client]]
  /\ open' = open - 1

Finish_StaysCounted(c) == Drop(c) /\ UNCHANGED open

Finish_TakenTwice(c) == Drop(c) /\ open' = open - 2

Finish(c) == Drop(c) /\ open' = open - 1

(* A panic that nothing recovers, or the end of main: it waits for the     *)
(* listener, not for the connections.                                      *)
Panic ==
  /\ running' = FALSE
  /\ conn' = [c \in Conns |-> IF conn[c].at = "none" THEN conn[c] ELSE Closed]
  /\ opened' = 0 /\ open' = 0 /\ failed' = 0
  /\ UNCHANGED <<active, listed>>

Shutdown ==
  /\ running
  /\ Panic

Restart ==
  /\ ~running
  /\ running' = TRUE
  /\ UNCHANGED <<active, listed, conn, counters>>

-----------------------------------------------------------------------------
Accept(c) ==
  /\ running
  /\ conn[c].at = "none"
  /\ conn' = [conn EXCEPT ![c].at = "accepted", ![c].client = TRUE]
  /\ UNCHANGED <<active, listed, running, counters>>

(* The first byte: none within five seconds, or one of neither protocol.   *)
FirstByteRefused(c) ==
  /\ conn[c].at = "accepted"
  /\ Drop(c)
  /\ UNCHANGED <<active, listed, running, counters>>

FirstByteHTTP(c) ==
  /\ conn[c].at = "accepted"
  /\ Goes(c, "http")
  /\ UNCHANGED <<active, listed, running, counters>>

FirstByteTLS(c) ==
  /\ conn[c].at = "accepted"
  /\ Goes(c, "handshake")
  /\ opened' = opened + 1 /\ open' = open + 1
  /\ UNCHANGED <<active, listed, running, failed>>

(* Any request is answered and the connection closed; one for /sub/ is     *)
(* passed to the admin server, whether or not there is one.                *)
ServeHTTP(c) ==
  /\ conn[c].at = "http"
  /\ Drop(c)
  /\ UNCHANGED <<active, listed, running, counters>>

ServeSubscription(c) ==
  /\ conn[c].at = "http"
  /\ ~AdminEnabled
  /\ Panic

(* TLS, then a peek at 64 bytes, which waits until the client has sent as  *)
(* many or nothing more, then the header; all without a deadline.          *)
Unwrap(c) ==
  /\ \/ conn[c].at = "handshake" /\ Goes(c, "peek")
     \/ conn[c].at = "peek" /\ Goes(c, "header")
  /\ UNCHANGED <<active, listed, running, counters>>

ReadRequest(c, target) ==
  /\ conn[c].at = "header"
  /\ conn' = [conn EXCEPT ![c].at = "choose", ![c].asked = target]
  /\ UNCHANGED <<active, listed, running, counters>>

UnwrapFail(c) ==
  /\ conn[c].at \in {"handshake", "peek", "header"}
  /\ Finish(c)
  /\ UNCHANGED <<active, listed, running, opened, failed>>

(* GetActive and GetBackendByAddr, each under the balancer's lock.         *)
ReadActive(c) ==
  /\ conn[c].at = "choose"
  /\ active # NoAddr
  /\ conn' = [conn EXCEPT ![c].at = "lookup", ![c].addr = active]
  /\ UNCHANGED <<active, listed, running, counters>>

NoActive(c) ==
  /\ conn[c].at = "choose"
  /\ active = NoAddr
  /\ Finish(c)
  /\ UNCHANGED <<active, listed, running, opened, failed>>

LookUp(c, r) ==
  /\ conn[c].at = "lookup"
  /\ r \in listed /\ r.addr = conn[c].addr /\ r.uuid # NoId
  /\ conn' = [conn EXCEPT ![c].at = "dial", ![c].addr = NoAddr, ![c].row = r]
  /\ UNCHANGED <<active, listed, running, counters>>

(* No row has the address, or the row has no UUID.                         *)
LookUpFail(c) ==
  /\ conn[c].at = "lookup"
  /\ \A r \in listed : r.addr = conn[c].addr => r.uuid = NoId
  /\ Finish(c)
  /\ UNCHANGED <<active, listed, running, opened, failed>>

Dial(c) ==
  /\ conn[c].at = "dial"
  /\ conn[c].row.uuid # BadId
  /\ conn' = [conn EXCEPT ![c].at = "greet", ![c].backend = TRUE]
  /\ UNCHANGED <<active, listed, running, counters>>

(* The errors proxyToBackend returns: a user id it cannot parse, before it *)
(* dials, or a dial that fails.                                            *)
DialFail(c) ==
  /\ conn[c].at = "dial"
  /\ Finish(c)
  /\ failed' = failed + 1
  /\ UNCHANGED <<active, listed, running, opened>>

(* The header for the backend; a target for tests replaces the client's.   *)
Request(asked) == IF TestTarget = NoTarget THEN asked ELSE [TestTarget EXCEPT !.cmd = asked.cmd]

Greeting(k) == Header(k.row.uuid, FlowAddon(k.row.flow), Request(k.asked))

(* The header is dumped, then written in one piece, its errors ignored;    *)
(* the dump has no room for a long one.                                    *)
Greet(c) ==
  /\ conn[c].at = "greet"
  /\ DumpFits(Greeting(conn[c]))
  /\ conn' = [conn EXCEPT ![c].at = "relay", ![c].sent = WriteHeader(Greeting(conn[c])),
                          ![c].c2b = "read", ![c].b2c = "read"]
  /\ UNCHANGED <<active, listed, running, counters>>

GreetPanic(c) ==
  /\ conn[c].at = "greet"
  /\ ~DumpFits(Greeting(conn[c]))
  /\ Panic

-----------------------------------------------------------------------------
(* The two goroutines of the relay: what arrived is written on, and the    *)
(* one that cannot read or write any more closes the side it wrote to.     *)
ReadC2B(c) == conn[c].c2b = "read" /\ conn' = [conn EXCEPT ![c].c2b = "write"]
ReadB2C(c) == conn[c].b2c = "read" /\ conn' = [conn EXCEPT ![c].b2c = "write"]

Read(c) ==
  /\ \/ conn[c].client /\ ReadC2B(c)
     \/ conn[c].backend /\ ReadB2C(c)
  /\ UNCHANGED <<active, listed, running, counters>>

Write(c) ==
  /\ \/ conn[c].c2b = "write" /\ conn[c].backend /\ conn' = [conn EXCEPT ![c].c2b = "read"]
     \/ conn[c].b2c = "write" /\ conn[c].client /\ conn' = [conn EXCEPT ![c].b2c = "read"]
  /\ UNCHANGED <<active, listed, running, counters>>

(* Mutant: the side written to is left open.                               *)
EndC2B_LeavesBackend(c) == conn' = [conn EXCEPT ![c].c2b = "done"]

EndC2B(c) == conn' = [conn EXCEPT ![c].c2b = "done", ![c].backend = FALSE]
EndB2C(c) == conn' = [conn EXCEPT ![c].b2c = "done", ![c].client = FALSE]

(* A peer has closed its side or broken the framing, or is gone.           *)
PeerEnds(c) ==
  /\ \/ conn[c].c2b \in {"read", "write"} /\ EndC2B(c)
     \/ conn[c].b2c \in {"read", "write"} /\ EndB2C(c)
  /\ UNCHANGED <<active, listed, running, counters>>

(* The socket a goroutine works on was closed by the other one.            *)
SocketEnds(c) ==
  /\ \/ conn[c].c2b = "read" /\ ~conn[c].client /\ EndC2B(c)
     \/ conn[c].c2b = "write" /\ ~conn[c].backend /\ EndC2B(c)
     \/ conn[c].b2c = "read" /\ ~conn[c].backend /\ EndB2C(c)
     \/ conn[c].b2c = "write" /\ ~conn[c].client /\ EndB2C(c)
  /\ UNCHANGED <<active, listed, running, counters>>

RelayDone(c) ==
  /\ conn[c].at = "relay"
  /\ conn[c].c2b = "done" /\ conn[c].b2c = "done"
  /\ Finish(c)
  /\ UNCHANGED <<active, listed, running, opened, failed>>

-----------------------------------------------------------------------------
Opening(c) ==
  \/ Accept(c)
  \/ FirstByteRefused(c) \/ FirstByteHTTP(c) \/ FirstByteTLS(c)
  \/ ServeHTTP(c) \/ ServeSubscription(c)
  \/ Unwrap(c) \/ UnwrapFail(c)
  \/ \E target \in Targets : ReadRequest(c, target)
  \/ ReadActive(c) \/ NoActive(c)
  \/ \E r \in BackendRows : LookUp(c, r)
  \/ LookUpFail(c)
  \/ Dial(c) \/ DialFail(c)
  \/ Greet(c) \/ GreetPanic(c)

Relaying(c) == Read(c) \/ Write(c) \/ PeerEnds(c) \/ SocketEnds(c) \/ RelayDone(c)

Next ==
  \/ \E a \in Addrs \cup {NoAddr} : Switch(a)
  \/ \E rows \in Lists : Relist(rows)
  \/ \E c \in Conns : Opening(c) \/ Relaying(c)
  \/ Shutdown \/ Restart

(* A goroutine whose socket was closed under it notices, and peers read    *)
(* what they are sent; they owe nothing else.                              *)
Fairness == \A c \in Conns : WF_vars(SocketEnds(c)) /\ SF_vars(Write(c)) /\ WF_vars(RelayDone(c))

Spec == Init /\ [][Next]_vars /\ Fairness

-----------------------------------------------------------------------------
(* On every way out of the handler, early returns and panics included, the *)
(* gauge the dashboard shows is the number of connections being handled    *)
(* (proxy.go:116-171, metrics.go:34-47).                                   *)
GaugeIsExact == open = Cardinality({c \in Conns : conn[c].at \in Counted})

(* And no socket outlives its handler; while both directions run, both     *)
(* sockets are open, so that neither ends for want of the other.           *)
NoOrphanSocket ==
  \A c \in Conns :
    /\ conn[c].client \/ conn[c].backend => conn[c].at \notin {"none", "closed"}
    /\ conn[c].backend => conn[c].at \in {"greet", "relay"}
    /\ conn[c].c2b # "done" /\ conn[c].b2c # "done" => conn[c].client /\ conn[c].backend

(* A backend that reads headers as this program does is told its own user  *)
(* id and exactly what the client asked for, though lengths are written as *)
(* one byte whatever they are (vless.go:117, 131): nothing too long for    *)
(* its byte gets past the dump (proxy.go:235-254).                         *)
GreetingIsRequest ==
  \A c \in Conns : conn[c].at = "relay" =>
    /\ Readable(conn[c].sent) /\ Rest(conn[c].sent) = <<>>
    /\ ReadHeader(conn[c].sent).uuid = conn[c].row.uuid
    /\ ReadHeader(conn[c].sent).target = Request(conn[c].asked)

(* When one direction has ended, for whatever reason and wherever the      *)
(* other one waits, the other ends too and the handler returns             *)
(* (proxy.go:276-322).                                                     *)
HandlerEnds ==
  \A c \in Conns :
    (conn[c].at = "relay" /\ "done" \in {conn[c].c2b, conn[c].b2c}) ~> (conn[c].at = "closed")
=============================================================================
