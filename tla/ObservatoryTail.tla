-------------------------- MODULE ObservatoryTail --------------------------
(***************************************************************************)
(* How ObservatoryWatcher follows the log file xray appends its verdicts   *)
(* to: one scan of the whole file at startup, then, every five seconds,    *)
(* what lies behind an offset it keeps. xray, which may put a line into    *)
(* the file in two writes, and logrotate, which cuts the file to nothing,  *)
(* go on meanwhile. What a verdict changes is Balancer's; here `heard` is, *)
(* for each address, the last line whose verdict was compared with the     *)
(* status of the address, and stored if it differed.                       *)
(***************************************************************************)
EXTENDS Naturals, Sequences, FiniteSetsExt

CONSTANTS
  Addrs,    \* addresses of outbounds that xray's observatory reports on
  Tagged,   \* those of them the config file gives to a "proxy-" outbound
  MaxLines, \* bound: lines xray ever writes
  MaxCuts   \* bound: how often logrotate cuts the file

ASSUME TailAssumption ==
  Tagged \subseteq Addrs /\ MaxLines \in Nat /\ MaxCuts \in Nat

VARIABLES
  log,     \* the file: pieces of lines, oldest first
  lines,   \* lines xray has begun to write
  cuts,    \* how often the file was cut
  watcher, \* where the watcher stands
  known,   \* the addresses in tagToAddr
  offset,  \* how many pieces have been read, or skipped
  heard    \* address -> number of the line last acted on, or 0

vars == <<log, lines, cuts, watcher, known, offset, heard>>

Piece(n, a, part) == [n |-> n, addr |-> a, part |-> part]
Pieces == [n : 1 .. MaxLines, addr : Addrs, part : {"whole", "head", "rest"}]

TypeOK ==
  /\ log \in Seq(Pieces)
  /\ {Len(log), offset} \subseteq 0 .. 2 * MaxLines
  /\ lines \in 0 .. MaxLines /\ cuts \in 0 .. MaxCuts
  /\ watcher \in {"new", "mapped", "scanned", "waiting", "reading"}
  /\ known \subseteq Tagged
  /\ heard \in [Addrs -> 0 .. MaxLines]

Init ==
  /\ log = << >> /\ lines = 0 /\ cuts = 0
  /\ watcher = "new" /\ known = {} /\ offset = 0
  /\ heard = [a \in Addrs |-> 0]

-----------------------------------------------------------------------------
(* xray and logrotate.                                                     *)
HalfWritten == log # << >> /\ log[Len(log)].part = "head"

WriteLine(a, part) ==
  /\ lines < MaxLines
  /\ ~HalfWritten
  /\ part \in {"whole", "head"}
  /\ lines' = lines + 1
  /\ log' = Append(log, Piece(lines + 1, a, part))
  /\ UNCHANGED <<cuts, watcher, known, offset, heard>>

WriteRest ==
  /\ HalfWritten
  /\ log' = Append(log, [log[Len(log)] EXCEPT !.part = "rest"])
  /\ UNCHANGED <<lines, cuts, watcher, known, offset, heard>>

(* Lines the scanner has in its buffer when the file is cut are taken to   *)
(* be read before the cut.                                                 *)
Cut ==
  /\ cuts < MaxCuts
  /\ cuts' = cuts + 1
  /\ log' = << >>
  /\ UNCHANGED <<lines, watcher, known, offset, heard>>

-----------------------------------------------------------------------------
(* A line that is all there, be it in two pieces: the pattern matches it.  *)
Complete(i) ==
  \/ log[i].part = "whole"
  \/ log[i].part = "head" /\ i < Len(log)

(* Mutant: outbounds without the prefix get into the map.                  *)
LoadTagMap_AnyTag ==
  /\ watcher = "new"
  /\ known' \in {{}, Addrs}
  /\ watcher' = "mapped"
  /\ UNCHANGED <<log, lines, cuts, offset, heard>>

(* Start: the tag map, empty when the config cannot be read or parsed.     *)
LoadTagMap ==
  /\ watcher = "new"
  /\ known' \in {{}, Tagged}
  /\ watcher' = "mapped"
  /\ UNCHANGED <<log, lines, cuts, offset, heard>>

(* Mutant: the first line about an address counts, not the last.           *)
ScanLog_First ==
  /\ watcher = "mapped"
  /\ heard' = [a \in Addrs |->
       LET found == {log[i].n : i \in {j \in DOMAIN log :
                       log[j].addr = a /\ a \in known /\ Complete(j)}}
       IN IF found = {} THEN 0 ELSE Min(found)]
  /\ watcher' = "scanned"
  /\ UNCHANGED <<log, lines, cuts, known, offset>>

(* scanLog acts on every line of one read of the file.                     *)
ScanLog ==
  /\ watcher = "mapped"
  /\ heard' = [a \in Addrs |->
       Max({0} \cup {log[i].n : i \in {j \in DOMAIN log :
                       log[j].addr = a /\ a \in known /\ Complete(j)}})]
  /\ watcher' = "scanned"
  /\ UNCHANGED <<log, lines, cuts, known, offset>>

(* Mutant: the tail begins at the first byte.                              *)
StartTail_FromStart ==
  /\ watcher = "scanned"
  /\ watcher' = "waiting"
  /\ UNCHANGED <<log, lines, cuts, known, offset, heard>>

(* startTail, on its own goroutine: the offset is the size the file has by *)
(* now.                                                                    *)
StartTail ==
  /\ watcher = "scanned"
  /\ offset' = Len(log)
  /\ watcher' = "waiting"
  /\ UNCHANGED <<log, lines, cuts, known, heard>>

OpenLog ==
  /\ watcher = "waiting"
  /\ watcher' = "reading"
  /\ UNCHANGED <<log, lines, cuts, known, offset, heard>>

ReadLine ==
  /\ watcher = "reading"
  /\ offset < Len(log)
  /\ Complete(offset + 1)
  /\ LET line == log[offset + 1]
     IN  /\ heard' = IF line.addr \in known THEN [heard EXCEPT ![line.addr] = line.n] ELSE heard
         /\ offset' = offset + (IF line.part = "whole" THEN 1 ELSE 2)
  /\ UNCHANGED <<log, lines, cuts, watcher, known>>

(* What the pattern does not match: the rest of a line, or a line into     *)
(* which an offset kept from before a cut points.                          *)
ReadFragment ==
  /\ watcher = "reading"
  /\ offset < Len(log)
  /\ log[offset + 1].part = "rest" \/ cuts > 0
  /\ offset' = offset + 1
  /\ UNCHANGED <<log, lines, cuts, watcher, known, heard>>

(* The scanner takes what it has at the end of the file for a line, and    *)
(* the offset moves behind it.                                             *)
ReadHalf ==
  /\ watcher = "reading"
  /\ offset + 1 = Len(log)
  /\ log[offset + 1].part = "head"
  /\ offset' = offset + 1
  /\ watcher' = "waiting"
  /\ UNCHANGED <<log, lines, cuts, known, heard>>

(* Mutant: the offset is the size of the file, not the place reached.      *)
CloseLog_AtSize ==
  /\ watcher = "reading"
  /\ offset' = Len(log)
  /\ watcher' = "waiting"
  /\ UNCHANGED <<log, lines, cuts, known, heard>>

(* The end of the file, which an offset from before a cut may lie behind.  *)
CloseLog ==
  /\ watcher = "reading"
  /\ offset >= Len(log)
  /\ watcher' = "waiting"
  /\ UNCHANGED <<log, lines, cuts, known, offset, heard>>

Watch ==
  \/ LoadTagMap \/ ScanLog \/ StartTail
  \/ OpenLog \/ ReadLine \/ ReadFragment \/ ReadHalf \/ CloseLog

Next ==
  \/ \E a \in Addrs, part \in {"whole", "head"} : WriteLine(a, part)
  \/ WriteRest \/ Cut
  \/ Watch

(* The watcher's goroutine never stops; xray and logrotate owe nothing.    *)
Spec == Init /\ [][Next]_vars /\ WF_vars(Watch)

-----------------------------------------------------------------------------
(* The watcher acts on no line twice and on none after a newer one about   *)
(* the same address, whatever is appended between the scan, the size the   *)
(* tail starts from and each of its reads, and however often the file is   *)
(* cut: what lies ahead of the offset is newer than what was acted on. A   *)
(* line acted on again would undo what a subscription check or a later     *)
(* line said since (observatory.go:105, 121, 141, 169).                    *)
NothingTwice ==
  watcher \in {"waiting", "reading"} =>
    \A i \in offset + 1 .. Len(log) :
      Complete(i) /\ log[i].addr \in known => log[i].n > heard[log[i].addr]

(* As long as the file is not cut, the watcher passes over no line that    *)
(* was written in one piece: a line a step leaves behind has been acted    *)
(* on, or a newer one about its address has. The one exception is the      *)
(* start of the tail, which skips what was written since the scan read the *)
(* file; a line missed there is missed until the outbound changes again    *)
(* (observatory.go:105, 121, 143-170).                                     *)
LeftBehind(i) ==
  \/ watcher = "scanned"
  \/ watcher \in {"waiting", "reading"} /\ i <= offset

NothingPassedOver ==
  [][cuts' = 0 /\ watcher # "scanned" =>
       \A i \in DOMAIN log :
         LeftBehind(i)' /\ ~LeftBehind(i) /\ log[i].part = "whole" /\ log[i].addr \in known
           => heard'[log[i].addr] >= log[i].n]_vars

(* As long as the file is not cut, a line written in one piece after the   *)
(* tail has started is acted on, or a newer one about its address is, also *)
(* when it is appended while the scanner reads or after a half line it has *)
(* used up (observatory.go:143-170).                                       *)
Ahead(a, n) ==
  /\ watcher \in {"waiting", "reading"}
  /\ a \in known
  /\ \E i \in offset + 1 .. Len(log) : log[i] = Piece(n, a, "whole")

LineHeard ==
  [](cuts = 0) => \A a \in Tagged, n \in 1 .. MaxLines : Ahead(a, n) ~> heard[a] >= n
=============================================================================
