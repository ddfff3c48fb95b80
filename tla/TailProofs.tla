----------------------------- MODULE TailProofs -----------------------------
(***************************************************************************)
(* The watcher acts on nothing twice and on nothing out of order, for any  *)
(* addresses, lines and cuts of the file.                                  *)
(***************************************************************************)
EXTENDS ObservatoryTail, WellFoundedInduction, TLAPS

Tailing == watcher \in {"waiting", "reading"}

(* Every line begun after another has a larger number; what begins no line *)
(* is the rest of one.                                                     *)
Ordered ==
  \A i, j \in DOMAIN log : i < j /\ log[j].part # "rest" => log[i].n < log[j].n

Past ==
  /\ \A i \in DOMAIN log : log[i].n <= lines
  /\ \A a \in Addrs : heard[a] <= lines

(* A line takes two pieces at most, the half of one counting for both.     *)
Short == Len(log) + (IF HalfWritten THEN 1 ELSE 0) <= 2 * lines

(* NothingTwice of half lines as well, which are complete before long.     *)
AheadIsNew ==
  Tailing =>
    \A i \in DOMAIN log :
      i > offset /\ log[i].part # "rest" /\ log[i].addr \in known
        => log[i].n > heard[log[i].addr]

IInv == TypeOK /\ Ordered /\ Past /\ Short /\ AheadIsNew

-----------------------------------------------------------------------------
LEMMA MinExists ==
  ASSUME NEW T, T \subseteq Nat, T # {}
  PROVE  \E x \in T : \A y \in T : x <= y
<1> DEFINE R == {ss \in Nat \X Nat : ss[1] < ss[2]}
<1>1. IsWellFoundedOn(R, Nat)
  BY NatLessThanWellFounded DEF OpToRel
<1>2. \A x, y \in Nat : y < x => <<y, x>> \in R
  OBVIOUS
<1> HIDE DEF R
<1>3. PICK x \in T : \A y \in T : ~ (<<y, x>> \in R)
  BY <1>1, WFMin
<1>4. \A y \in T : ~ (y < x)
  BY <1>2, <1>3
<1> QED BY <1>4

(* A bounded set of numbers has a largest: the least of its bounds.        *)
LEMMA MaxOf ==
  ASSUME NEW S, NEW m \in Nat, S \subseteq 0 .. m, S # {}
  PROVE  Max(S) \in S /\ \A y \in S : Max(S) >= y
<1> DEFINE T == {b \in Nat : \A y \in S : b >= y}
<1>1. m \in T
  OBVIOUS
<1>2. PICK b \in T : \A c \in T : b <= c
  <2> HIDE DEF T
  <2>1. T \subseteq Nat
    BY DEF T
  <2> QED BY <1>1, <2>1, MinExists
<1>3. b \in S
  <2> SUFFICES ASSUME b \notin S PROVE FALSE
    OBVIOUS
  <2>1. PICK y \in S : TRUE
    OBVIOUS
  <2>2. b > y
    BY <1>2
  <2>3. b - 1 \in T
    BY <1>2, <2>2
  <2> QED BY <1>2, <2>3
<1>4. \A y \in S : b >= y
  BY <1>2
<1> QED BY <1>3, <1>4 DEF Max

-----------------------------------------------------------------------------
LEMMA Initially == Init => IInv
BY TailAssumption DEF Init, IInv, TypeOK, Ordered, Past, Short, AheadIsNew, Tailing,
  HalfWritten, Pieces

LEMMA PieceFields ==
  ASSUME TypeOK, NEW i \in DOMAIN log
  PROVE  /\ log[i] \in Pieces /\ log[i].n \in 1 .. MaxLines /\ log[i].addr \in Addrs
         /\ log[i].part \in {"whole", "head", "rest"}
<1>1. log[i] \in Pieces
  BY DEF TypeOK
<1> QED BY <1>1 DEF Pieces

LEMMA Types ==
  ASSUME TypeOK
  PROVE  /\ log \in Seq(Pieces) /\ DOMAIN log = 1 .. Len(log) /\ Len(log) \in Nat
         /\ {lines, offset} \subseteq Nat /\ lines <= MaxLines
         /\ heard \in [Addrs -> Nat] /\ known \subseteq Addrs
         /\ MaxLines \in Nat
BY TailAssumption DEF TypeOK

(* A piece is put at the end.                                              *)
LEMMA Appended ==
  ASSUME TypeOK, NEW p \in Pieces, log' = Append(log, p)
  PROVE  /\ log' \in Seq(Pieces) /\ Len(log') = Len(log) + 1
         /\ DOMAIN log' = 1 .. Len(log) + 1 /\ DOMAIN log = 1 .. Len(log)
         /\ \A i \in DOMAIN log : log'[i] = log[i]
         /\ log'[Len(log) + 1] = p
BY DEF TypeOK

LEMMA WriteLineStep ==
  ASSUME IInv, NEW a \in Addrs, NEW part \in {"whole", "head"}, WriteLine(a, part)
  PROVE  IInv'
<1> DEFINE p == Piece(lines + 1, a, part)
<1> USE DEF IInv
<1>1. p \in Pieces /\ p.n = lines + 1 /\ p.part = part /\ p.addr = a
  BY Types DEF WriteLine, Piece, Pieces
<1>2. /\ lines' = lines + 1 /\ lines < MaxLines /\ log' = Append(log, p)
      /\ ~HalfWritten /\ UNCHANGED <<cuts, watcher, known, offset, heard>>
  BY DEF WriteLine
<1> HIDE DEF p
<1>3. /\ log' \in Seq(Pieces) /\ Len(log') = Len(log) + 1
      /\ DOMAIN log' = 1 .. Len(log) + 1 /\ DOMAIN log = 1 .. Len(log)
      /\ \A i \in DOMAIN log : log'[i] = log[i]
      /\ log'[Len(log) + 1] = p
  BY <1>1, <1>2, Appended
<1>4. Short'
  BY <1>1, <1>2, <1>3, Types DEF Short, HalfWritten
<1>5. TypeOK'
  BY <1>2, <1>3, <1>4, Types DEF TypeOK, Short
<1>6. Ordered'
  <2> SUFFICES ASSUME NEW i \in DOMAIN log', NEW j \in DOMAIN log', i < j, log'[j].part # "rest"
               PROVE  log'[i].n < log'[j].n
    BY DEF Ordered
  <2>1. CASE j \in DOMAIN log
    BY <1>3, <2>1 DEF Ordered
  <2>2. CASE j = Len(log) + 1
    BY <1>1, <1>3, <2>2, PieceFields, Types DEF Past
  <2> QED BY <1>3, <2>1, <2>2, Types
<1>7. Past'
  BY <1>1, <1>2, <1>3, PieceFields, Types DEF Past
<1>8. AheadIsNew'
  <2> SUFFICES ASSUME Tailing, NEW i \in DOMAIN log', i > offset, log'[i].part # "rest",
                      log'[i].addr \in known
               PROVE  log'[i].n > heard[log'[i].addr]
    BY <1>2 DEF AheadIsNew, Tailing
  <2>1. CASE i \in DOMAIN log
    BY <1>3, <2>1 DEF AheadIsNew
  <2>2. CASE i = Len(log) + 1
    BY <1>1, <1>3, <2>2, Types DEF Past
  <2> QED BY <1>3, <2>1, <2>2, Types
<1> QED BY <1>4, <1>5, <1>6, <1>7, <1>8

LEMMA WriteRestStep ==
  ASSUME IInv, WriteRest
  PROVE  IInv'
<1> DEFINE p == [log[Len(log)] EXCEPT !.part = "rest"]
<1> USE DEF IInv
<1>0. Len(log) \in DOMAIN log /\ HalfWritten
  BY Types DEF WriteRest, HalfWritten
<1>1. p \in Pieces /\ p.n = log[Len(log)].n /\ p.part = "rest" /\ p.n <= lines
  BY <1>0, PieceFields DEF Pieces, Past
<1>2. log' = Append(log, p) /\ UNCHANGED <<lines, cuts, watcher, known, offset, heard>>
  BY DEF WriteRest
<1> HIDE DEF p
<1>3. /\ log' \in Seq(Pieces) /\ Len(log') = Len(log) + 1
      /\ DOMAIN log' = 1 .. Len(log) + 1 /\ DOMAIN log = 1 .. Len(log)
      /\ \A i \in DOMAIN log : log'[i] = log[i]
      /\ log'[Len(log) + 1] = p
  BY <1>1, <1>2, Appended
<1>4. Short'
  BY <1>0, <1>1, <1>2, <1>3, Types DEF Short, HalfWritten
<1>5. TypeOK'
  BY <1>2, <1>3, <1>4, Types DEF TypeOK, Short
<1>6. Ordered'
  BY <1>1, <1>3, Types DEF Ordered
<1>7. Past'
  BY <1>1, <1>2, <1>3, Types DEF Past
<1>8. AheadIsNew'
  BY <1>1, <1>2, <1>3, Types DEF AheadIsNew, Tailing
<1> QED BY <1>4, <1>5, <1>6, <1>7, <1>8

LEMMA CutStep ==
  ASSUME IInv, Cut
  PROVE  IInv'
<1>1. log' = << >> /\ UNCHANGED <<lines, watcher, known, offset, heard>>
  BY DEF Cut
<1>2. log' \in Seq(Pieces) /\ Len(log') = 0 /\ DOMAIN log' = {}
  BY <1>1
<1>3. cuts' \in 0 .. MaxCuts
  BY TailAssumption DEF IInv, Cut, TypeOK
<1>4. TypeOK'
  BY <1>1, <1>2, <1>3, Types DEF IInv, TypeOK
<1>5. Ordered' /\ Past' /\ AheadIsNew'
  BY <1>1, <1>2 DEF IInv, Ordered, Past, AheadIsNew
<1>6. Short'
  BY <1>1, <1>2, Types DEF IInv, Short, HalfWritten
<1> QED BY <1>4, <1>5, <1>6 DEF IInv

-----------------------------------------------------------------------------
(* What the watcher does leaves the file alone.                            *)
LEMMA FileUnchanged ==
  ASSUME IInv, UNCHANGED <<log, lines, cuts>>, TypeOK', AheadIsNew',
         \A a \in Addrs : heard'[a] <= lines
  PROVE  IInv'
BY DEF IInv, Ordered, Past, Short, HalfWritten

LEMMA LoadStep ==
  ASSUME IInv, LoadTagMap
  PROVE  IInv'
<1>1. TypeOK' /\ AheadIsNew'
  BY DEF IInv, LoadTagMap, TypeOK, AheadIsNew, Tailing
<1> QED BY <1>1, FileUnchanged DEF IInv, LoadTagMap, Past

LEMMA ScanStep ==
  ASSUME IInv, ScanLog
  PROVE  IInv'
<1> DEFINE found(a) == {0} \cup {log[i].n : i \in {j \in DOMAIN log :
                          log[j].addr = a /\ a \in known /\ Complete(j)}}
<1>1. ASSUME NEW a \in Addrs
      PROVE  heard'[a] \in 0 .. lines
  <2>1. heard'[a] = Max(found(a))
    BY <1>1 DEF ScanLog
  <2>2. found(a) \subseteq 0 .. lines
    <3> SUFFICES ASSUME NEW i \in DOMAIN log PROVE log[i].n \in 0 .. lines
      BY Types DEF IInv
    <3> QED BY PieceFields, Types DEF IInv, Past
  <2> HIDE DEF found
  <2>3. found(a) # {}
    BY DEF found
  <2> QED BY <2>1, <2>2, <2>3, MaxOf, Types DEF IInv
<1> HIDE DEF found
<1>2. heard' \in [Addrs -> 0 .. MaxLines]
  <2>1. heard' = [a \in Addrs |-> heard'[a]]
    BY DEF ScanLog
  <2>2. \A a \in Addrs : heard'[a] \in 0 .. MaxLines
    BY <1>1, Types DEF IInv
  <2> HIDE DEF ScanLog
  <2> QED BY <2>1, <2>2
<1>3. TypeOK' /\ AheadIsNew'
  BY <1>2 DEF IInv, ScanLog, TypeOK, AheadIsNew, Tailing
<1>4. UNCHANGED <<log, lines, cuts>>
  BY DEF ScanLog
<1> QED BY <1>1, <1>3, <1>4, FileUnchanged, Types DEF IInv

LEMMA StartStep ==
  ASSUME IInv, StartTail
  PROVE  IInv'
<1>1. TypeOK'
  BY Types DEF IInv, StartTail, TypeOK
<1>2. AheadIsNew'
  BY Types DEF IInv, StartTail, AheadIsNew
<1> QED BY <1>1, <1>2, FileUnchanged DEF IInv, StartTail, Past

LEMMA ReadLineStep ==
  ASSUME IInv, ReadLine
  PROVE  IInv'
<1> DEFINE i == offset + 1
           line == log[i]
<1> USE DEF IInv
<1>1. i \in DOMAIN log /\ Complete(i) /\ watcher = "reading"
  BY Types DEF ReadLine
<1>2. /\ line \in Pieces /\ line.n \in 1 .. MaxLines /\ line.addr \in Addrs
      /\ line.n <= lines /\ line.part # "rest"
  BY <1>1, PieceFields DEF Past, Complete
<1>3. /\ heard' = IF line.addr \in known THEN [heard EXCEPT ![line.addr] = line.n] ELSE heard
      /\ offset' = offset + (IF line.part = "whole" THEN 1 ELSE 2)
      /\ UNCHANGED <<log, lines, cuts, watcher, known>>
  BY DEF ReadLine
<1>4. offset' \in offset + 1 .. Len(log)
  BY <1>1, <1>3, Types DEF Complete
<1> HIDE DEF line
<1>5. heard' \in [Addrs -> 0 .. MaxLines] /\ \A a \in Addrs : heard'[a] <= lines
  BY <1>2, <1>3, Types DEF TypeOK, Past
<1>6. TypeOK'
  BY <1>3, <1>4, <1>5, Types DEF TypeOK
<1>7. AheadIsNew'
  <2> SUFFICES ASSUME NEW j \in DOMAIN log, j > offset', log[j].part # "rest",
                      log[j].addr \in known
               PROVE  log[j].n > heard'[log[j].addr]
    BY <1>3 DEF AheadIsNew
  <2>1. j > i /\ j > offset
    BY <1>4, Types
  <2>2. log[j].n > line.n
    BY <1>1, <2>1, PieceFields, Types DEF Ordered, line
  <2>3. log[j].n > heard[log[j].addr]
    BY <1>1, <2>1 DEF AheadIsNew, Tailing
  <2>4. log[j].addr \in Addrs
    BY PieceFields
  <2> QED BY <1>2, <1>3, <2>2, <2>3, <2>4, Types
<1> QED BY <1>3, <1>5, <1>6, <1>7, FileUnchanged

(* The watcher's other steps only move the offset, forward.                *)
LEMMA OffsetStep ==
  ASSUME IInv, OpenLog \/ ReadFragment \/ ReadHalf \/ CloseLog
  PROVE  IInv'
<1>1. /\ watcher \in {"waiting", "reading"} /\ watcher' \in {"waiting", "reading"}
      /\ UNCHANGED <<log, lines, cuts, known, heard>>
  BY DEF OpenLog, ReadFragment, ReadHalf, CloseLog
<1>2. offset' = offset \/ (offset' = offset + 1 /\ offset < Len(log))
  BY Types DEF IInv, OpenLog, ReadFragment, ReadHalf, CloseLog
<1>3. TypeOK'
  BY <1>1, <1>2, Types DEF IInv, TypeOK
<1>4. AheadIsNew'
  BY <1>1, <1>2, Types DEF IInv, AheadIsNew, Tailing
<1> QED BY <1>1, <1>3, <1>4, FileUnchanged DEF IInv, Past

-----------------------------------------------------------------------------
LEMMA Inductive == IInv /\ [Next]_vars => IInv'
<1> SUFFICES ASSUME IInv, [Next]_vars PROVE IInv'
  OBVIOUS
<1>1. ASSUME NEW a \in Addrs, NEW part \in {"whole", "head"}, WriteLine(a, part)
      PROVE  IInv'
  BY <1>1, WriteLineStep
<1>2. CASE WriteRest
  BY <1>2, WriteRestStep
<1>3. CASE Cut
  BY <1>3, CutStep
<1>4. CASE LoadTagMap
  BY <1>4, LoadStep
<1>5. CASE ScanLog
  BY <1>5, ScanStep
<1>6. CASE StartTail
  BY <1>6, StartStep
<1>7. CASE ReadLine
  BY <1>7, ReadLineStep
<1>8. CASE OpenLog \/ ReadFragment \/ ReadHalf \/ CloseLog
  BY <1>8, OffsetStep
<1>9. CASE UNCHANGED vars
  BY <1>9 DEF vars, IInv, TypeOK, Ordered, Past, Short, HalfWritten, AheadIsNew, Tailing
<1> QED BY <1>1, <1>2, <1>3, <1>4, <1>5, <1>6, <1>7, <1>8, <1>9 DEF Next, Watch

LEMMA Enough == IInv => NothingTwice
<1> SUFFICES ASSUME IInv, Tailing, NEW i \in offset + 1 .. Len(log), Complete(i),
                    log[i].addr \in known
             PROVE  log[i].n > heard[log[i].addr]
  BY DEF NothingTwice, Tailing
<1>1. i \in DOMAIN log /\ i > offset
  BY Types DEF IInv
<1>2. log[i].part # "rest"
  BY DEF Complete
<1> QED BY <1>1, <1>2 DEF IInv, AheadIsNew

(* Every variable of the watcher and the file keeps its type: offsets and  *)
(* numbers stay within what xray has written.                              *)
THEOREM TypeCorrect == Spec => []TypeOK
<1>1. IInv => TypeOK
  BY DEF IInv
<1> QED BY <1>1, Initially, Inductive, PTL DEF Spec

(* No line of the log is acted on twice, or after a newer one about the    *)
(* same address, wherever the scan, the tail and the cuts fall             *)
(* (observatory.go:113-170).                                               *)
THEOREM ActsOnce == Spec => []NothingTwice
BY Initially, Inductive, Enough, PTL DEF Spec


-----------------------------------------------------------------------------
(* The second half of a line comes right after the first.                  *)
HeadsEnd ==
  \A i \in DOMAIN log : log[i].part = "head" /\ i + 1 \in DOMAIN log => log[i + 1].part = "rest"

LEMMA HeadsInit == Init => HeadsEnd
BY DEF Init, HeadsEnd

LEMMA HeadsKept ==
  ASSUME IInv, HeadsEnd, [Next]_vars
  PROVE  HeadsEnd'
<1> DEFINE end == Len(log)
<1>1. CASE UNCHANGED log
  BY <1>1 DEF HeadsEnd
<1>2. CASE Cut
  <2>1. log' = << >> /\ DOMAIN log' = {}
    BY <1>2 DEF Cut
  <2>2. QED
    BY <2>1 DEF HeadsEnd
<1>3. ASSUME NEW p \in Pieces, log' = Append(log, p), HalfWritten => p.part = "rest"
      PROVE  HeadsEnd'
  <2>1. /\ DOMAIN log' = 1 .. end + 1 /\ DOMAIN log = 1 .. end /\ end \in Nat
        /\ \A i \in 1 .. end : log'[i] = log[i]
        /\ log'[end + 1] = p
    BY <1>3, Appended, Types DEF IInv
  <2>2. end # 0 /\ log[end].part = "head" => p.part = "rest"
    BY <1>3 DEF HalfWritten, IInv, TypeOK
  <2> HIDE DEF end
  <2>3. ASSUME NEW i \in DOMAIN log', log'[i].part = "head", i + 1 \in DOMAIN log'
        PROVE  log'[i + 1].part = "rest"
    <3>1. i \in 1 .. end /\ log[i].part = "head"
      BY <2>1, <2>3
    <3>2. CASE i = end
      BY <2>1, <2>2, <3>1, <3>2
    <3>3. CASE i # end
      <4>1. PICK j \in 1 .. end : j = i + 1
        BY <2>1, <3>1, <3>3
      <4>2. log'[j] = log[j] /\ log[j].part = "rest"
        BY <2>1, <3>1, <4>1 DEF HeadsEnd
      <4>3. QED
        BY <4>1, <4>2
    <3>4. QED
      BY <3>2, <3>3
  <2>4. QED
    BY <2>3 DEF HeadsEnd
<1>4. ASSUME NEW a \in Addrs, NEW part \in {"whole", "head"}, WriteLine(a, part)
      PROVE  HeadsEnd'
  <2>1. PICK p : p = Piece(lines + 1, a, part)
    OBVIOUS
  <2>2. p \in Pieces
    BY <1>4, <2>1, Types DEF IInv, WriteLine, Piece, Pieces
  <2>3. QED
    BY <1>3, <1>4, <2>1, <2>2 DEF WriteLine
<1>5. CASE WriteRest
  <2>1. PICK p : p = [log[Len(log)] EXCEPT !.part = "rest"]
    OBVIOUS
  <2>2. Len(log) \in DOMAIN log
    BY <1>5, Types DEF IInv, WriteRest, HalfWritten
  <2>3. p \in Pieces /\ p.part = "rest"
    BY <2>1, <2>2, PieceFields DEF IInv, Pieces
  <2>4. QED
    BY <1>3, <1>5, <2>1, <2>3 DEF WriteRest
<1>6. QED
  BY <1>1, <1>2, <1>4, <1>5 DEF Next, Watch, vars, LoadTagMap, ScanLog, StartTail, OpenLog,
     ReadLine, ReadFragment, ReadHalf, CloseLog

(* What a step leaves behind that was not behind before.                   *)
Passed(i) == LeftBehind(i)' /\ ~LeftBehind(i)

LEMMA ScanHears ==
  ASSUME IInv, ScanLog, NEW i \in DOMAIN log, log[i].part = "whole", log[i].addr \in known
  PROVE  heard'[log[i].addr] >= log[i].n
<1> DEFINE S == {0} \cup {log[k].n : k \in {j \in DOMAIN log :
                    log[j].addr = log[i].addr /\ log[i].addr \in known /\ Complete(j)}}
<1>1. log[i].addr \in Addrs /\ log[i].n \in S
  BY PieceFields DEF IInv, Complete
<1>2. heard'[log[i].addr] = Max(S)
  BY <1>1 DEF ScanLog
<1>3. S \subseteq 0 .. MaxLines
  <2> SUFFICES ASSUME NEW j \in DOMAIN log PROVE log[j].n \in 0 .. MaxLines
    BY Types DEF IInv
  <2> QED BY PieceFields DEF IInv
<1> HIDE DEF S
<1>4. Max(S) >= log[i].n
  BY <1>1, <1>3, MaxOf, Types DEF IInv
<1> QED BY <1>2, <1>4

LEMMA ReadHears ==
  ASSUME IInv, HeadsEnd, ReadLine,
         NEW i \in DOMAIN log, log[i].part = "whole", log[i].addr \in known, Passed(i)
  PROVE  heard'[log[i].addr] >= log[i].n
<1>1. PICK k \in DOMAIN log : k = offset + 1 /\ Complete(k)
  BY Types DEF IInv, ReadLine
<1>2. i > offset /\ i <= offset + 2 /\ (i = offset + 2 => log[k].part # "whole")
  BY <1>1, Types DEF IInv, ReadLine, Passed, LeftBehind
<1>3. i = k
  <2>1. SUFFICES ASSUME i # k PROVE FALSE
    OBVIOUS
  <2>2. i = k + 1
    BY <1>1, <1>2, <2>1, Types DEF IInv
  <2>3. log[k].part = "head"
    <3>1. i = offset + 2
      BY <1>1, <2>2, Types DEF IInv
    <3>2. Complete(k) /\ log[k].part # "whole"
      BY <1>1, <1>2, <3>1
    <3> QED BY <3>2 DEF Complete
  <2>4. log[i].part = "rest"
    BY <2>2, <2>3 DEF HeadsEnd
  <2>5. QED
    BY <2>4
<1>4. log[i].addr \in Addrs /\ log[i].n \in Nat
  BY PieceFields DEF IInv
<1>5. heard' = [heard EXCEPT ![log[i].addr] = log[i].n]
  BY <1>1, <1>3 DEF ReadLine
<1> QED BY <1>4, <1>5, Types DEF IInv

LEMMA Hears ==
  ASSUME IInv, HeadsEnd, [Next]_vars, cuts' = 0, watcher # "scanned",
         NEW i \in DOMAIN log, Passed(i), log[i].part = "whole", log[i].addr \in known
  PROVE  heard'[log[i].addr] >= log[i].n
<1>1. ~Cut
  <2>1. cuts \in Nat
    BY TailAssumption DEF IInv, TypeOK
  <2> QED BY <2>1 DEF Cut
<1>2. cuts' = cuts \/ Cut
  BY DEF Next, Watch, WriteLine, WriteRest, LoadTagMap, ScanLog, StartTail, OpenLog,
     ReadLine, ReadFragment, ReadHalf, CloseLog, vars
<1>3. CASE ScanLog
  BY <1>3, ScanHears
<1>4. CASE ReadLine
  BY <1>4, ReadHears
<1>5. CASE ReadFragment \/ ReadHalf
  <2>1. i = offset + 1
    BY <1>5, Types DEF IInv, ReadFragment, ReadHalf, Passed, LeftBehind
  <2>2. log[offset + 1].part \in {"rest", "head"}
    BY <1>1, <1>2, <1>5 DEF ReadFragment, ReadHalf
  <2> QED BY <2>1, <2>2
<1>6. CASE UNCHANGED <<watcher, offset>>
  BY <1>6 DEF Passed, LeftBehind
<1>7. CASE LoadTagMap \/ OpenLog \/ CloseLog \/ StartTail
  BY <1>7 DEF Passed, LeftBehind, LoadTagMap, OpenLog, CloseLog, StartTail
<1> QED BY <1>1, <1>3, <1>4, <1>5, <1>6, <1>7 DEF Next, Watch, WriteLine, WriteRest, vars

(* As long as the file is not cut, every line written in one piece that    *)
(* the scan or a read of the tail leaves behind has been acted on, or a    *)
(* newer one about its address has: lines are missed between the scan and  *)
(* the start of the tail only (observatory.go:105, 121, 143-170).          *)
THEOREM PassesOverNothing == Spec => NothingPassedOver
<1>1. IInv /\ HeadsEnd /\ [Next]_vars => IInv' /\ HeadsEnd'
  BY Inductive, HeadsKept
<1>2. IInv /\ HeadsEnd /\ [Next]_vars =>
        [cuts' = 0 /\ watcher # "scanned" =>
           \A i \in DOMAIN log :
             LeftBehind(i)' /\ ~LeftBehind(i) /\ log[i].part = "whole" /\ log[i].addr \in known
               => heard'[log[i].addr] >= log[i].n]_vars
  BY Hears DEF Passed
<1> QED BY Initially, HeadsInit, <1>1, <1>2, PTL DEF Spec, NothingPassedOver
=============================================================================
