---------------------------- MODULE ProxyProofs ----------------------------
(***************************************************************************)
(* What holds of every connection, for any set of them, any backends,      *)
(* requests and lists, and with or without an admin server.                *)
(***************************************************************************)
EXTENDS ProxyConn, SequenceTheorems, FiniteSetTheorems, TLAPS

-----------------------------------------------------------------------------
(* The header that is written is the one that is read, for any user id,    *)
(* addon and target whose lengths fit in a byte; and what the dump has     *)
(* room for does.                                                          *)

(* A stretch of a wire that agrees with t everywhere is t.                 *)
LEMMA Piece ==
  ASSUME NEW S, NEW t \in Seq(S), NEW wire, NEW k \in Nat,
         \A i \in 1 .. Len(t) : wire[k + i] = t[i]
  PROVE  SubSeq(wire, k + 1, k + Len(t)) = t
<1> DEFINE piece == SubSeq(wire, k + 1, k + Len(t))
<1>1. Len(t) \in Nat
  BY LenProperties
<1>2. \A i \in k + 1 .. k + Len(t) : wire[i] \in S
  <2>1. SUFFICES ASSUME NEW i \in k + 1 .. k + Len(t)
                 PROVE  wire[i] \in S
    OBVIOUS
  <2>2. i - k \in 1 .. Len(t) /\ i = k + (i - k)
    BY <1>1
  <2>3. wire[i] = t[i - k]
    BY <2>2
  <2>4. QED
    BY <2>2, <2>3, ElementOfSeq
<1>3. /\ piece \in Seq(S)
      /\ Len(piece) = IF k + 1 <= k + Len(t) THEN (k + Len(t)) - (k + 1) + 1 ELSE 0
      /\ \A i \in 1 .. (k + Len(t)) - (k + 1) + 1 : piece[i] = wire[(k + 1) + i - 1]
  BY <1>1, <1>2, SubSeqProperties
<1>4. Len(piece) = Len(t)
  BY <1>1, <1>3
<1>5. \A i \in 1 .. Len(t) : piece[i] = t[i]
  <2>1. SUFFICES ASSUME NEW i \in 1 .. Len(t)
                 PROVE  piece[i] = t[i]
    OBVIOUS
  <2>2. piece[i] = wire[k + i]
    BY <1>1, <1>3
  <2>3. QED
    BY <2>2
<1>6. QED
  BY <1>3, <1>4, <1>5, SeqEqual

LEMMA ShortByte ==
  ASSUME NEW k \in Nat, k < ByteValues
  PROVE  Byte(k) = k
BY DEF Byte, ByteValues

LEMMA ByteIsNat ==
  ASSUME NEW k \in Nat
  PROVE  Byte(k) \in Nat
BY DEF Byte, ByteValues

(* Both parts of a wire stay what they are.                                *)
LEMMA Joined ==
  ASSUME NEW S, NEW s \in Seq(S), NEW t \in Seq(S)
  PROVE  /\ s \o t \in Seq(S) /\ Len(s \o t) = Len(s) + Len(t)
         /\ \A i \in 1 .. Len(s) : (s \o t)[i] = s[i]
         /\ \A i \in 1 .. Len(t) : (s \o t)[Len(s) + i] = t[i]
<1>1. Len(s) \in Nat /\ Len(t) \in Nat
  BY LenProperties
<1>2. /\ s \o t \in Seq(S) /\ Len(s \o t) = Len(s) + Len(t)
      /\ \A i \in 1 .. Len(s) + Len(t) :
           (s \o t)[i] = IF i <= Len(s) THEN s[i] ELSE t[i - Len(s)]
  BY ConcatProperties
<1>3. \A i \in 1 .. Len(s) : (s \o t)[i] = s[i]
  BY <1>1, <1>2
<1>4. ASSUME NEW i \in 1 .. Len(t)
      PROVE  (s \o t)[Len(s) + i] = t[i]
  <2>1. /\ Len(s) + i \in 1 .. Len(s) + Len(t)
        /\ ~(Len(s) + i <= Len(s)) /\ (Len(s) + i) - Len(s) = i
    BY <1>1
  <2>2. QED
    BY <1>2, <2>1
<1>5. QED
  BY <1>2, <1>3, <1>4

(* Where the pieces of a written header are: n and a are the lengths of    *)
(* addon and address, and d that of the byte that says how long a domain   *)
(* is.                                                                     *)
DomainByte(target) == IF target.atyp = Domain THEN 1 ELSE 0

Laid(wire, uuid, addon, target, n, d, a) ==
  /\ Len(wire) = 6 + n + d + a
  /\ wire[1] = 0 /\ wire[2] = uuid /\ wire[3] = Byte(n)
  /\ \A i \in 1 .. n : wire[3 + i] = addon[i]
  /\ wire[4 + n] = target.cmd /\ wire[5 + n] = target.port /\ wire[6 + n] = target.atyp
  /\ d = 1 => wire[7 + n] = Byte(a)
  /\ \A i \in 1 .. a : wire[6 + n + d + i] = target.addr[i]

LEMMA Layout ==
  ASSUME NEW S, Nat \subseteq S, NEW uuid \in S, NEW addon \in Seq(Nat),
         NEW target \in Requests
  PROVE  /\ WriteHeader(Header(uuid, addon, target)) \in Seq(S)
         /\ Laid(WriteHeader(Header(uuid, addon, target)), uuid, addon, target,
                 Len(addon), DomainByte(target), Len(target.addr))
<1> DEFINE n == Len(addon)
           addr == target.addr
           d == DomainByte(target)
           p1 == <<0, uuid, Byte(n)>>
           p3 == <<target.cmd, target.port, target.atyp>>
           p4 == IF target.atyp = Domain THEN <<Byte(Len(addr))>> ELSE <<>>
           wire == WriteHeader(Header(uuid, addon, target))
           q2 == p1 \o addon
           q3 == q2 \o p3
           q4 == q3 \o p4
<1>1. /\ addon \in Seq(S) /\ addr \in Seq(S)
      /\ n \in Nat /\ Len(addr) \in Nat
      /\ Byte(n) \in S /\ Byte(Len(addr)) \in S
      /\ d \in Nat /\ d <= 1 /\ d = IF target.atyp = Domain THEN 1 ELSE 0
  <2>1. target.addr \in Seq(Nat)
    BY DEF Requests
  <2>2. addon \in Seq(S) /\ addr \in Seq(S)
    BY <2>1, SeqMonotonic
  <2>3. n \in Nat /\ Len(addr) \in Nat
    BY <2>1, LenProperties
  <2>4. Byte(n) \in Nat /\ Byte(Len(addr)) \in Nat
    BY <2>3, ByteIsNat
  <2>5. QED
    BY <2>2, <2>3, <2>4 DEF DomainByte
<1>2. p1 \in Seq(S) /\ Len(p1) = 3 /\ p1[1] = 0 /\ p1[2] = uuid /\ p1[3] = Byte(n)
  BY <1>1
<1>3. /\ p3 \in Seq(S) /\ Len(p3) = 3
      /\ p3[1] = target.cmd /\ p3[2] = target.port /\ p3[3] = target.atyp
  <2>1. target.cmd \in S /\ target.port \in S /\ target.atyp \in S
    BY DEF Requests, IPv4, Domain, IPv6
  <2>2. QED
    BY <2>1
<1>4. p4 \in Seq(S) /\ Len(p4) = d /\ (d = 1 => p4[1] = Byte(Len(addr)))
  BY <1>1
<1>5. wire = q4 \o addr
  BY DEF WriteHeader, Header, Requests
<1>6. /\ q2 \in Seq(S) /\ Len(q2) = 3 + n
      /\ \A i \in 1 .. 3 : q2[i] = p1[i]
      /\ \A i \in 1 .. n : q2[3 + i] = addon[i]
  <2> HIDE DEF p1
  <2>1. p1 \in Seq(S) /\ addon \in Seq(S)
    BY <1>1, <1>2
  <2>2. /\ q2 \in Seq(S) /\ Len(q2) = Len(p1) + Len(addon)
        /\ \A i \in 1 .. Len(p1) : q2[i] = p1[i]
        /\ \A i \in 1 .. Len(addon) : q2[Len(p1) + i] = addon[i]
    BY <2>1, Joined
  <2>3. QED
    BY <1>2, <2>2
<1> HIDE DEF p1, p3, p4, q2, n, d
<1>7. /\ q3 \in Seq(S) /\ Len(q3) = 6 + n
      /\ \A i \in 1 .. 3 + n : q3[i] = q2[i]
      /\ \A i \in 1 .. 3 : q3[3 + n + i] = p3[i]
  <2>1. q2 \in Seq(S) /\ p3 \in Seq(S)
    BY <1>3, <1>6
  <2>2. /\ q3 \in Seq(S) /\ Len(q3) = Len(q2) + Len(p3)
        /\ \A i \in 1 .. Len(q2) : q3[i] = q2[i]
        /\ \A i \in 1 .. Len(p3) : q3[Len(q2) + i] = p3[i]
    BY <2>1, Joined
  <2>3. QED
    BY <1>1, <1>3, <1>6, <2>2
<1> HIDE DEF q3
<1>8. /\ q4 \in Seq(S) /\ Len(q4) = 6 + n + d
      /\ \A i \in 1 .. 6 + n : q4[i] = q3[i]
      /\ \A i \in 1 .. d : q4[6 + n + i] = p4[i]
  <2>1. q3 \in Seq(S) /\ p4 \in Seq(S)
    BY <1>4, <1>7
  <2>2. /\ q4 \in Seq(S) /\ Len(q4) = Len(q3) + Len(p4)
        /\ \A i \in 1 .. Len(q3) : q4[i] = q3[i]
        /\ \A i \in 1 .. Len(p4) : q4[Len(q3) + i] = p4[i]
    BY <2>1, Joined
  <2>3. QED
    BY <1>1, <1>4, <1>7, <2>2
<1> HIDE DEF q4, wire
<1>9. /\ wire \in Seq(S) /\ Len(wire) = 6 + n + d + Len(addr)
      /\ \A i \in 1 .. 6 + n + d : wire[i] = q4[i]
      /\ \A i \in 1 .. Len(addr) : wire[6 + n + d + i] = addr[i]
  <2>1. q4 \in Seq(S) /\ addr \in Seq(S)
    BY <1>1, <1>8
  <2>2. /\ wire \in Seq(S) /\ Len(wire) = Len(q4) + Len(addr)
        /\ \A i \in 1 .. Len(q4) : wire[i] = q4[i]
        /\ \A i \in 1 .. Len(addr) : wire[Len(q4) + i] = addr[i]
    BY <1>5, <2>1, Joined
  <2>3. QED
    BY <1>1, <1>8, <2>2
<1>10. \A i \in 1 .. 6 + n : wire[i] = q3[i]
  <2>1. \A i \in 1 .. 6 + n : i \in 1 .. 6 + n + d
    BY <1>1
  <2>2. QED
    BY <1>8, <1>9, <2>1
<1>11. \A i \in 1 .. 3 + n : wire[i] = q2[i]
  BY <1>1, <1>7, <1>10
<1>12. wire[1] = 0 /\ wire[2] = uuid /\ wire[3] = Byte(n)
  <2>1. \A i \in 1 .. 3 : wire[i] = p1[i]
    BY <1>1, <1>6, <1>11
  <2>2. wire[1] = p1[1] /\ wire[2] = p1[2] /\ wire[3] = p1[3]
    BY <2>1
  <2>3. QED
    BY <1>2, <2>2
<1>13. \A i \in 1 .. n : wire[3 + i] = addon[i]
  <2>1. SUFFICES ASSUME NEW i \in 1 .. n
                 PROVE  wire[3 + i] = addon[i]
    OBVIOUS
  <2>2. 3 + i \in 1 .. 3 + n
    BY <1>1
  <2>3. QED
    BY <1>6, <1>11, <2>2
<1>14. wire[4 + n] = target.cmd /\ wire[5 + n] = target.port /\ wire[6 + n] = target.atyp
  <2>1. q3[3 + n + 1] = p3[1] /\ q3[3 + n + 2] = p3[2] /\ q3[3 + n + 3] = p3[3]
    BY <1>7
  <2>2. 3 + n + 1 = 4 + n /\ 3 + n + 2 = 5 + n /\ 3 + n + 3 = 6 + n
    BY <1>1
  <2>3. wire[4 + n] = q3[4 + n] /\ wire[5 + n] = q3[5 + n] /\ wire[6 + n] = q3[6 + n]
    BY <1>1, <1>10
  <2>4. QED
    BY <1>3, <2>1, <2>2, <2>3
<1>15. ASSUME d = 1
       PROVE  wire[7 + n] = Byte(Len(addr))
  <2>1. 7 + n \in 1 .. 6 + n + d /\ 1 \in 1 .. d /\ 6 + n + 1 = 7 + n
    BY <1>1, <1>15
  <2>2. wire[7 + n] = q4[7 + n]
    BY <1>9, <2>1
  <2>3. q4[6 + n + 1] = p4[1]
    BY <1>8, <2>1
  <2>4. QED
    BY <1>4, <1>15, <2>1, <2>2, <2>3
<1>16. QED
  BY <1>9, <1>12, <1>13, <1>14, <1>15 DEF wire, n, d, Laid

-----------------------------------------------------------------------------
(* ReadVLESSHeader reads back what WriteVLESSHeader wrote, to the last     *)
(* byte of it, if the two lengths fit in one byte each (vless.go:50-134).  *)
THEOREM RoundTrip ==
  ASSUME NEW S, Nat \subseteq S, NEW uuid \in S, NEW addon \in Seq(Nat),
         NEW target \in Requests,
         Len(addon) < ByteValues, Len(target.addr) < ByteValues
  PROVE  LET wire == WriteHeader(Header(uuid, addon, target))
         IN /\ Readable(wire) /\ Rest(wire) = <<>>
            /\ ReadHeader(wire) = Header(uuid, addon, target)
<1> DEFINE n == Len(addon)
           a == Len(target.addr)
           d == DomainByte(target)
           wire == WriteHeader(Header(uuid, addon, target))
<1>1. target.addr \in Seq(Nat) /\ target.atyp \in {IPv4, Domain, IPv6}
      /\ target = [cmd |-> target.cmd, port |-> target.port, atyp |-> target.atyp,
                   addr |-> target.addr]
  BY DEF Requests
<1>2. n \in Nat /\ a \in Nat /\ Byte(n) = n /\ Byte(a) = a
  <2>1. n \in Nat /\ a \in Nat
    BY <1>1, LenProperties
  <2>2. QED
    BY <2>1, ShortByte
<1>3. d \in Nat /\ d = (IF target.atyp = Domain THEN 1 ELSE 0) /\ d + a >= 1
  <2>1. d \in Nat /\ d = IF target.atyp = Domain THEN 1 ELSE 0
    BY DEF DomainByte
  <2>2. target.atyp = Domain \/ a = 4 \/ a = 16
    BY DEF Requests
  <2> HIDE DEF d, a
  <2>3. QED
    BY <1>2, <2>1, <2>2
<1>4. Laid(wire, uuid, addon, target, n, d, a)
  BY Layout
<1> HIDE DEF wire, n, d, a
<1>5. AddonEnd(wire) = 3 + n
  BY <1>2, <1>4 DEF AddonEnd, Laid
<1>6. AddonEnd(wire) + 1 = 4 + n /\ AddonEnd(wire) + 2 = 5 + n /\ AddonEnd(wire) + 3 = 6 + n
      /\ AddonEnd(wire) + 4 = 7 + n
  BY <1>2, <1>5
<1>7. Atyp(wire) = target.atyp
  BY <1>4, <1>6 DEF Atyp, Laid
<1>8. AddrStart(wire) = 7 + n + d
  BY <1>2, <1>3, <1>5, <1>7 DEF AddrStart
<1>9. AddrLen(wire) = a
  <2>1. CASE target.atyp = IPv4
    BY <1>7, <2>1 DEF AddrLen, a, Requests, IPv4, IPv6, Domain
  <2>2. CASE target.atyp = IPv6
    BY <1>7, <2>2 DEF AddrLen, a, Requests, IPv4, IPv6, Domain
  <2>3. CASE target.atyp = Domain
    <3>1. wire[AddonEnd(wire) + 4] = a
      BY <1>2, <1>3, <1>4, <1>6, <2>3 DEF Laid
    <3>2. QED
      BY <1>7, <2>3, <3>1 DEF AddrLen, IPv4, IPv6, Domain
  <2>4. QED
    BY <1>1, <2>1, <2>2, <2>3
<1>10. Readable(wire)
  <2>1. Len(wire) = 6 + n + d + a /\ wire[1] = 0
    BY <1>4 DEF Laid
  <2>2. Len(wire) >= 3 /\ Len(wire) >= AddonEnd(wire) + 4
    BY <1>2, <1>3, <1>6, <2>1
  <2>3. Len(wire) >= AddrStart(wire) + AddrLen(wire) - 1
    BY <1>2, <1>3, <1>8, <1>9, <2>1
  <2>4. QED
    BY <1>1, <1>7, <2>1, <2>2, <2>3 DEF Readable
<1>11. Rest(wire) = <<>>
  <2>1. Len(wire) = 6 + n + d + a
    BY <1>4 DEF Laid
  <2>2. /\ AddrStart(wire) + AddrLen(wire) \in Int /\ Len(wire) \in Int
        /\ Len(wire) < AddrStart(wire) + AddrLen(wire)
    BY <1>2, <1>3, <1>8, <1>9, <2>1
  <2>3. QED
    BY <2>2, SubSeqEmpty DEF Rest
<1>12. SubSeq(wire, 4, AddonEnd(wire)) = addon
  <2>1. \A i \in 1 .. n : wire[3 + i] = addon[i]
    BY <1>4 DEF Laid
  <2>2. SubSeq(wire, 3 + 1, 3 + n) = addon
    BY <2>1, Piece DEF n
  <2>3. QED
    BY <1>5, <2>2
<1>13. SubSeq(wire, AddrStart(wire), AddrStart(wire) + AddrLen(wire) - 1) = target.addr
  <2> DEFINE k == 6 + n + d
  <2>1. k \in Nat /\ \A i \in 1 .. a : wire[k + i] = target.addr[i]
    BY <1>2, <1>3, <1>4 DEF Laid
  <2>2. AddrStart(wire) = k + 1 /\ AddrStart(wire) + AddrLen(wire) - 1 = k + a
    BY <1>2, <1>3, <1>8, <1>9
  <2> HIDE DEF k
  <2>3. SubSeq(wire, k + 1, k + a) = target.addr
    BY <1>1, <2>1, Piece DEF a
  <2>4. QED
    BY <2>2, <2>3
<1>14. ReadHeader(wire) = Header(uuid, addon, target)
  <2>1. wire[AddonEnd(wire) + 1] = target.cmd /\ wire[AddonEnd(wire) + 2] = target.port
    BY <1>4, <1>6 DEF Laid
  <2>2. wire[2] = uuid
    BY <1>4 DEF Laid
  <2>3. QED
    BY <1>1, <1>7, <1>12, <1>13, <2>1, <2>2 DEF ReadHeader, Header, Target
<1>15. QED
  BY <1>10, <1>11, <1>14 DEF wire

-----------------------------------------------------------------------------
(* The connections.                                                        *)

(* What a connection's stage tells of its sockets, its goroutines and what *)
(* the backend was sent.                                                   *)
Sound(k) ==
  /\ k \in Connections
  /\ k.at \in {"none", "closed"} => ~k.client /\ ~k.backend
  /\ k.at \notin {"none", "closed", "relay"} => k.client
  /\ k.backend => k.at \in {"greet", "relay"}
  /\ k.at = "greet" => k.backend
  /\ k.at # "relay" => k.c2b = "done" /\ k.b2c = "done"
  /\ k.c2b # "done" /\ k.b2c # "done" => k.client /\ k.backend
  /\ k.at \in {"choose", "lookup", "dial", "greet", "relay"} => k.asked \in Targets
  /\ k.at \in {"dial", "greet", "relay"} => k.row \in BackendRows
  /\ k.at = "relay" => DumpFits(Greeting(k)) /\ k.sent = WriteHeader(Greeting(k))

AllSound(f) == f \in [Conns -> Connections] /\ \A c \in Conns : Sound(f[c])

(* How many connections are at one of the given stages.                    *)
InStage(f, stages) == Cardinality({c \in Conns : f[c].at \in stages})

Begun == Counted \cup {"closed"}

Counts ==
  /\ open = InStage(conn, Counted)
  /\ opened \in Nat /\ opened <= InStage(conn, Begun)
  /\ failed \in Nat /\ failed <= InStage(conn, {"closed"})

IInv ==
  /\ active \in Addrs \cup {NoAddr} /\ listed \in Lists /\ running \in BOOLEAN
  /\ AllSound(conn)
  /\ Counts

-----------------------------------------------------------------------------
(* One connection changes.                                                 *)
Only(f, g, c) == \A d \in Conns : d # c => g[d] = f[d]

Becomes(c, k) == conn' = [conn EXCEPT ![c] = k]

LEMMA Update ==
  ASSUME AllSound(conn), NEW c \in Conns, NEW k, Sound(k), Becomes(c, k)
  PROVE  AllSound(conn') /\ Only(conn, conn', c) /\ conn'[c] = k
BY DEF AllSound, Sound, Only, Becomes

LEMMA CountIsNat ==
  ASSUME NEW f, NEW stages
  PROVE  InStage(f, stages) \in Nat /\ InStage(f, stages) <= Cardinality(Conns)
<1> DEFINE there == {c \in Conns : f[c].at \in stages}
<1>1. IsFiniteSet(Conns) /\ there \subseteq Conns
  BY ProxyAssumption
<1> HIDE DEF there
<1>2. IsFiniteSet(there) /\ Cardinality(there) <= Cardinality(Conns)
  BY <1>1, FS_Subset
<1>3. Cardinality(there) \in Nat
  BY <1>2, FS_CardinalityType
<1>4. QED
  BY <1>2, <1>3 DEF there, InStage

(* The number changes by what the connection was and is.                   *)
LEMMA CountSame ==
  ASSUME NEW f, NEW g, NEW c \in Conns, Only(f, g, c),
         NEW stages, f[c].at \in stages <=> g[c].at \in stages
  PROVE  InStage(g, stages) = InStage(f, stages)
<1>1. {d \in Conns : g[d].at \in stages} = {d \in Conns : f[d].at \in stages}
  BY DEF Only
<1>2. QED
  BY <1>1 DEF InStage

LEMMA CountUp ==
  ASSUME NEW f, NEW g, NEW c \in Conns, Only(f, g, c),
         NEW stages, f[c].at \notin stages, g[c].at \in stages
  PROVE  InStage(g, stages) = InStage(f, stages) + 1
<1> DEFINE before == {d \in Conns : f[d].at \in stages}
           after == {d \in Conns : g[d].at \in stages}
<1>1. after = before \cup {c} /\ c \notin before
  BY DEF Only
<1>2. IsFiniteSet(before)
  BY ProxyAssumption, FS_Subset
<1>3. Cardinality(after) = Cardinality(before) + 1
  BY <1>1, <1>2, FS_AddElement
<1>4. QED
  BY <1>3 DEF InStage

LEMMA CountDown ==
  ASSUME NEW f, NEW g, NEW c \in Conns, Only(f, g, c),
         NEW stages, f[c].at \in stages, g[c].at \notin stages
  PROVE  InStage(g, stages) = InStage(f, stages) - 1
<1> DEFINE before == {d \in Conns : f[d].at \in stages}
           after == {d \in Conns : g[d].at \in stages}
<1>1. after = before \ {c} /\ c \in before
  BY DEF Only
<1>2. IsFiniteSet(before)
  BY ProxyAssumption, FS_Subset
<1>3. Cardinality(after) = Cardinality(before) - 1
  BY <1>1, <1>2, FS_RemoveElement
<1>4. QED
  BY <1>3 DEF InStage

-----------------------------------------------------------------------------
(* The ways a step changes one connection and the counters.                *)
LEMMA Moves ==
  ASSUME IInv, NEW c \in Conns, AllSound(conn'), Only(conn, conn', c),
         conn[c].at # "closed", conn[c].at \in Counted <=> conn'[c].at \in Counted,
         UNCHANGED <<active, listed, running, counters>>
  PROVE  IInv'
<1>2. InStage(conn', Counted) = InStage(conn, Counted)
  BY CountSame
<1>3. ASSUME NEW stages, conn[c].at \in stages => conn'[c].at \in stages
      PROVE  InStage(conn', stages) >= InStage(conn, stages)
  <2>1. InStage(conn, stages) \in Nat
    BY CountIsNat
  <2>2. CASE conn[c].at \in stages <=> conn'[c].at \in stages
    <3>1. InStage(conn', stages) = InStage(conn, stages)
      BY <2>2, CountSame
    <3>2. QED
      BY <2>1, <3>1
  <2>3. CASE conn[c].at \notin stages /\ conn'[c].at \in stages
    <3>1. InStage(conn', stages) = InStage(conn, stages) + 1
      BY <2>3, CountUp
    <3>2. QED
      BY <2>1, <3>1
  <2>4. QED
    BY <1>3, <2>2, <2>3
<1>4. /\ InStage(conn', {"closed"}) >= InStage(conn, {"closed"})
      /\ InStage(conn', Begun) >= InStage(conn, Begun)
  <2>1. conn[c].at \in Begun => conn'[c].at \in Begun
    BY DEF Begun
  <2>2. QED
    BY <1>3, <2>1
<1>5. /\ {InStage(conn, {"closed"}), InStage(conn, Begun)} \subseteq Nat
      /\ {InStage(conn', {"closed"}), InStage(conn', Begun)} \subseteq Nat
  BY CountIsNat
<1>6. Counts'
  BY <1>2, <1>4, <1>5 DEF IInv, Counts, counters
<1>7. QED
  BY <1>6 DEF IInv

LEMMA Opens ==
  ASSUME IInv, NEW c \in Conns, AllSound(conn'), Only(conn, conn', c),
         conn[c].at \notin Begun, conn'[c].at \in Counted,
         opened' = opened + 1, open' = open + 1, failed' = failed,
         UNCHANGED <<active, listed, running>>
  PROVE  IInv'
<1>2. /\ InStage(conn', Counted) = InStage(conn, Counted) + 1
      /\ InStage(conn', Begun) = InStage(conn, Begun) + 1
  <2>1. conn[c].at \notin Counted /\ conn[c].at \notin Begun /\ conn'[c].at \in Begun
    BY DEF Begun
  <2>2. QED
    BY <2>1, CountUp
<1>3. InStage(conn', {"closed"}) = InStage(conn, {"closed"})
  <2>1. conn[c].at \notin {"closed"} /\ conn'[c].at \notin {"closed"}
    BY DEF Begun, Counted
  <2>2. QED
    BY <2>1, CountSame
<1>4. {InStage(conn, {"closed"}), InStage(conn, Begun)} \subseteq Nat
  BY CountIsNat
<1>5. Counts'
  BY <1>2, <1>3, <1>4 DEF IInv, Counts
<1>6. QED
  BY <1>5 DEF IInv

LEMMA ClosedIsSound == Sound(Closed) /\ Sound(New)
<1>1. <<>> \in Seq(UserIds \cup Nat)
  BY EmptySeq
<1>2. QED
  BY <1>1 DEF Sound, Closed, New, Connections, Stages, Waits

LEMMA Finishes ==
  ASSUME IInv, NEW c \in Conns, conn[c].at \in Counted, Finish(c),
         failed' \in {failed, failed + 1},
         UNCHANGED <<active, listed, running, opened>>
  PROVE  IInv'
<1>1. Becomes(c, Closed) /\ open' = open - 1 /\ Closed.at = "closed"
  BY DEF Becomes, Finish, Drop, Closed, New
<1>2. AllSound(conn') /\ Only(conn, conn', c) /\ conn'[c] = Closed
  BY <1>1, Update, ClosedIsSound DEF IInv
<1>3. conn'[c].at \notin Counted /\ "closed" \notin Counted
  BY <1>1, <1>2 DEF Counted
<1>4. InStage(conn', Counted) = InStage(conn, Counted) - 1
  BY <1>1, <1>2, <1>3, CountDown
<1>5. InStage(conn', Begun) = InStage(conn, Begun)
  <2>1. conn[c].at \in Begun /\ conn'[c].at \in Begun
    BY <1>1, <1>2 DEF Begun
  <2>2. QED
    BY <1>2, <2>1, CountSame
<1>6. InStage(conn', {"closed"}) = InStage(conn, {"closed"}) + 1
  <2>1. conn[c].at \notin {"closed"} /\ conn'[c].at \in {"closed"}
    BY <1>1, <1>2, <1>3
  <2>2. QED
    BY <1>2, <2>1, CountUp
<1>7. /\ InStage(conn, {"closed"}) \in Nat /\ InStage(conn, Counted) \in Nat
      /\ InStage(conn, Begun) \in Nat
  BY CountIsNat
<1>8. Counts'
  BY <1>1, <1>4, <1>5, <1>6, <1>7 DEF IInv, Counts
<1>9. QED
  BY <1>2, <1>8 DEF IInv

LEMMA Panicked ==
  ASSUME IInv, Panic
  PROVE  IInv'
<1>1. conn' = [c \in Conns |-> IF conn[c].at = "none" THEN conn[c] ELSE Closed]
  BY DEF Panic
<1>2. AllSound(conn')
  BY <1>1, ClosedIsSound DEF IInv, AllSound, Sound
<1>3. {c \in Conns : conn'[c].at \in Counted} = {}
  BY <1>1 DEF Counted, Closed, New
<1>4. InStage(conn', Counted) = 0
  BY <1>3, FS_EmptySet DEF InStage
<1>5. /\ InStage(conn', {"closed"}) \in Nat
      /\ InStage(conn', Begun) \in Nat
  BY CountIsNat
<1>6. Counts'
  BY <1>4, <1>5 DEF Panic, Counts
<1>7. QED
  BY <1>2, <1>6 DEF IInv, Panic

LEMMA InitSound == Init => IInv
<1> SUFFICES ASSUME Init PROVE IInv
  OBVIOUS
<1>1. AllSound(conn)
  <2>1. Sound(New) /\ New \in Connections
    BY ClosedIsSound DEF Sound
  <2>2. QED
    BY <2>1 DEF Init, AllSound
<1>2. {c \in Conns : conn[c].at \in Counted} = {}
  BY DEF Init, New, Counted
<1>3. InStage(conn, Counted) = 0
  BY <1>2, FS_EmptySet DEF InStage
<1>4. /\ InStage(conn, {"closed"}) \in Nat
      /\ InStage(conn, Begun) \in Nat
  BY CountIsNat
<1>5. Counts
  BY <1>3, <1>4 DEF Init, Counts
<1>6. QED
  BY <1>1, <1>5 DEF Init, IInv
-----------------------------------------------------------------------------
(* What is written fits its type, whichever backend and target it is for.  *)
LEMMA RequestFits ==
  ASSUME NEW asked \in Targets
  PROVE  Request(asked) \in Requests
<1>1. CASE TestTarget = NoTarget
  BY <1>1, ProxyAssumption DEF Request
<1>2. CASE TestTarget \in Requests /\ TestTarget # NoTarget
  <2>1. asked \in Requests
    BY ProxyAssumption
  <2>2. QED
    BY <1>2, <2>1 DEF Request, Requests
<1>3. QED
  BY <1>1, <1>2, ProxyAssumption

LEMMA AddonFits ==
  ASSUME NEW r \in BackendRows
  PROVE  FlowAddon(r.flow) \in Seq(Nat)
<1>1. r.flow \in Seq(Nat)
  BY ProxyAssumption
<1>2. Len(r.flow) \in Nat
  BY <1>1, LenProperties
<1>3. Byte(Len(r.flow)) \in Nat
  BY <1>2, ByteIsNat
<1>4. <<10, Byte(Len(r.flow))>> \in Seq(Nat) /\ <<>> \in Seq(Nat)
  BY <1>3
<1>5. <<10, Byte(Len(r.flow))>> \o r.flow \in Seq(Nat)
  BY <1>1, <1>4, ConcatProperties
<1>6. QED
  BY <1>4, <1>5 DEF FlowAddon

LEMMA GreetingFits ==
  ASSUME NEW k, k.asked \in Targets, k.row \in BackendRows
  PROVE  WriteHeader(Greeting(k)) \in Seq(UserIds \cup Nat)
<1>1. k.row.uuid \in UserIds \cup Nat /\ Nat \subseteq UserIds \cup Nat
  BY DEF UserIds
<1>2. FlowAddon(k.row.flow) \in Seq(Nat) /\ Request(k.asked) \in Requests
  BY AddonFits, RequestFits
<1>3. QED
  BY <1>1, <1>2, Layout DEF Greeting

-----------------------------------------------------------------------------
(* The steps of one connection.                                            *)
LEMMA Moving ==
  ASSUME IInv, NEW c \in Conns, NEW l, Becomes(c, l), Sound(l),
         conn[c].at # "closed", conn[c].at \in Counted <=> l.at \in Counted,
         UNCHANGED <<active, listed, running, counters>>
  PROVE  IInv'
<1>1. AllSound(conn') /\ Only(conn, conn', c) /\ conn'[c] = l
  BY Update DEF IInv
<1>2. QED
  BY <1>1, Moves

LEMMA OpeningSound ==
  ASSUME IInv, NEW c \in Conns, Opening(c)
  PROVE  IInv'
<1> DEFINE k == conn[c]
<1>1. AllSound(conn) /\ Sound(k) /\ k \in Connections
  BY DEF IInv, AllSound, Sound
<1>2. ASSUME Accept(c)
      PROVE  IInv'
  <2> DEFINE l == [k EXCEPT !.at = "accepted", !.client = TRUE]
  <2>1. Becomes(c, l)
    BY <1>1, <1>2 DEF Accept, Becomes
  <2>2. Sound(l)
    BY <1>1, <1>2 DEF Accept, Sound, Connections, Stages, Waits
  <2>3. k.at # "closed" /\ (k.at \in Counted <=> l.at \in Counted)
    BY <1>1, <1>2 DEF Accept, Sound, Connections, Counted
  <2> HIDE DEF l
  <2>4. QED
    BY <1>2, <2>1, <2>2, <2>3, Moving DEF Accept
<1>3. ASSUME FirstByteRefused(c) \/ ServeHTTP(c)
      PROVE  IInv'
  <2>1. Becomes(c, Closed) /\ Closed.at = "closed"
    BY <1>3 DEF FirstByteRefused, ServeHTTP, Drop, Becomes, Closed, New
  <2>2. k.at # "closed" /\ (k.at \in Counted <=> Closed.at \in Counted)
    BY <1>3, <2>1 DEF FirstByteRefused, ServeHTTP, Counted
  <2>3. QED
    BY <1>3, <2>1, <2>2, ClosedIsSound, Moving DEF FirstByteRefused, ServeHTTP
<1>4. ASSUME FirstByteHTTP(c)
      PROVE  IInv'
  <2> DEFINE l == [k EXCEPT !.at = "http"]
  <2>1. Becomes(c, l)
    BY <1>1, <1>4 DEF FirstByteHTTP, Goes, Becomes
  <2>2. Sound(l)
    BY <1>1, <1>4 DEF FirstByteHTTP, Goes, Sound, Connections, Stages, Waits
  <2>3. k.at # "closed" /\ (k.at \in Counted <=> l.at \in Counted)
    BY <1>1, <1>4 DEF FirstByteHTTP, Goes, Sound, Connections, Counted
  <2> HIDE DEF l
  <2>4. QED
    BY <1>4, <2>1, <2>2, <2>3, Moving DEF FirstByteHTTP
<1>5. ASSUME FirstByteTLS(c)
      PROVE  IInv'
  <2> DEFINE l == [k EXCEPT !.at = "handshake"]
  <2>1. Becomes(c, l)
    BY <1>1, <1>5 DEF FirstByteTLS, Goes, Becomes
  <2>2. Sound(l)
    BY <1>1, <1>5 DEF FirstByteTLS, Sound, Connections, Stages
  <2>3. AllSound(conn') /\ Only(conn, conn', c) /\ conn'[c] = l
    BY <1>1, <2>1, <2>2, Update
  <2>4. conn[c].at \notin Begun /\ conn'[c].at \in Counted
    BY <1>1, <1>5, <2>3 DEF FirstByteTLS, Begun, Counted, Connections
  <2>5. QED
    BY <1>5, <2>3, <2>4, Opens DEF FirstByteTLS
<1>6. ASSUME ServeSubscription(c) \/ GreetPanic(c)
      PROVE  IInv'
  BY <1>6, Panicked DEF ServeSubscription, GreetPanic
<1>7. ASSUME UnwrapFail(c) \/ NoActive(c) \/ LookUpFail(c) \/ DialFail(c)
      PROVE  IInv'
  <2>1. k.at \in Counted
    BY <1>7 DEF UnwrapFail, NoActive, LookUpFail, DialFail, Counted
  <2>2. /\ Finish(c) /\ failed' \in {failed, failed + 1}
        /\ UNCHANGED <<active, listed, running, opened>>
    BY <1>7 DEF UnwrapFail, NoActive, LookUpFail, DialFail
  <2>3. QED
    BY <2>1, <2>2, Finishes
<1>8. ASSUME Unwrap(c)
      PROVE  IInv'
  <2> DEFINE l == [k EXCEPT !.at = IF k.at = "handshake" THEN "peek" ELSE "header"]
  <2>1. Becomes(c, l)
    BY <1>1, <1>8 DEF Unwrap, Goes, Becomes
  <2>2. Sound(l)
    BY <1>1, <1>8 DEF Unwrap, Goes, Sound, Connections, Stages, Waits
  <2>3. k.at # "closed" /\ (k.at \in Counted <=> l.at \in Counted)
    BY <1>1, <1>8 DEF Unwrap, Goes, Sound, Connections, Counted
  <2> HIDE DEF l
  <2>4. QED
    BY <1>8, <2>1, <2>2, <2>3, Moving DEF Unwrap
<1>9. ASSUME NEW target \in Targets, ReadRequest(c, target)
      PROVE  IInv'
  <2> DEFINE l == [k EXCEPT !.at = "choose", !.asked = target]
  <2>1. Becomes(c, l)
    BY <1>1, <1>9 DEF ReadRequest, Becomes
  <2>2. Sound(l)
    BY <1>1, <1>9 DEF ReadRequest, Sound, Connections, Stages, Waits
  <2>3. k.at # "closed" /\ (k.at \in Counted <=> l.at \in Counted)
    BY <1>1, <1>9 DEF ReadRequest, Sound, Connections, Counted
  <2> HIDE DEF l
  <2>4. QED
    BY <1>9, <2>1, <2>2, <2>3, Moving DEF ReadRequest
<1>10. ASSUME ReadActive(c)
      PROVE  IInv'
  <2> DEFINE l == [k EXCEPT !.at = "lookup", !.addr = active]
  <2>1. Becomes(c, l)
    BY <1>1, <1>10 DEF ReadActive, Becomes
  <2>2. Sound(l)
    BY <1>1, <1>10 DEF ReadActive, Sound, Connections, Stages, Waits, IInv
  <2>3. k.at # "closed" /\ (k.at \in Counted <=> l.at \in Counted)
    BY <1>1, <1>10 DEF ReadActive, Sound, Connections, Counted
  <2> HIDE DEF l
  <2>4. QED
    BY <1>10, <2>1, <2>2, <2>3, Moving DEF ReadActive
<1>11. ASSUME NEW r \in BackendRows, LookUp(c, r)
      PROVE  IInv'
  <2> DEFINE l == [k EXCEPT !.at = "dial", !.addr = NoAddr, !.row = r]
  <2>1. Becomes(c, l)
    BY <1>1, <1>11 DEF LookUp, Becomes
  <2>2. Sound(l)
    BY <1>1, <1>11 DEF LookUp, Sound, Connections, Stages, Waits
  <2>3. k.at # "closed" /\ (k.at \in Counted <=> l.at \in Counted)
    BY <1>1, <1>11 DEF LookUp, Sound, Connections, Counted
  <2> HIDE DEF l
  <2>4. QED
    BY <1>11, <2>1, <2>2, <2>3, Moving DEF LookUp
<1>12. ASSUME Dial(c)
      PROVE  IInv'
  <2> DEFINE l == [k EXCEPT !.at = "greet", !.backend = TRUE]
  <2>1. Becomes(c, l)
    BY <1>1, <1>12 DEF Dial, Becomes
  <2>2. Sound(l)
    BY <1>1, <1>12 DEF Dial, Sound, Connections, Stages, Waits
  <2>3. k.at # "closed" /\ (k.at \in Counted <=> l.at \in Counted)
    BY <1>1, <1>12 DEF Dial, Sound, Connections, Counted
  <2> HIDE DEF l
  <2>4. QED
    BY <1>12, <2>1, <2>2, <2>3, Moving DEF Dial
<1>13. ASSUME Greet(c)
       PROVE  IInv'
  <2> DEFINE l == [k EXCEPT !.at = "relay", !.sent = WriteHeader(Greeting(k)),
                            !.c2b = "read", !.b2c = "read"]
  <2>1. Becomes(c, l)
    BY <1>1, <1>13 DEF Greet, Becomes
  <2>2. k.at = "greet" /\ DumpFits(Greeting(k)) /\ k.asked \in Targets /\ k.row \in BackendRows
    BY <1>1, <1>13 DEF Greet, Sound
  <2>3. WriteHeader(Greeting(k)) \in Seq(UserIds \cup Nat)
    BY <2>2, GreetingFits
  <2>4. Greeting(l) = Greeting(k)
    BY <1>1 DEF Greeting, Connections
  <2>5. Sound(l)
    BY <1>1, <2>2, <2>3, <2>4 DEF Sound, Connections, Stages, Waits
  <2>6. k.at # "closed" /\ (k.at \in Counted <=> l.at \in Counted)
    BY <1>1, <2>2 DEF Connections, Counted
  <2> HIDE DEF l
  <2>7. QED
    BY <1>13, <2>1, <2>5, <2>6, Moving DEF Greet
<1>14. QED
  BY <1>2, <1>3, <1>4, <1>5, <1>6, <1>7, <1>8, <1>9, <1>10, <1>11, <1>12, <1>13 DEF Opening

(* Only the relay has goroutines, and none of their steps but the last     *)
(* changes more than where they stand and what they close.                 *)
LEMMA RelayingSound ==
  ASSUME IInv, NEW c \in Conns, Relaying(c)
  PROVE  IInv'
<1> DEFINE k == conn[c]
<1>1. AllSound(conn) /\ Sound(k) /\ k \in Connections
  BY DEF IInv, AllSound, Sound
<1>2. ASSUME NEW l, Becomes(c, l), l \in Connections, k.at = "relay",
             l.at = k.at, l.asked = k.asked, l.row = k.row, l.sent = k.sent,
             l.c2b # "done" /\ l.b2c # "done" => l.client /\ l.backend,
             UNCHANGED <<active, listed, running, counters>>
      PROVE  IInv'
  <2>1. Greeting(l) = Greeting(k)
    BY <1>2 DEF Greeting
  <2>2. Sound(l)
    BY <1>1, <1>2, <2>1 DEF Sound
  <2>3. k.at # "closed" /\ (k.at \in Counted <=> l.at \in Counted)
    BY <1>2
  <2>4. QED
    BY <1>2, <2>2, <2>3, Moving
<1>3. k.c2b # "done" \/ k.b2c # "done" => k.at = "relay"
  BY <1>1 DEF Sound
<1>4. ASSUME NEW to \in {"read", "write"}, k.c2b \in {"read", "write"},
             conn' = [conn EXCEPT ![c].c2b = to],
             UNCHANGED <<active, listed, running, counters>>
      PROVE  IInv'
  <2> DEFINE l == [k EXCEPT !.c2b = to]
  <2>1. Becomes(c, l) /\ l \in Connections
    BY <1>1, <1>4 DEF Becomes, Connections, Waits
  <2>2. /\ l.at = k.at /\ l.asked = k.asked /\ l.row = k.row /\ l.sent = k.sent
        /\ l.c2b # "done" /\ l.b2c # "done" => l.client /\ l.backend
    BY <1>1, <1>4 DEF Connections, Sound
  <2> HIDE DEF l
  <2>3. QED
    BY <1>2, <1>3, <1>4, <2>1, <2>2
<1>5. ASSUME NEW to \in {"read", "write"}, k.b2c \in {"read", "write"},
             conn' = [conn EXCEPT ![c].b2c = to],
             UNCHANGED <<active, listed, running, counters>>
      PROVE  IInv'
  <2> DEFINE l == [k EXCEPT !.b2c = to]
  <2>1. Becomes(c, l) /\ l \in Connections
    BY <1>1, <1>5 DEF Becomes, Connections, Waits
  <2>2. /\ l.at = k.at /\ l.asked = k.asked /\ l.row = k.row /\ l.sent = k.sent
        /\ l.c2b # "done" /\ l.b2c # "done" => l.client /\ l.backend
    BY <1>1, <1>5 DEF Connections, Sound
  <2> HIDE DEF l
  <2>3. QED
    BY <1>2, <1>3, <1>5, <2>1, <2>2
<1>6. ASSUME k.c2b \in {"read", "write"}, EndC2B(c),
             UNCHANGED <<active, listed, running, counters>>
      PROVE  IInv'
  <2> DEFINE l == [k EXCEPT !.c2b = "done", !.backend = FALSE]
  <2>1. Becomes(c, l) /\ l \in Connections
    BY <1>1, <1>6 DEF EndC2B, Becomes, Connections, Waits
  <2>2. /\ l.at = k.at /\ l.asked = k.asked /\ l.row = k.row /\ l.sent = k.sent
        /\ l.c2b # "done" /\ l.b2c # "done" => l.client /\ l.backend
    BY <1>1 DEF Connections
  <2> HIDE DEF l
  <2>3. QED
    BY <1>2, <1>3, <1>6, <2>1, <2>2
<1>7. ASSUME k.b2c \in {"read", "write"}, EndB2C(c),
             UNCHANGED <<active, listed, running, counters>>
      PROVE  IInv'
  <2> DEFINE l == [k EXCEPT !.b2c = "done", !.client = FALSE]
  <2>1. Becomes(c, l) /\ l \in Connections
    BY <1>1, <1>7 DEF EndB2C, Becomes, Connections, Waits
  <2>2. /\ l.at = k.at /\ l.asked = k.asked /\ l.row = k.row /\ l.sent = k.sent
        /\ l.c2b # "done" /\ l.b2c # "done" => l.client /\ l.backend
    BY <1>1 DEF Connections
  <2> HIDE DEF l
  <2>3. QED
    BY <1>2, <1>3, <1>7, <2>1, <2>2
<1>8. ASSUME RelayDone(c)
      PROVE  IInv'
  <2>1. k.at \in Counted
    BY <1>8 DEF RelayDone, Counted
  <2>2. QED
    BY <1>8, <2>1, Finishes DEF RelayDone
<1>9. QED
  BY <1>4, <1>5, <1>6, <1>7, <1>8
     DEF Relaying, Read, ReadC2B, ReadB2C, Write, PeerEnds, SocketEnds

LEMMA NextSound == IInv /\ [Next]_vars => IInv'
<1> SUFFICES ASSUME IInv, [Next]_vars
             PROVE  IInv'
  OBVIOUS
<1>1. ASSUME NEW a \in Addrs \cup {NoAddr}, Switch(a)
      PROVE  IInv'
  BY <1>1 DEF Switch, IInv, Counts, counters
<1>2. ASSUME NEW rows \in Lists, Relist(rows)
      PROVE  IInv'
  BY <1>2 DEF Relist, IInv, Counts, counters
<1>3. ASSUME NEW c \in Conns, Opening(c) \/ Relaying(c)
      PROVE  IInv'
  BY <1>3, OpeningSound, RelayingSound
<1>4. ASSUME Shutdown
      PROVE  IInv'
  BY <1>4, Panicked DEF Shutdown
<1>5. ASSUME Restart
      PROVE  IInv'
  BY <1>5 DEF Restart, IInv, Counts, counters
<1>6. ASSUME UNCHANGED vars
      PROVE  IInv'
  BY <1>6 DEF vars, IInv, Counts, counters
<1>7. QED
  BY <1>1, <1>2, <1>3, <1>4, <1>5, <1>6 DEF Next

LEMMA AlwaysSound == Spec => []IInv
BY InitSound, NextSound, PTL DEF Spec

-----------------------------------------------------------------------------
(* Stages, sockets and counters are always what the code has them be; none *)
(* of the counters exceeds the connections (metrics.go:34-60).             *)
THEOREM TypeCorrect == Spec => []TypeOK
<1>1. IInv => TypeOK
  <2> SUFFICES ASSUME IInv PROVE TypeOK
    OBVIOUS
  <2>1. \A stages : /\ InStage(conn, stages) \in Nat
                    /\ InStage(conn, stages) <= Cardinality(Conns)
    BY CountIsNat
  <2>2. Cardinality(Conns) \in Nat
    BY ProxyAssumption, FS_CardinalityType
  <2>3. {opened, open, failed} \subseteq 0 .. Cardinality(Conns)
    BY <2>1, <2>2 DEF IInv, Counts
  <2>4. QED
    BY <2>3 DEF IInv, AllSound, TypeOK
<1>2. QED
  BY <1>1, AlwaysSound, PTL

(* The gauge of the dashboard is exact (metrics.go:34-47).                 *)
THEOREM CountsExactly == Spec => []GaugeIsExact
<1>1. IInv => GaugeIsExact
  BY DEF IInv, Counts, InStage, GaugeIsExact
<1>2. QED
  BY <1>1, AlwaysSound, PTL

(* No socket outlives its handler (proxy.go:116-171, 276-322).             *)
THEOREM NothingLeaks == Spec => []NoOrphanSocket
<1>1. IInv => NoOrphanSocket
  BY DEF IInv, AllSound, Sound, NoOrphanSocket
<1>2. QED
  BY <1>1, AlwaysSound, PTL

LEMMA ShortEnough ==
  ASSUME NEW m \in Nat, NEW n \in Nat, 23 + m + n <= 64
  PROVE  m < ByteValues /\ n < ByteValues
BY DEF ByteValues

(* What was written to a backend reads as what the client asked for, under *)
(* the backend's own user id, because what got past the dump is short      *)
(* (proxy.go:199-259, vless.go:50-143).                                    *)
THEOREM SaysWhatWasAsked == Spec => []GreetingIsRequest
<1>1. IInv => GreetingIsRequest
  <2>1. SUFFICES ASSUME IInv, NEW c \in Conns, conn[c].at = "relay"
                 PROVE  /\ Readable(conn[c].sent) /\ Rest(conn[c].sent) = <<>>
                        /\ ReadHeader(conn[c].sent).uuid = conn[c].row.uuid
                        /\ ReadHeader(conn[c].sent).target = Request(conn[c].asked)
    BY DEF GreetingIsRequest
  <2> DEFINE k == conn[c]
             addon == FlowAddon(k.row.flow)
             target == Request(k.asked)
             h == Header(k.row.uuid, addon, target)
  <2>2. /\ k.asked \in Targets /\ k.row \in BackendRows
        /\ DumpFits(h) /\ k.sent = WriteHeader(h)
    BY <2>1 DEF IInv, AllSound, Sound, Greeting
  <2>3. addon \in Seq(Nat) /\ target \in Requests /\ target.addr \in Seq(Nat)
    BY <2>2, AddonFits, RequestFits DEF Requests
  <2>4. Len(addon) \in Nat /\ Len(target.addr) \in Nat
    BY <2>3, LenProperties
  <2>5. 23 + Len(addon) + Len(target.addr) <= 64
    BY <2>2 DEF DumpFits, DumpLen, DumpSize, Header
  <2>6. Len(addon) < ByteValues /\ Len(target.addr) < ByteValues
    <3> HIDE DEF addon, target
    <3>1. QED
      BY <2>4, <2>5, ShortEnough
  <2>7. k.row.uuid \in UserIds \cup Nat /\ Nat \subseteq UserIds \cup Nat
    BY <2>2 DEF UserIds
  <2> DEFINE bytes == UserIds \cup Nat
             uuid == k.row.uuid
             wire == WriteHeader(Header(uuid, addon, target))
  <2> HIDE DEF addon, target, bytes, uuid
  <2>8. Nat \subseteq bytes /\ uuid \in bytes
    BY <2>7 DEF bytes, uuid
  <2>9. Readable(wire) /\ Rest(wire) = <<>> /\ ReadHeader(wire) = Header(uuid, addon, target)
    BY <2>3, <2>6, <2>8, RoundTrip
  <2>10. k.sent = wire
    BY <2>2 DEF uuid
  <2>11. QED
    BY <2>9, <2>10 DEF Header, target, uuid
<1>2. QED
  BY <1>1, AlwaysSound, PTL
=============================================================================
