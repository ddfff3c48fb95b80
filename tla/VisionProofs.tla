---------------------------- MODULE VisionProofs ----------------------------
(***************************************************************************)
(* What comes out of a relayed direction is a prefix of what was put in:   *)
(* VisionStream implements the safety of ByteStream, for frames, paddings, *)
(* commands, reads and numbers of bytes of any size.                       *)
(***************************************************************************)
EXTENDS VisionStream, SequenceTheorems, TLAPS

Tokens == [kind : Kinds, v : Seq(Nat)]
Wires == Seq(Tokens)

(* What is under way after the response header: what the proxy has passed  *)
(* on, and what it has not.                                                *)
Body == IF stripped THEN near
        ELSE IF HasResponse THEN Rest(near, 1 + near[1].v[1]) ELSE << >>
Line == far \o Body

(***************************************************************************)
(* A parse of a wire marks the places where a frame begins, or the bytes   *)
(* without frames, with how it is read there and with the number of the    *)
(* last byte before. It may mark a place beyond a wire that has been cut.  *)
(* Marks is not built by recursion over the wire: that there is one is     *)
(* part of the invariant.                                                  *)
(***************************************************************************)
Mark(mode, n) == [mode |-> mode, n |-> n]
Marks == [mode : Modes \ {"ended"}, n : Nat]

HeadOf(marks, i) == i + HeadIn(marks[i].mode) - 1
EndOf(wire, h) == h + wire[h].v[2] + wire[h].v[3] + 1

BytesFrom(wire, i, n, top) ==
  \A j \in i .. Len(wire) : wire[j] = Byte(n + (j - i) + 1) /\ n + (j - i) + 1 <= top

FrameAt(wire, marks, i) ==
  LET h == HeadOf(marks, i) IN
  h <= Len(wire) =>
    /\ wire[h].v \in Nat \X Nat \X Nat
    /\ \A k \in 1 .. wire[h].v[2] : h + k <= Len(wire) => wire[h + k] = Byte(marks[i].n + k)
    /\ EndOf(wire, h) \in DOMAIN marks
    /\ marks[EndOf(wire, h)] = Mark(After(wire[h].v[1]), marks[i].n + wire[h].v[2])

Parse(wire, marks, mode, n, top) ==
  /\ DOMAIN marks \subseteq Nat \ {0}
  /\ 1 \in DOMAIN marks /\ marks[1] = Mark(mode, n)
  /\ \A i \in DOMAIN marks :
       /\ marks[i] \in Marks /\ marks[i].n <= top
       /\ IF marks[i].mode = "raw" THEN BytesFrom(wire, i, marks[i].n, top)
          ELSE FrameAt(wire, marks, i)
  /\ \A i, j \in DOMAIN marks : marks[i].mode = "raw" => j <= i

(* f is the frame of the bytes after s, if it is read in the given mode.   *)
IsFrame(f, mode, cmd, s, len, pad) ==
  /\ Len(f) = HeadIn(mode) + len + pad
  /\ f[HeadIn(mode)] = FrameHead(cmd, len, pad)
  /\ \A k \in 1 .. len : f[HeadIn(mode) + k] = Byte(s + k)

(* The wire ends where a frame does, and what follows has to be read in    *)
(* the given mode after the given number of bytes.                         *)
EndsAt(wire, marks, i, mode, n) ==
  \/ i = Len(wire) + 1 /\ marks[i] = Mark(mode, n)
  \/ i <= Len(wire) /\ marks[i].mode # "raw" /\ HeadOf(marks, i) <= Len(wire)
  \/ i <= Len(wire) /\ marks[i].mode = "raw" /\ mode = "raw"
       /\ n = marks[i].n + Len(wire) + 1 - i

Complete(wire, marks, mode, n) ==
  /\ \A i \in DOMAIN marks : EndsAt(wire, marks, i, mode, n)
  /\ mode # "raw" => Len(wire) + 1 \in DOMAIN marks

(* One parse has the marks of another.                                     *)
Extends(more, marks) == \A i \in DOMAIN marks : i \in DOMAIN more /\ more[i] = marks[i]

(* What a parse of the rest of a wire keeps of the parse of all of it.     *)
Continues(rest, fewer, wire, marks, m) ==
  /\ \A mode, n : Complete(wire, marks, mode, n) => Complete(rest, fewer, mode, n)
  /\ \A i \in Nat \ {0} : i + m \in DOMAIN marks => i \in DOMAIN fewer /\ fewer[i] = marks[i + m]

(* A frame's head is where h says.                                         *)
HasHead(wire, h, cmd, len) == wire[h].v[1] = cmd /\ wire[h].v[2] = len

(* After the first h tokens come len bytes, those after n.                 *)
Begins(wire, h, len, n) == \A k \in 1 .. len : wire[h + k] = Byte(n + k)

(* The wire is the bytes after s, without frames.                          *)
AreBytes(x, s) == \A k \in 1 .. Len(x) : x[k] = Byte(s + k)

-----------------------------------------------------------------------------
(* Cutting and joining wires.                                              *)
LEMMA WireLen == \A wire \in Wires : Len(wire) \in Nat
BY DEF Wires

LEMMA RestProps ==
  ASSUME NEW wire \in Wires, NEW m \in 0 .. Len(wire)
  PROVE  /\ Rest(wire, m) \in Wires
         /\ Len(Rest(wire, m)) = Len(wire) - m
         /\ \A i \in 1 .. Len(wire) - m : Rest(wire, m)[i] = wire[i + m]
<1>1. \A i \in m + 1 .. Len(wire) : wire[i] \in Tokens
  BY DEF Wires
<1>2. /\ Rest(wire, m) \in Wires
      /\ Len(Rest(wire, m)) = IF m + 1 <= Len(wire) THEN Len(wire) - (m + 1) + 1 ELSE 0
      /\ \A i \in 1 .. Len(wire) - (m + 1) + 1 : Rest(wire, m)[i] = wire[(m + 1) + i - 1]
  BY <1>1, SubSeqProperties DEF Rest, Wires
<1>3. QED
  BY <1>2

LEMMA FirstProps ==
  ASSUME NEW wire \in Wires, NEW m \in 0 .. Len(wire)
  PROVE  /\ SubSeq(wire, 1, m) \in Wires
         /\ Len(SubSeq(wire, 1, m)) = m
         /\ \A i \in 1 .. m : SubSeq(wire, 1, m)[i] = wire[i]
<1>1. \A i \in 1 .. m : wire[i] \in Tokens
  BY DEF Wires
<1>2. /\ SubSeq(wire, 1, m) \in Wires
      /\ Len(SubSeq(wire, 1, m)) = IF 1 <= m THEN m - 1 + 1 ELSE 0
      /\ \A i \in 1 .. m - 1 + 1 : SubSeq(wire, 1, m)[i] = wire[1 + i - 1]
  BY <1>1, SubSeqProperties DEF Wires
<1>3. QED
  BY <1>2

LEMMA JoinProps ==
  ASSUME NEW s \in Wires, NEW t \in Wires
  PROVE  /\ s \o t \in Wires
         /\ Len(s \o t) = Len(s) + Len(t)
         /\ \A i \in 1 .. Len(s) : (s \o t)[i] = s[i]
         /\ \A i \in 1 .. Len(t) : (s \o t)[Len(s) + i] = t[i]
<1>1. /\ s \o t \in Wires
      /\ Len(s \o t) = Len(s) + Len(t)
      /\ \A i \in 1 .. Len(s) + Len(t) : (s \o t)[i] = IF i <= Len(s) THEN s[i] ELSE t[i - Len(s)]
  BY ConcatProperties DEF Wires
<1>2. Len(s) \in Nat /\ Len(t) \in Nat
  OBVIOUS
<1>3. QED
  BY <1>1, <1>2

LEMMA SameWire ==
  ASSUME NEW s \in Wires, NEW t \in Wires, Len(s) = Len(t), \A i \in 1 .. Len(s) : s[i] = t[i]
  PROVE  s = t
BY SeqEqual DEF Wires

(* Taking from the front of a longer wire, and passing on what was taken.  *)
LEMMA RestOfJoin ==
  ASSUME NEW s \in Wires, NEW t \in Wires, NEW m \in 0 .. Len(s)
  PROVE  Rest(s \o t, m) = Rest(s, m) \o t
<1>1. Len(s) \in Nat /\ Len(t) \in Nat
  OBVIOUS
<1> DEFINE a == Rest(s \o t, m)  b == Rest(s, m)
<1>2. /\ s \o t \in Wires /\ Len(s \o t) = Len(s) + Len(t)
      /\ \A i \in 1 .. Len(s) : (s \o t)[i] = s[i]
      /\ \A i \in 1 .. Len(t) : (s \o t)[Len(s) + i] = t[i]
  BY JoinProps
<1>3. /\ a \in Wires /\ Len(a) = Len(s) + Len(t) - m
      /\ \A i \in 1 .. Len(s) + Len(t) - m : a[i] = (s \o t)[i + m]
  <2>1. m \in 0 .. Len(s \o t)
    BY <1>1, <1>2
  <2>2. /\ a \in Wires /\ Len(a) = Len(s \o t) - m
        /\ \A i \in 1 .. Len(s \o t) - m : a[i] = (s \o t)[i + m]
    BY <1>2, <2>1, RestProps
  <2>3. QED
    BY <1>2, <2>2
<1>4. /\ b \in Wires /\ Len(b) = Len(s) - m
      /\ \A i \in 1 .. Len(s) - m : b[i] = s[i + m]
  BY <1>1, RestProps
<1>5. /\ b \o t \in Wires /\ Len(b \o t) = Len(s) - m + Len(t)
      /\ \A i \in 1 .. Len(s) - m : (b \o t)[i] = b[i]
      /\ \A i \in 1 .. Len(t) : (b \o t)[Len(s) - m + i] = t[i]
  <2>1. /\ b \o t \in Wires /\ Len(b \o t) = Len(b) + Len(t)
        /\ \A i \in 1 .. Len(b) : (b \o t)[i] = b[i]
        /\ \A i \in 1 .. Len(t) : (b \o t)[Len(b) + i] = t[i]
    BY <1>4, JoinProps
  <2>2. QED
    BY <1>4, <2>1
<1> HIDE DEF a, b
<1>6. ASSUME NEW i \in 1 .. Len(a)
      PROVE  a[i] = (b \o t)[i]
  <2>1. CASE i <= Len(s) - m
    BY <1>1, <1>2, <1>3, <1>4, <1>5, <2>1
  <2>2. CASE i > Len(s) - m
    <3>1. i - (Len(s) - m) \in 1 .. Len(t) /\ i + m = Len(s) + (i - (Len(s) - m))
          /\ i = Len(s) - m + (i - (Len(s) - m))
      BY <1>1, <1>3, <2>2
    <3>2. QED
      BY <1>1, <1>2, <1>3, <1>5, <3>1
  <2>3. i \in Int /\ Len(s) - m \in Int
    BY <1>1
  <2>4. i <= Len(s) - m \/ i > Len(s) - m
    BY <2>3
  <2>5. QED
    BY <2>1, <2>2, <2>4
<1>7. a = b \o t
  <2>1. Len(a) = Len(b \o t)
    BY <1>1, <1>3, <1>5
  <2>2. QED
    BY <1>3, <1>5, <1>6, <2>1, SameWire
<1>8. QED
  BY <1>7 DEF a, b

LEMMA FirstAndRest ==
  ASSUME NEW wire \in Wires, NEW m \in 0 .. Len(wire)
  PROVE  SubSeq(wire, 1, m) \o Rest(wire, m) = wire
<1>1. Len(wire) \in Nat
  OBVIOUS
<1> DEFINE a == SubSeq(wire, 1, m)  b == Rest(wire, m)
<1>2. /\ a \in Wires /\ Len(a) = m /\ \A i \in 1 .. m : a[i] = wire[i]
  BY FirstProps
<1>3. /\ b \in Wires /\ Len(b) = Len(wire) - m
      /\ \A i \in 1 .. Len(wire) - m : b[i] = wire[i + m]
  BY RestProps
<1> HIDE DEF a, b
<1>4. /\ a \o b \in Wires /\ Len(a \o b) = Len(wire)
      /\ \A i \in 1 .. m : (a \o b)[i] = a[i]
      /\ \A i \in 1 .. Len(wire) - m : (a \o b)[m + i] = b[i]
  <2>1. /\ a \o b \in Wires /\ Len(a \o b) = Len(a) + Len(b)
        /\ \A i \in 1 .. Len(a) : (a \o b)[i] = a[i]
        /\ \A i \in 1 .. Len(b) : (a \o b)[Len(a) + i] = b[i]
    BY <1>2, <1>3, JoinProps
  <2>2. Len(a) + Len(b) = Len(wire)
    BY <1>1, <1>2, <1>3
  <2>3. QED
    BY <1>2, <1>3, <2>1, <2>2
<1>5. ASSUME NEW i \in 1 .. Len(wire)
      PROVE  (a \o b)[i] = wire[i]
  <2>1. CASE i <= m
    BY <1>2, <1>4, <2>1
  <2>2. CASE i > m
    <3>1. i - m \in 1 .. Len(wire) - m /\ i = m + (i - m) /\ i = (i - m) + m
      BY <1>1, <2>2
    <3>2. QED
      BY <1>3, <1>4, <3>1
  <2>3. i <= m \/ i > m
    OBVIOUS
  <2>4. QED
    BY <2>1, <2>2, <2>3
<1>6. a \o b = wire
  BY <1>4, <1>5, SameWire
<1>7. QED
  BY <1>6 DEF a, b

LEMMA PassOn ==
  ASSUME NEW s \in Wires, NEW wire \in Wires, NEW m \in 0 .. Len(wire)
  PROVE  (s \o SubSeq(wire, 1, m)) \o Rest(wire, m) = s \o wire
<1>1. SubSeq(wire, 1, m) \in Wires /\ Rest(wire, m) \in Wires
  BY FirstProps, RestProps
<1>2. (s \o SubSeq(wire, 1, m)) \o Rest(wire, m) = s \o (SubSeq(wire, 1, m) \o Rest(wire, m))
  <2> DEFINE a == SubSeq(wire, 1, m)  b == Rest(wire, m)
  <2>1. a \in Wires /\ b \in Wires
    BY <1>1
  <2> HIDE DEF a, b
  <2>2. (s \o a) \o b = s \o (a \o b)
    BY <2>1, ConcatAssociative
  <2>3. QED
    BY <2>2 DEF a, b
<1>3. QED
  BY <1>2, FirstAndRest

-----------------------------------------------------------------------------
(* Tokens and frames.                                                      *)
LEMMA BytesProps ==
  ASSUME NEW first \in Nat \ {0}, NEW n \in Nat
  PROVE  /\ Bytes(first, n) \in Wires
         /\ Len(Bytes(first, n)) = n
         /\ \A i \in 1 .. n : Bytes(first, n)[i] = Byte(first + i - 1)
<1>1. \A i \in 1 .. n : Byte(first + i - 1) \in Tokens
  BY DEF Byte, Tokens, Kinds
<1>2. QED
  BY <1>1 DEF Bytes, Wires

LEMMA NextBytes ==
  ASSUME NEW s \in Nat, NEW n \in Nat
  PROVE  /\ Bytes(s + 1, n) \in Wires /\ Len(Bytes(s + 1, n)) = n
         /\ AreBytes(Bytes(s + 1, n), s)
<1> DEFINE x == Bytes(s + 1, n)
<1>1. s + 1 \in Nat \ {0}
  OBVIOUS
<1>2. x \in Wires /\ Len(x) = n /\ \A i \in 1 .. n : x[i] = Byte(s + 1 + i - 1)
  BY <1>1, BytesProps
<1>3. \A i \in 1 .. n : s + 1 + i - 1 = s + i
  OBVIOUS
<1> HIDE DEF x
<1>4. QED
  BY <1>2, <1>3 DEF AreBytes, x

LEMMA FillersProps ==
  ASSUME NEW n \in Nat
  PROVE  Fillers(n) \in Wires /\ Len(Fillers(n)) = n
<1>1. Filler \in Tokens
  BY DEF Filler, Tokens, Kinds
<1>2. QED
  BY <1>1 DEF Fillers, Wires

LEMMA FrameProps ==
  ASSUME NEW mode \in {"first", "next"}, NEW u \in Nat, NEW cmd \in Nat,
         NEW content \in Wires, NEW s \in Nat, AreBytes(content, s), NEW pad \in Nat
  PROVE  /\ Frame(mode, u, cmd, content, pad) \in Wires
         /\ IsFrame(Frame(mode, u, cmd, content, pad), mode, cmd, s, Len(content), pad)
<1> DEFINE uuid == IF mode = "first" THEN <<Uuid(u)>> ELSE << >>
           head == <<FrameHead(cmd, Len(content), pad)>>
           h == HeadIn(mode)
           fill == Fillers(pad)
<1>0. Len(content) \in Nat /\ Len(head) = 1 /\ head[1] = FrameHead(cmd, Len(content), pad)
  OBVIOUS
<1>1. uuid \in Wires /\ head \in Wires /\ fill \in Wires /\ Len(fill) = pad
  <2>1. Uuid(u) \in Tokens /\ FrameHead(cmd, Len(content), pad) \in Tokens
    BY <1>0 DEF Uuid, FrameHead, Tokens, Kinds
  <2>2. QED
    BY <2>1, FillersProps DEF Wires
<1>2. h \in 1 .. 2 /\ Len(uuid) = h - 1
  BY DEF HeadIn
<1> HIDE DEF uuid, head, h, fill
<1> DEFINE a == uuid \o head  b == a \o content  f == b \o fill
<1>3. a \in Wires /\ Len(a) = h /\ a[h] = FrameHead(cmd, Len(content), pad)
  <2>1. /\ a \in Wires /\ Len(a) = Len(uuid) + Len(head)
        /\ \A i \in 1 .. Len(head) : a[Len(uuid) + i] = head[i]
    BY <1>1, JoinProps
  <2>2. a[Len(uuid) + 1] = head[1]
    BY <1>0, <2>1
  <2>3. QED
    BY <1>0, <1>2, <2>1, <2>2
<1> HIDE DEF a
<1>4. /\ b \in Wires /\ Len(b) = h + Len(content)
      /\ b[h] = a[h] /\ \A k \in 1 .. Len(content) : b[h + k] = content[k]
  <2>1. /\ b \in Wires /\ Len(b) = Len(a) + Len(content)
        /\ \A i \in 1 .. Len(a) : b[i] = a[i]
        /\ \A i \in 1 .. Len(content) : b[Len(a) + i] = content[i]
    BY <1>3, JoinProps
  <2>2. QED
    BY <1>2, <1>3, <2>1
<1> HIDE DEF b
<1>5. /\ f \in Wires /\ Len(f) = h + Len(content) + pad
      /\ \A i \in 1 .. h + Len(content) : f[i] = b[i]
  <2>1. /\ f \in Wires /\ Len(f) = Len(b) + Len(fill)
        /\ \A i \in 1 .. Len(b) : f[i] = b[i]
    BY <1>1, <1>4, JoinProps
  <2>2. QED
    BY <1>1, <1>2, <1>4, <2>1
<1>6. f[h] = FrameHead(cmd, Len(content), pad)
  BY <1>0, <1>2, <1>3, <1>4, <1>5
<1>7. \A k \in 1 .. Len(content) : f[h + k] = content[k]
  BY <1>0, <1>2, <1>4, <1>5
<1>8. Frame(mode, u, cmd, content, pad) = f
  <2>1. Frame(mode, u, cmd, content, pad) = ((uuid \o head) \o content) \o fill
    BY DEF Frame, uuid, head, fill
  <2>2. QED
    BY <2>1 DEF a, b
<1>9. IsFrame(f, mode, cmd, s, Len(content), pad)
  <2> HIDE DEF f
  <2>1. \A k \in 1 .. Len(content) : f[h + k] = Byte(s + k)
    BY <1>7 DEF AreBytes
  <2>2. QED
    BY <1>5, <1>6, <2>1 DEF IsFrame, h
<1>10. QED
  BY <1>5, <1>8, <1>9

-----------------------------------------------------------------------------
(* How a parse goes on. What is cut off, or another user id in the first   *)
(* frame, leaves a parse a parse.                                          *)
LEMMA ParseCut ==
  ASSUME NEW wire \in Wires, NEW cut \in Wires, Len(cut) <= Len(wire),
         NEW marks, NEW mode, NEW n \in Nat, NEW top \in Nat, Parse(wire, marks, mode, n, top),
         \A i \in 1 .. Len(cut) : i > 1 \/ mode # "first" => cut[i] = wire[i]
  PROVE  Parse(cut, marks, mode, n, top)
<1>0. Len(wire) \in Nat /\ Len(cut) \in Nat
  OBVIOUS
<1> SUFFICES ASSUME NEW i \in DOMAIN marks
             PROVE  IF marks[i].mode = "raw" THEN BytesFrom(cut, i, marks[i].n, top)
                    ELSE FrameAt(cut, marks, i)
  BY DEF Parse
<1>1. /\ i \in Nat \ {0} /\ marks[i] \in Marks
      /\ IF marks[i].mode = "raw" THEN BytesFrom(wire, i, marks[i].n, top)
         ELSE FrameAt(wire, marks, i)
      /\ i = 1 => marks[i].mode = mode
  BY DEF Parse, Mark
<1>2. CASE marks[i].mode = "raw"
  <2>1. SUFFICES ASSUME NEW j \in i .. Len(cut)
                 PROVE  cut[j] = Byte(marks[i].n + (j - i) + 1) /\ marks[i].n + (j - i) + 1 <= top
    BY <1>2 DEF BytesFrom
  <2>2. j \in i .. Len(wire) /\ j \in 1 .. Len(cut)
    BY <1>0, <1>1
  <2>3. wire[j] = Byte(marks[i].n + (j - i) + 1) /\ marks[i].n + (j - i) + 1 <= top
    BY <1>1, <1>2, <2>2 DEF BytesFrom
  <2>4. j > 1 \/ mode # "first"
    BY <1>1, <1>2, <2>2
  <2>5. QED
    BY <2>2, <2>3, <2>4
<1>3. CASE marks[i].mode # "raw"
  <2> DEFINE h == HeadOf(marks, i)
  <2>1. SUFFICES ASSUME h <= Len(cut)
                 PROVE  /\ cut[h].v \in Nat \X Nat \X Nat
                        /\ \A k \in 1 .. cut[h].v[2] :
                             h + k <= Len(cut) => cut[h + k] = Byte(marks[i].n + k)
                        /\ EndOf(cut, h) \in DOMAIN marks
                        /\ marks[EndOf(cut, h)]
                             = Mark(After(cut[h].v[1]), marks[i].n + cut[h].v[2])
    BY <1>3 DEF FrameAt
  <2>2. h \in Nat \ {0} /\ (i = 1 /\ mode = "first" => h = 2) /\ h >= i
    BY <1>1 DEF HeadOf, HeadIn
  <2> HIDE DEF h
  <2>3. h > 1 \/ mode # "first"
    BY <1>1, <2>2
  <2>4. cut[h] = wire[h] /\ h <= Len(wire)
    BY <1>0, <2>1, <2>2, <2>3
  <2>5. /\ wire[h].v \in Nat \X Nat \X Nat
        /\ \A k \in 1 .. wire[h].v[2] : h + k <= Len(wire) => wire[h + k] = Byte(marks[i].n + k)
        /\ EndOf(wire, h) \in DOMAIN marks
        /\ marks[EndOf(wire, h)] = Mark(After(wire[h].v[1]), marks[i].n + wire[h].v[2])
    BY <1>1, <1>3, <2>4 DEF FrameAt, h
  <2>6. ASSUME NEW k \in 1 .. wire[h].v[2], h + k <= Len(cut)
        PROVE  cut[h + k] = Byte(marks[i].n + k)
    <3>1. k \in Nat \ {0}
      BY <2>5
    <3>2. h + k \in 1 .. Len(cut) /\ h + k > 1 /\ h + k <= Len(wire)
      BY <1>0, <2>2, <2>6, <3>1
    <3>3. QED
      BY <2>5, <3>2
  <2>7. EndOf(cut, h) = EndOf(wire, h)
    BY <2>4 DEF EndOf
  <2>8. QED
    BY <2>4, <2>5, <2>6, <2>7
<1>4. QED
  BY <1>2, <1>3

(* More may have been put in meanwhile.                                    *)
LEMMA ParseTop ==
  ASSUME NEW wire \in Wires, NEW marks, NEW mode, NEW n \in Nat,
         NEW top \in Nat, NEW more \in Nat, top <= more, Parse(wire, marks, mode, n, top)
  PROVE  Parse(wire, marks, mode, n, more)
<1> SUFFICES ASSUME NEW i \in DOMAIN marks
             PROVE  /\ marks[i] \in Marks /\ marks[i].n <= more
                    /\ IF marks[i].mode = "raw" THEN BytesFrom(wire, i, marks[i].n, more)
                       ELSE FrameAt(wire, marks, i)
  BY DEF Parse
<1>1. marks[i] \in Marks /\ i \in Nat /\ marks[i].n \in Nat /\ marks[i].n <= top
  BY DEF Parse, Marks
<1>2. marks[i].mode = "raw" => BytesFrom(wire, i, marks[i].n, more)
  BY <1>1 DEF Parse, BytesFrom
<1>3. QED
  BY <1>1, <1>2 DEF Parse

(* A frame put where a complete wire ends.                                 *)
LEMMA ParseFrame ==
  ASSUME NEW wire \in Wires, NEW marks, NEW mode, NEW n \in Nat,
         NEW m \in {"first", "next"}, NEW s \in Nat,
         Parse(wire, marks, mode, n, s), Complete(wire, marks, m, s),
         NEW cmd \in Nat, NEW len \in Nat, NEW pad \in Nat,
         NEW f \in Wires, IsFrame(f, m, cmd, s, len, pad)
  PROVE  \E more : /\ Parse(wire \o f, more, mode, n, s + len)
                   /\ Complete(wire \o f, more, After(cmd), s + len)
                   /\ Extends(more, marks)
<1> DEFINE p == Len(wire) + 1  q == p + Len(f)  w == wire \o f
           more == [i \in DOMAIN marks \cup {q} |->
                      IF i = q THEN Mark(After(cmd), s + len) ELSE marks[i]]
<1> DEFINE lw == Len(wire)  lf == Len(f)
<1>0. /\ lw \in Nat /\ lf \in Nat /\ HeadIn(m) \in {1, 2} /\ lf = HeadIn(m) + len + pad
      /\ p = lw + 1 /\ q = p + lf
  BY DEF HeadIn, IsFrame
<1>1. /\ w \in Wires /\ Len(w) = Len(wire) + Len(f)
      /\ \A i \in 1 .. Len(wire) : w[i] = wire[i]
      /\ \A i \in 1 .. Len(f) : w[Len(wire) + i] = f[i]
  BY JoinProps
<1>2. /\ DOMAIN marks \subseteq Nat \ {0} /\ 1 \in DOMAIN marks /\ marks[1] = Mark(mode, n)
      /\ \A i \in DOMAIN marks : marks[i] \in Marks /\ marks[i].n <= s
  BY DEF Parse
<1>3. p \in DOMAIN marks /\ marks[p] = Mark(m, s)
  <2>1. p \in DOMAIN marks
    BY DEF Complete
  <2>2. QED
    BY <1>0, <2>1 DEF Complete, EndsAt
<1>4. \A i \in DOMAIN marks : i \in 1 .. p /\ marks[i].mode # "raw"
                              /\ (i # p => HeadOf(marks, i) <= Len(wire))
  BY <1>0, <1>2, <1>3 DEF Complete, EndsAt, Mark
<1> HIDE DEF lw, lf, p, q
<1>5. q \notin DOMAIN marks /\ q \in Nat \ {0} /\ q = Len(w) + 1 /\ Len(w) = lw + lf
  <2>1. Len(w) = lw + lf
    BY <1>1 DEF lw, lf
  <2>2. q \in Nat /\ q > p /\ q = lw + lf + 1
    BY <1>0
  <2>3. \A i \in DOMAIN marks : i \in 1 .. p
    BY <1>4
  <2>4. q \notin DOMAIN marks
    BY <1>0, <2>2, <2>3
  <2>5. QED
    BY <2>1, <2>2, <2>4
<1> HIDE DEF w
<1>6. After(cmd) \in {"raw", "next"} /\ Mark(After(cmd), s + len) \in Marks
  BY DEF After, Mark, Marks, Modes
<1>7. /\ DOMAIN more = DOMAIN marks \cup {q} /\ more[q] = Mark(After(cmd), s + len)
      /\ \A i \in DOMAIN marks : more[i] = marks[i]
  BY <1>5
<1> HIDE DEF more
<1>8. ASSUME NEW i \in DOMAIN marks
      PROVE  FrameAt(w, more, i) /\ HeadOf(more, i) <= Len(w)
  <2> DEFINE h == HeadOf(marks, i)
  <2>0. h = HeadOf(more, i) /\ h \in Nat \ {0} /\ marks[i].mode # "raw"
    BY <1>2, <1>4, <1>7, <1>8 DEF HeadOf, HeadIn
  <2>1. CASE i = p
    <3>1. h = lw + HeadIn(m)
      BY <1>0, <1>3, <2>1 DEF HeadOf, Mark
    <3>2. w[h] = FrameHead(cmd, len, pad) /\ h <= Len(w)
      <4>1. HeadIn(m) \in 1 .. lf /\ h <= lw + lf
        BY <1>0, <3>1
      <4>2. w[h] = f[HeadIn(m)]
        BY <1>1, <3>1, <4>1 DEF lw, lf
      <4>3. QED
        BY <1>5, <4>1, <4>2 DEF IsFrame
    <3>3. w[h].v \in Nat \X Nat \X Nat /\ w[h].v[1] = cmd /\ w[h].v[2] = len /\ w[h].v[3] = pad
      BY <3>2 DEF FrameHead
    <3>4. EndOf(w, h) = q
      BY <1>0, <3>1, <3>3 DEF EndOf
    <3>5. \A k \in 1 .. len : w[h + k] = Byte(s + k)
      <4>1. ASSUME NEW k \in 1 .. len
            PROVE  w[h + k] = Byte(s + k)
        <5>1. HeadIn(m) + k \in 1 .. lf /\ h + k = lw + (HeadIn(m) + k)
          BY <1>0, <3>1
        <5>2. w[h + k] = f[HeadIn(m) + k]
          BY <1>1, <5>1 DEF lw, lf
        <5>3. QED
          BY <5>2 DEF IsFrame
      <4>2. QED
        BY <4>1
    <3>6. more[i] = Mark(m, s)
      BY <1>3, <1>7, <2>1
    <3> HIDE DEF h
    <3>7. QED
      BY <1>7, <2>0, <3>2, <3>3, <3>4, <3>5, <3>6 DEF FrameAt, Mark
  <2>2. CASE i # p
    <3>1. h <= lw /\ FrameAt(wire, marks, i)
      BY <1>4, <2>0, <2>2 DEF Parse, lw
    <3>2. w[h] = wire[h] /\ h <= Len(w)
      <4>1. h \in 1 .. lw /\ h <= lw + lf
        BY <1>0, <2>0, <3>1
      <4>2. QED
        BY <1>1, <1>5, <4>1 DEF lw
    <3>3. /\ wire[h].v \in Nat \X Nat \X Nat
          /\ \A k \in 1 .. wire[h].v[2] :
               h + k <= Len(wire) => wire[h + k] = Byte(marks[i].n + k)
          /\ EndOf(wire, h) \in DOMAIN marks
          /\ marks[EndOf(wire, h)] = Mark(After(wire[h].v[1]), marks[i].n + wire[h].v[2])
      BY <2>0, <3>1 DEF FrameAt, lw
    <3>4. EndOf(w, h) = EndOf(wire, h) /\ EndOf(wire, h) <= lw + 1
      BY <1>0, <1>4, <3>2, <3>3 DEF EndOf
    <3> HIDE DEF h
    <3>5. ASSUME NEW k \in 1 .. wire[h].v[2]
          PROVE  w[h + k] = Byte(marks[i].n + k)
      <4>1. h + k \in 1 .. lw
        <5>1. /\ k \in Nat \ {0} /\ k <= wire[h].v[2]
              /\ wire[h].v[2] \in Nat /\ wire[h].v[3] \in Nat
          BY <3>3
        <5>2. h + wire[h].v[2] + wire[h].v[3] + 1 <= lw + 1
          BY <3>4 DEF EndOf
        <5>3. QED
          BY <1>0, <2>0, <5>1, <5>2
      <4>2. w[h + k] = wire[h + k]
        BY <1>1, <4>1 DEF lw
      <4>3. h + k <= Len(wire)
        BY <1>0, <4>1 DEF lw
      <4>4. QED
        BY <3>3, <4>2, <4>3
    <3>6. more[EndOf(w, h)] = marks[EndOf(wire, h)] /\ EndOf(w, h) \in DOMAIN more
      BY <1>7, <3>3, <3>4
    <3>7. more[i] = marks[i]
      BY <1>7
    <3>8. QED
      BY <2>0, <3>2, <3>3, <3>4, <3>5, <3>6, <3>7 DEF FrameAt
  <2>3. QED
    BY <2>1, <2>2
<1>9. Parse(w, more, mode, n, s + len)
  <2>1. \A i \in DOMAIN more : more[i] \in Marks /\ more[i].n <= s + len
    <3>1. Mark(After(cmd), s + len).n = s + len
      BY DEF Mark
    <3>2. \A i \in DOMAIN marks : marks[i].n \in Nat
      BY <1>2 DEF Marks
    <3>3. QED
      BY <1>2, <1>6, <1>7, <3>1, <3>2
  <2>2. IF more[q].mode = "raw" THEN BytesFrom(w, q, more[q].n, s + len) ELSE FrameAt(w, more, q)
    <3>1. BytesFrom(w, q, more[q].n, s + len)
      BY <1>1, <1>5 DEF BytesFrom
    <3>2. ~(HeadOf(more, q) <= Len(w))
      BY <1>0, <1>5 DEF HeadOf, HeadIn
    <3>3. QED
      BY <3>1, <3>2 DEF FrameAt
  <2>3. \A i, j \in DOMAIN more : more[i].mode = "raw" => j <= i
    <3>1. \A j \in DOMAIN marks : j <= q
      <4>1. \A j \in DOMAIN marks : j \in 1 .. p
        BY <1>4
      <4>2. QED
        BY <1>0, <4>1
    <3>2. \A i \in DOMAIN more : more[i].mode = "raw" => i = q
      BY <1>4, <1>7
    <3>3. QED
      BY <1>5, <1>7, <3>1, <3>2
  <2>4. QED
    BY <1>2, <1>4, <1>5, <1>7, <1>8, <2>1, <2>2, <2>3 DEF Parse
<1>10. Complete(w, more, After(cmd), s + len)
  <2>1. EndsAt(w, more, q, After(cmd), s + len)
    BY <1>5, <1>7 DEF EndsAt
  <2>2. ASSUME NEW i \in DOMAIN marks
        PROVE  EndsAt(w, more, i, After(cmd), s + len)
    <3>1. i <= Len(w) /\ more[i].mode # "raw"
      <4>1. i \in 1 .. p /\ more[i].mode # "raw"
        BY <1>4, <1>7
      <4>2. Len(w) = lw + lf /\ lf >= 1
        BY <1>0, <1>5
      <4>3. QED
        BY <1>0, <4>1, <4>2
    <3>2. QED
      BY <1>8, <3>1 DEF EndsAt
  <2>3. QED
    BY <1>5, <1>7, <2>1, <2>2 DEF Complete
<1>11. Extends(more, marks)
  BY <1>7 DEF Extends
<1>12. QED
  BY <1>9, <1>10, <1>11 DEF w

(* Bytes put where a complete wire ends without frames.                    *)
LEMMA ParseBytes ==
  ASSUME NEW wire \in Wires, NEW marks, NEW mode, NEW n \in Nat, NEW s \in Nat,
         Parse(wire, marks, mode, n, s), Complete(wire, marks, "raw", s),
         NEW x \in Wires, AreBytes(x, s)
  PROVE  /\ Parse(wire \o x, marks, mode, n, s + Len(x))
         /\ Complete(wire \o x, marks, "raw", s + Len(x))
<1> DEFINE lw == Len(wire)  lx == Len(x)  w == wire \o x
<1>0. lw \in Nat /\ lx \in Nat
  BY WireLen
<1>1. /\ w \in Wires /\ Len(w) = lw + lx
      /\ \A i \in 1 .. lw : w[i] = wire[i]
      /\ \A i \in 1 .. lx : w[lw + i] = Byte(s + i)
  <2>1. /\ w \in Wires /\ Len(w) = lw + lx
        /\ \A i \in 1 .. lw : w[i] = wire[i]
        /\ \A i \in 1 .. lx : w[lw + i] = x[i]
    BY JoinProps
  <2>2. \A i \in 1 .. lx : x[i] = Byte(s + i)
    BY DEF AreBytes
  <2>3. QED
    BY <2>1, <2>2
<1>2. /\ DOMAIN marks \subseteq Nat \ {0} /\ 1 \in DOMAIN marks /\ marks[1] = Mark(mode, n)
      /\ \A i \in DOMAIN marks : marks[i] \in Marks /\ marks[i].n <= s
  BY DEF Parse
<1> HIDE DEF lw, lx, w
<1>3. ASSUME NEW i \in DOMAIN marks
      PROVE  /\ IF marks[i].mode = "raw" THEN BytesFrom(w, i, marks[i].n, s + lx)
                ELSE FrameAt(w, marks, i)
             /\ EndsAt(w, marks, i, "raw", s + lx)
  <2> DEFINE b == marks[i].n
  <2>1. i \in Nat \ {0} /\ b \in Nat /\ b <= s
    BY <1>2 DEF Marks
  <2>2. EndsAt(wire, marks, i, "raw", s)
    BY DEF Complete
  <2>3. CASE marks[i].mode = "raw"
    <3>1. i <= lw + 1 /\ s = b + lw + 1 - i
      <4>1. CASE i = lw + 1 /\ marks[i] = Mark("raw", s)
        BY <1>0, <2>1, <4>1 DEF Mark
      <4>2. CASE i <= lw /\ s = b + lw + 1 - i
        BY <1>0, <2>1, <4>2
      <4>3. QED
        BY <2>2, <2>3, <4>1, <4>2 DEF EndsAt, lw
    <3>2. BytesFrom(wire, i, b, s)
      BY <2>3 DEF Parse
    <3> HIDE DEF b
    <3>3. ASSUME NEW j \in i .. Len(w)
          PROVE  w[j] = Byte(b + (j - i) + 1) /\ b + (j - i) + 1 <= s + lx
      <4>1. j \in i .. lw + lx /\ j \in Nat
        BY <1>0, <1>1, <2>1
      <4>2. CASE j <= lw
        <5>1. j \in i .. lw /\ j \in 1 .. lw
          BY <1>0, <2>1, <4>1, <4>2
        <5>2. wire[j] = Byte(b + (j - i) + 1) /\ b + (j - i) + 1 <= s
          BY <3>2, <5>1 DEF BytesFrom, lw
        <5>3. w[j] = wire[j]
          BY <1>1, <5>1
        <5>4. b + (j - i) + 1 <= s + lx
          BY <1>0, <2>1, <4>1, <5>2
        <5>5. QED
          BY <5>2, <5>3, <5>4
      <4>3. CASE j > lw
        <5>1. j - lw \in 1 .. lx /\ lw + (j - lw) = j /\ s + (j - lw) = b + (j - i) + 1
              /\ b + (j - i) + 1 <= s + lx
          <6>1. j - i >= 0 /\ j - lw >= 1 /\ j - lw <= lx
            BY <1>0, <2>1, <4>1, <4>3
          <6>2. s + (j - lw) = b + (j - i) + 1
            BY <1>0, <2>1, <3>1, <4>1
          <6>3. QED
            BY <1>0, <2>1, <4>1, <6>1, <6>2
        <5>2. w[lw + (j - lw)] = Byte(s + (j - lw))
          BY <1>1, <5>1
        <5>3. QED
          BY <5>1, <5>2
      <4>4. QED
        BY <1>0, <4>1, <4>2, <4>3
    <3>4. BytesFrom(w, i, b, s + lx)
      BY <3>3 DEF BytesFrom
    <3>5. EndsAt(w, marks, i, "raw", s + lx)
      <4>1. s + lx = b + (lw + lx) + 1 - i
        BY <1>0, <2>1, <3>1
      <4>2. CASE i = lw + lx + 1
        <5>1. marks[i] = Mark("raw", s + lx)
          <6>1. b = s + lx
            BY <1>0, <2>1, <4>1, <4>2
          <6>2. marks[i] = Mark(marks[i].mode, marks[i].n)
            BY <1>2 DEF Marks, Mark
          <6>3. QED
            BY <2>3, <6>1, <6>2 DEF b
        <5>2. QED
          BY <1>1, <4>2, <5>1 DEF EndsAt
      <4>3. CASE i <= lw + lx
        BY <1>1, <2>3, <4>1, <4>3 DEF EndsAt, b
      <4>4. i = lw + lx + 1 \/ i <= lw + lx
        BY <1>0, <2>1, <3>1
      <4>5. QED
        BY <4>2, <4>3, <4>4
    <3>6. QED
      BY <2>3, <3>4, <3>5 DEF b
  <2>4. CASE marks[i].mode # "raw"
    <3> DEFINE h == HeadOf(marks, i)
    <3>1. i <= lw /\ h <= lw /\ FrameAt(wire, marks, i)
      <4>1. i # lw + 1 \/ marks[i] # Mark("raw", s)
        BY <2>4 DEF Mark
      <4>2. QED
        BY <2>2, <2>4, <4>1 DEF EndsAt, Parse, lw
    <3>2. h \in Nat \ {0}
      BY <2>1 DEF HeadOf, HeadIn
    <3>3. /\ wire[h].v \in Nat \X Nat \X Nat
          /\ \A k \in 1 .. wire[h].v[2] : h + k <= lw => wire[h + k] = Byte(b + k)
          /\ EndOf(wire, h) \in DOMAIN marks
          /\ marks[EndOf(wire, h)] = Mark(After(wire[h].v[1]), b + wire[h].v[2])
      BY <3>1 DEF FrameAt, lw
    <3>4. w[h] = wire[h] /\ h <= Len(w)
      <4>1. h \in 1 .. lw /\ h <= lw + lx
        BY <1>0, <3>1, <3>2
      <4>2. QED
        BY <1>1, <4>1
    <3>5. EndsAt(wire, marks, EndOf(wire, h), "raw", s)
      BY <3>3 DEF Complete
    <3>6. EndOf(wire, h) \in Nat /\ EndOf(wire, h) <= lw + 1
      <4>1. EndOf(wire, h) \in Nat
        BY <1>2, <3>3
      <4>2. EndOf(wire, h) = lw + 1 \/ EndOf(wire, h) <= lw
        BY <3>5 DEF EndsAt, lw
      <4>3. QED
        BY <1>0, <4>1, <4>2
    <3>7. i <= Len(w)
      BY <1>0, <1>1, <2>1, <3>1
    <3>8. EndsAt(w, marks, i, "raw", s + lx)
      BY <2>4, <3>4, <3>7 DEF EndsAt
    <3> HIDE DEF h, b
    <3>9. ASSUME NEW k \in 1 .. wire[h].v[2]
          PROVE  w[h + k] = Byte(b + k)
      <4>1. h + k \in 1 .. lw
        <5>1. /\ k \in Nat \ {0} /\ k <= wire[h].v[2]
              /\ wire[h].v[2] \in Nat /\ wire[h].v[3] \in Nat
          BY <3>3
        <5>2. h + wire[h].v[2] + wire[h].v[3] + 1 <= lw + 1
          BY <3>6 DEF EndOf
        <5>3. QED
          BY <1>0, <3>2, <5>1, <5>2
      <4>2. w[h + k] = wire[h + k] /\ h + k <= lw
        BY <1>0, <1>1, <4>1
      <4>3. QED
        BY <3>3, <4>2
    <3>10. EndOf(w, h) = EndOf(wire, h)
      BY <3>4 DEF EndOf
    <3>11. FrameAt(w, marks, i)
      BY <3>3, <3>4, <3>9, <3>10 DEF FrameAt, h, b
    <3>12. QED
      BY <2>4, <3>8, <3>11
  <2>5. QED
    BY <2>3, <2>4
<1>4. Parse(w, marks, mode, n, s + lx)
  <2>1. \A i \in DOMAIN marks : marks[i].n \in Nat /\ marks[i].n <= s + lx
    BY <1>0, <1>2 DEF Marks
  <2>2. QED
    BY <1>2, <1>3, <2>1 DEF Parse
<1>5. Complete(w, marks, "raw", s + lx)
  BY <1>3 DEF Complete
<1>6. QED
  BY <1>4, <1>5 DEF w, lx

(* A frame taken from the front: its content is what comes next, and the   *)
(* rest of the wire is parsed as its command says.                         *)
LEMMA ParseRest ==
  ASSUME NEW wire \in Wires, NEW marks, NEW mode \in {"first", "next"}, NEW n \in Nat,
         NEW top \in Nat, Parse(wire, marks, mode, n, top),
         NEW rest \in Wires, NEW m \in Nat, Len(wire) = m + Len(rest),
         \A i \in 1 .. Len(rest) : rest[i] = wire[i + m],
         HeadIn(mode) <= Len(wire), FrameEnd(wire, mode) = m,
         NEW len \in Nat, NEW cmd, HasHead(wire, HeadIn(mode), cmd, len)
  PROVE  /\ n + len <= top /\ Begins(wire, HeadIn(mode), len, n)
         /\ \E fewer : /\ Parse(rest, fewer, After(cmd), n + len, top)
                       /\ Continues(rest, fewer, wire, marks, m)
<1> DEFINE h == HeadIn(mode)
           lw == Len(wire)  lr == Len(rest)
           fewer == [i \in {j \in Nat \ {0} : j + m \in DOMAIN marks} |-> marks[i + m]]
<1>0. lw \in Nat /\ lr \in Nat /\ lw = m + lr /\ h \in {1, 2}
  BY WireLen DEF HeadIn
<1>1. /\ DOMAIN marks \subseteq Nat \ {0} /\ 1 \in DOMAIN marks /\ marks[1] = Mark(mode, n)
      /\ \A i \in DOMAIN marks : marks[i] \in Marks /\ marks[i].n <= top
  BY DEF Parse
<1>2. HeadOf(marks, 1) = h
  BY <1>0, <1>1 DEF HeadOf, Mark
<1>3. /\ wire[h].v \in Nat \X Nat \X Nat
      /\ \A k \in 1 .. len : h + k <= Len(wire) => wire[h + k] = Byte(n + k)
      /\ EndOf(wire, h) \in DOMAIN marks
      /\ marks[EndOf(wire, h)] = Mark(After(cmd), n + len)
  <2>1. FrameAt(wire, marks, 1) /\ h <= Len(wire) /\ marks[1].n = n
    BY <1>1 DEF Parse, Mark
  <2>2. wire[h].v[1] = cmd /\ wire[h].v[2] = len
    BY DEF HasHead
  <2>3. QED
    BY <1>2, <2>1, <2>2 DEF FrameAt
<1>4. EndOf(wire, h) = m + 1 /\ m >= h + len
  <2> DEFINE pad == wire[h].v[3]  e == EndOf(wire, h)
  <2>1. len \in Nat /\ pad \in Nat
    BY <1>3
  <2>2. m = h + len + pad
    BY DEF FrameEnd, ContentEnd, HasHead
  <2>3. e = h + len + pad + 1
    BY DEF EndOf, HasHead
  <2> HIDE DEF h, pad, e
  <2>4. e = m + 1 /\ m >= h + len
    BY <1>0, <2>1, <2>2, <2>3
  <2>5. QED
    BY <2>4 DEF e
<1>5. \A k \in 1 .. len : wire[h + k] = Byte(n + k)
  <2>1. len \in Nat
    BY <1>3
  <2>2. \A k \in 1 .. len : h + k <= Len(wire) => wire[h + k] = Byte(n + k)
    BY <1>3
  <2> HIDE DEF h
  <2>3. \A k \in 1 .. len : h + k <= lw
    BY <1>0, <1>4, <2>1
  <2>4. QED
    BY <2>2, <2>3
<1>6. n + len <= top
  BY <1>1, <1>3 DEF Mark
<1> HIDE DEF h, lw, lr
<1>7. /\ DOMAIN fewer \subseteq Nat \ {0}
      /\ \A i \in Nat \ {0} : i \in DOMAIN fewer <=> i + m \in DOMAIN marks
      /\ \A i \in DOMAIN fewer : fewer[i] = marks[i + m]
  OBVIOUS
<1> HIDE DEF fewer
<1>8. 1 \in DOMAIN fewer /\ fewer[1] = Mark(After(cmd), n + len)
  BY <1>3, <1>4, <1>7
<1>9. ASSUME NEW i \in DOMAIN fewer
      PROVE  IF fewer[i].mode = "raw" THEN BytesFrom(rest, i, fewer[i].n, top)
             ELSE FrameAt(rest, fewer, i)
  <2> DEFINE b == fewer[i].n  g == HeadOf(fewer, i)
  <2>1. i \in Nat \ {0} /\ i + m \in DOMAIN marks /\ fewer[i] = marks[i + m]
    BY <1>7
  <2>2. b \in Nat /\ g \in Nat \ {0} /\ g >= i /\ HeadOf(marks, i + m) = g + m
    BY <1>1, <2>1 DEF HeadOf, HeadIn, Marks
  <2>3. CASE fewer[i].mode = "raw"
    <3>1. BytesFrom(wire, i + m, b, top)
      BY <2>1, <2>3 DEF Parse
    <3> HIDE DEF b
    <3>2. ASSUME NEW j \in i .. lr
          PROVE  rest[j] = Byte(b + (j - i) + 1) /\ b + (j - i) + 1 <= top
      <4>1. j \in 1 .. lr /\ j + m \in i + m .. lw /\ (j + m) - (i + m) = j - i
        BY <1>0, <2>1
      <4>2. wire[j + m] = Byte(b + (j - i) + 1) /\ b + (j - i) + 1 <= top
        BY <3>1, <4>1 DEF BytesFrom, lw
      <4>3. QED
        BY <4>1, <4>2 DEF lr
    <3>3. BytesFrom(rest, i, b, top)
      BY <3>2 DEF BytesFrom, lr
    <3>4. QED
      BY <2>3, <3>3 DEF b
  <2>4. CASE fewer[i].mode # "raw"
    <3>1. FrameAt(wire, marks, i + m)
      BY <2>1, <2>4 DEF Parse
    <3> SUFFICES ASSUME g <= lr
                 PROVE  /\ rest[g].v \in Nat \X Nat \X Nat
                        /\ \A k \in 1 .. rest[g].v[2] : g + k <= lr => rest[g + k] = Byte(b + k)
                        /\ EndOf(rest, g) \in DOMAIN fewer
                        /\ fewer[EndOf(rest, g)] = Mark(After(rest[g].v[1]), b + rest[g].v[2])
      BY <2>4 DEF FrameAt, lr
    <3>2. g + m <= lw /\ rest[g] = wire[g + m]
      <4>1. g \in 1 .. lr /\ g + m <= lw
        BY <1>0, <2>2
      <4>2. QED
        BY <4>1 DEF lr
    <3>3. /\ wire[g + m].v \in Nat \X Nat \X Nat
          /\ \A k \in 1 .. wire[g + m].v[2] :
               g + m + k <= lw => wire[g + m + k] = Byte(b + k)
          /\ EndOf(wire, g + m) \in DOMAIN marks
          /\ marks[EndOf(wire, g + m)] = Mark(After(wire[g + m].v[1]), b + wire[g + m].v[2])
      BY <2>1, <2>2, <3>1, <3>2 DEF FrameAt, lw
    <3> HIDE DEF g, b
    <3>4. ASSUME NEW k \in 1 .. rest[g].v[2], g + k <= lr
          PROVE  rest[g + k] = Byte(b + k)
      <4>1. k \in Nat \ {0} /\ k \in 1 .. wire[g + m].v[2]
        BY <3>2, <3>3
      <4>2. g + k \in 1 .. lr /\ (g + k) + m = g + m + k /\ g + m + k <= lw
        BY <1>0, <2>2, <3>4, <4>1
      <4>3. rest[g + k] = wire[(g + k) + m]
        BY <4>2 DEF lr
      <4>4. QED
        BY <3>3, <4>1, <4>2, <4>3
    <3>5. EndOf(wire, g + m) = EndOf(rest, g) + m /\ EndOf(rest, g) \in Nat \ {0}
      <4> DEFINE u == wire[g + m].v[2]  v == wire[g + m].v[3]
                 d == EndOf(wire, g + m)  e == EndOf(rest, g)
      <4>1. u \in Nat /\ v \in Nat
        BY <3>3
      <4>2. d = (g + m) + u + v + 1
        BY DEF EndOf
      <4>3. e = g + u + v + 1
        BY <3>2 DEF EndOf
      <4> HIDE DEF u, v, d, e
      <4>4. d = e + m /\ e \in Nat \ {0}
        BY <2>2, <4>1, <4>2, <4>3
      <4>5. QED
        BY <4>4 DEF d, e
    <3>6. EndOf(rest, g) \in DOMAIN fewer
          /\ fewer[EndOf(rest, g)] = marks[EndOf(wire, g + m)]
      BY <1>7, <3>3, <3>5
    <3>7. QED
      BY <3>2, <3>3, <3>4, <3>6
  <2>5. QED
    BY <2>3, <2>4
<1>10. Parse(rest, fewer, After(cmd), n + len, top)
  <2>1. \A i \in DOMAIN fewer : fewer[i] \in Marks /\ fewer[i].n <= top
    BY <1>1, <1>7
  <2>2. \A i, j \in DOMAIN fewer : fewer[i].mode = "raw" => j <= i
    <3>1. ASSUME NEW i \in DOMAIN fewer, NEW j \in DOMAIN fewer, fewer[i].mode = "raw"
          PROVE  j <= i
      <4>1. i \in Nat /\ j \in Nat /\ i + m \in DOMAIN marks /\ j + m \in DOMAIN marks
            /\ marks[i + m].mode = "raw"
        BY <1>7, <3>1
      <4>2. j + m <= i + m
        BY <4>1 DEF Parse
      <4>3. QED
        BY <4>1, <4>2
    <3>2. QED
      BY <3>1
  <2>3. QED
    BY <1>7, <1>8, <1>9, <2>1, <2>2 DEF Parse
<1>11. ASSUME NEW m2, NEW s, Complete(wire, marks, m2, s)
       PROVE  Complete(rest, fewer, m2, s)
  <2>1. ASSUME NEW i \in DOMAIN fewer
        PROVE  EndsAt(rest, fewer, i, m2, s)
    <3>1. i \in Nat \ {0} /\ i + m \in DOMAIN marks /\ fewer[i] = marks[i + m]
      BY <1>7
    <3>2. EndsAt(wire, marks, i + m, m2, s)
      BY <1>11, <3>1 DEF Complete
    <3>3. HeadOf(marks, i + m) = HeadOf(fewer, i) + m /\ HeadOf(fewer, i) \in Nat
      <4> DEFINE u == HeadIn(fewer[i].mode)  d == HeadOf(marks, i + m)  e == HeadOf(fewer, i)
      <4>1. u \in {1, 2}
        BY DEF HeadIn
      <4>2. e = i + u - 1
        BY DEF HeadOf
      <4>3. d = (i + m) + u - 1
        BY <3>1 DEF HeadOf
      <4> HIDE DEF u, d, e
      <4>4. d = e + m /\ e \in Nat
        BY <3>1, <4>1, <4>2, <4>3
      <4>5. QED
        BY <4>4 DEF d, e
    <3>4. marks[i + m].n \in Nat
      BY <1>1, <3>1 DEF Marks
    <3>5. CASE i + m = lw + 1 /\ marks[i + m] = Mark(m2, s)
      <4>1. i = lr + 1
        BY <1>0, <3>1, <3>5
      <4>2. QED
        BY <3>1, <3>5, <4>1 DEF EndsAt, lr
    <3>6. CASE i + m <= lw /\ marks[i + m].mode # "raw" /\ HeadOf(marks, i + m) <= lw
      <4>1. i <= lr /\ HeadOf(fewer, i) <= lr
        BY <1>0, <3>1, <3>3, <3>6
      <4>2. QED
        BY <3>1, <3>6, <4>1 DEF EndsAt, lr
    <3>7. CASE i + m <= lw /\ marks[i + m].mode = "raw" /\ m2 = "raw"
               /\ s = marks[i + m].n + lw + 1 - (i + m)
      <4>1. i <= lr /\ s = marks[i + m].n + lr + 1 - i
        <5> DEFINE b == marks[i + m].n
        <5>1. b \in Nat /\ i + m <= lw /\ s = b + lw + 1 - (i + m)
          BY <3>4, <3>7
        <5> HIDE DEF b
        <5>2. i <= lr /\ s = b + lr + 1 - i
          BY <1>0, <3>1, <5>1
        <5>3. QED
          BY <5>2 DEF b
      <4>2. QED
        BY <3>1, <3>7, <4>1 DEF EndsAt, lr
    <3>8. QED
      BY <3>2, <3>5, <3>6, <3>7 DEF EndsAt, lw
  <2>2. ASSUME m2 # "raw"
        PROVE  lr + 1 \in DOMAIN fewer
    <3>1. lw + 1 \in DOMAIN marks /\ lw + 1 = (lr + 1) + m /\ lr + 1 \in Nat \ {0}
      BY <1>0, <1>11, <2>2 DEF Complete, lw
    <3>2. QED
      BY <1>7, <3>1
  <2>3. QED
    BY <2>1, <2>2 DEF Complete, lr
<1>12. \A i \in Nat \ {0} :
          i + m \in DOMAIN marks => i \in DOMAIN fewer /\ fewer[i] = marks[i + m]
  BY <1>7
<1>13. Continues(rest, fewer, wire, marks, m) /\ Begins(wire, h, len, n)
  BY <1>5, <1>11, <1>12 DEF Continues, Begins
<1>14. QED
  BY <1>6, <1>10, <1>13 DEF h

(* A wire of bytes without frames, or an empty one, is its own parse.      *)
LEMMA BareParse ==
  ASSUME NEW wire \in Wires, NEW mode \in {"first", "next", "raw"}, NEW n \in Nat,
         NEW top \in Nat, n + Len(wire) <= top, AreBytes(wire, n),
         mode = "raw" \/ Len(wire) = 0
  PROVE  \E marks : Parse(wire, marks, mode, n, top)
                    /\ Complete(wire, marks, mode, n + Len(wire))
<1> DEFINE marks == [i \in {1} |-> Mark(mode, n)]  lw == Len(wire)
<1>0. lw \in Nat /\ n + lw <= top
  BY WireLen
<1>1. DOMAIN marks = {1} /\ marks[1] = Mark(mode, n)
  OBVIOUS
<1>2. Mark(mode, n) \in Marks /\ Mark(mode, n).n = n /\ Mark(mode, n).mode = mode
  BY DEF Mark, Marks, Modes
<1> HIDE DEF marks, lw
<1>3. BytesFrom(wire, 1, n, top)
  <2>1. ASSUME NEW j \in 1 .. lw
        PROVE  wire[j] = Byte(n + (j - 1) + 1) /\ n + (j - 1) + 1 <= top
    <3>1. n + (j - 1) + 1 = n + j /\ n + j <= top
      BY <1>0
    <3>2. wire[j] = Byte(n + j)
      BY DEF AreBytes, lw
    <3>3. QED
      BY <3>1, <3>2
  <2>2. QED
    BY <2>1 DEF BytesFrom, lw
<1>4. mode # "raw" => FrameAt(wire, marks, 1)
  <2>1. HeadOf(marks, 1) \in {1, 2}
    BY <1>1, <1>2 DEF HeadOf, HeadIn
  <2>2. mode # "raw" => ~(HeadOf(marks, 1) <= Len(wire))
    BY <2>1
  <2>3. QED
    BY <2>2 DEF FrameAt
<1>5. Parse(wire, marks, mode, n, top)
  <2>1. n <= top
    BY <1>0
  <2>2. QED
    BY <1>1, <1>2, <1>3, <1>4, <2>1 DEF Parse
<1>6. EndsAt(wire, marks, 1, mode, n + lw)
  <2>1. CASE lw = 0
    BY <1>1, <2>1 DEF EndsAt, lw
  <2>2. CASE lw # 0
    <3>1. 1 <= lw /\ n + lw = n + lw + 1 - 1
      BY <1>0, <2>2
    <3>2. mode = "raw"
      BY <2>2 DEF lw
    <3>3. QED
      BY <1>1, <1>2, <3>1, <3>2 DEF EndsAt, lw
  <2>3. QED
    BY <2>1, <2>2
<1>7. Complete(wire, marks, mode, n + lw)
  <2>1. mode # "raw" => Len(wire) + 1 \in DOMAIN marks
    BY <1>1
  <2>2. QED
    BY <1>1, <1>6, <2>1 DEF Complete
<1>8. QED
  BY <1>5, <1>7 DEF lw

(* What a parse says of a wire without frames.                             *)
LEMMA RawParse ==
  ASSUME NEW wire \in Wires, NEW marks, NEW n \in Nat, NEW top \in Nat,
         Parse(wire, marks, "raw", n, top)
  PROVE  /\ n + Len(wire) <= top /\ AreBytes(wire, n)
         /\ \A m, s : Complete(wire, marks, m, s) => m = "raw" /\ s = n + Len(wire)
<1> DEFINE lw == Len(wire)
<1>0. lw \in Nat
  BY WireLen
<1>1. 1 \in DOMAIN marks /\ marks[1] = Mark("raw", n) /\ n <= top
  BY DEF Parse, Mark
<1>2. BytesFrom(wire, 1, n, top)
  BY <1>1 DEF Parse, Mark
<1> HIDE DEF lw
<1>3. \A j \in 1 .. lw : wire[j] = Byte(n + j) /\ n + j <= top
  <2>1. ASSUME NEW j \in 1 .. lw
        PROVE  wire[j] = Byte(n + j) /\ n + j <= top
    <3>1. n + (j - 1) + 1 = n + j
      OBVIOUS
    <3>2. wire[j] = Byte(n + (j - 1) + 1) /\ n + (j - 1) + 1 <= top
      BY <1>2 DEF BytesFrom, lw
    <3>3. QED
      BY <3>1, <3>2
  <2>2. QED
    BY <2>1
<1>4. n + lw <= top
  <2>1. CASE lw = 0
    BY <1>1, <2>1
  <2>2. CASE lw # 0
    <3>1. lw \in 1 .. lw
      BY <1>0, <2>2
    <3>2. QED
      BY <1>3, <3>1
  <2>3. QED
    BY <2>1, <2>2
<1>5. ASSUME NEW m, NEW s, Complete(wire, marks, m, s)
      PROVE  m = "raw" /\ s = n + lw
  <2>1. EndsAt(wire, marks, 1, m, s)
    BY <1>1, <1>5 DEF Complete
  <2>2. CASE 1 = lw + 1 /\ marks[1] = Mark(m, s)
    <3>1. m = "raw" /\ s = n /\ lw = 0
      BY <1>0, <1>1, <2>2 DEF Mark
    <3>2. QED
      BY <3>1
  <2>3. CASE m = "raw" /\ s = marks[1].n + lw + 1 - 1
    <3>1. marks[1].n = n
      BY <1>1 DEF Mark
    <3>2. QED
      BY <1>0, <2>3, <3>1
  <2>4. marks[1].mode = "raw"
    BY <1>1 DEF Mark
  <2>5. QED
    BY <2>1, <2>2, <2>3, <2>4 DEF EndsAt, lw
<1>6. QED
  BY <1>3, <1>4, <1>5 DEF AreBytes, lw

(* The one frame of VisionWriter, and the bytes it writes after it.        *)
LEMMA ParseFirst ==
  ASSUME NEW f \in Wires, NEW n \in Nat, NEW len \in Nat, NEW pad \in Nat,
         IsFrame(f, "first", 1, n, len, pad),
         NEW x \in Wires, AreBytes(x, n + len), NEW top \in Nat, n + len + Len(x) <= top
  PROVE  \E marks : /\ Parse(f \o x, marks, "first", n, top)
                    /\ Complete(f \o x, marks, "raw", n + len + Len(x))
<1> DEFINE e == << >>
<1>1. e \in Wires /\ Len(e) = 0 /\ AreBytes(e, n)
  BY DEF Wires, AreBytes
<1>2. n + 0 = n /\ n <= n /\ n + len \in Nat
  OBVIOUS
<1> HIDE DEF e
<1>3. PICK none : Parse(e, none, "first", n, n) /\ Complete(e, none, "first", n)
  BY <1>1, <1>2, BareParse
<1>4. PICK some : /\ Parse(e \o f, some, "first", n, n + len)
                  /\ Complete(e \o f, some, After(1), n + len)
  <2>1. "first" \in {"first", "next"} /\ 1 \in Nat
    OBVIOUS
  <2>2. QED
    BY <1>1, <1>3, <2>1, ParseFrame
<1>5. e \o f = f /\ After(1) = "raw"
  BY DEF Wires, After, e
<1>6. /\ Parse(f \o x, some, "first", n, n + len + Len(x))
      /\ Complete(f \o x, some, "raw", n + len + Len(x))
  BY <1>2, <1>4, <1>5, ParseBytes
<1>7. f \o x \in Wires /\ n + len + Len(x) \in Nat
  <2>1. f \o x \in Wires
    BY JoinProps
  <2>2. Len(x) \in Nat
    BY WireLen
  <2>3. QED
    BY <2>1, <2>2
<1>8. Parse(f \o x, some, "first", n, top)
  BY <1>6, <1>7, ParseTop
<1>9. QED
  BY <1>6, <1>8

(* Bytes joined and divided.                                               *)
LEMMA MinProps ==
  ASSUME NEW a \in Nat, NEW b \in Nat
  PROVE  Min({a, b}) \in Nat /\ Min({a, b}) <= a /\ Min({a, b}) <= b
<1>1. \E m \in {a, b} : \A i \in {a, b} : m <= i
  OBVIOUS
<1>2. Min({a, b}) \in {a, b} /\ \A i \in {a, b} : Min({a, b}) <= i
  BY <1>1 DEF Min
<1>3. QED
  BY <1>2

LEMMA MidAndRest ==
  ASSUME NEW wire \in Wires, NEW n \in 0 .. Len(wire), NEW m \in 0 .. n
  PROVE  /\ SubSeq(wire, m + 1, n) \in Wires /\ Len(SubSeq(wire, m + 1, n)) = n - m
         /\ \A i \in 1 .. n - m : SubSeq(wire, m + 1, n)[i] = wire[i + m]
         /\ SubSeq(wire, m + 1, n) \o Rest(wire, n) = Rest(wire, m)
<1> DEFINE lw == Len(wire)  a == SubSeq(wire, m + 1, n)  b == Rest(wire, n)  c == Rest(wire, m)
<1>1. lw \in Nat /\ n \in Nat /\ m \in Nat /\ m <= n /\ n <= lw
  BY WireLen
<1>2. \A i \in m + 1 .. n : wire[i] \in Tokens
  BY <1>1 DEF Wires
<1>3. /\ a \in Wires
      /\ Len(a) = IF m + 1 <= n THEN n - (m + 1) + 1 ELSE 0
      /\ \A i \in 1 .. n - (m + 1) + 1 : a[i] = wire[(m + 1) + i - 1]
  BY <1>1, <1>2, SubSeqProperties DEF Wires
<1>4. /\ b \in Wires /\ Len(b) = lw - n
      /\ \A i \in 1 .. lw - n : b[i] = wire[i + n]
  BY RestProps
<1>5. m \in 0 .. Len(wire)
  BY <1>1 DEF lw
<1>6. /\ c \in Wires /\ Len(c) = lw - m
      /\ \A i \in 1 .. lw - m : c[i] = wire[i + m]
  BY <1>5, RestProps
<1> HIDE DEF a, b, c, lw
<1>7. /\ Len(a) = n - m
      /\ \A i \in 1 .. n - m : a[i] = wire[i + m]
  BY <1>1, <1>3
<1>8. /\ a \o b \in Wires
      /\ Len(a \o b) = Len(a) + Len(b)
      /\ \A i \in 1 .. Len(a) : (a \o b)[i] = a[i]
      /\ \A i \in 1 .. Len(b) : (a \o b)[Len(a) + i] = b[i]
  BY <1>3, <1>4, JoinProps
<1> DEFINE ab == a \o b
<1> HIDE DEF ab
<1>9. /\ ab \in Wires /\ Len(ab) = lw - m
      /\ \A i \in 1 .. n - m : ab[i] = a[i]
      /\ \A i \in 1 .. lw - n : ab[n - m + i] = b[i]
  BY <1>1, <1>4, <1>7, <1>8 DEF ab
<1>10. ASSUME NEW i \in 1 .. lw - m
       PROVE  ab[i] = c[i]
  <2>1. CASE i <= n - m
    BY <1>1, <1>6, <1>7, <1>9, <2>1
  <2>2. CASE i > n - m
    <3>1. i - (n - m) \in 1 .. lw - n /\ i = n - m + (i - (n - m)) /\ i - (n - m) + n = i + m
      BY <1>1, <2>2
    <3>2. ab[i] = b[i - (n - m)] /\ b[i - (n - m)] = wire[i + m]
      BY <1>4, <1>9, <3>1
    <3>3. QED
      BY <1>6, <3>2
  <2>3. i <= n - m \/ i > n - m
    BY <1>1
  <2>4. QED
    BY <2>1, <2>2, <2>3
<1>11. ab = c
  BY <1>6, <1>9, <1>10, SameWire
<1>12. QED
  BY <1>3, <1>7, <1>11 DEF a, b, c, ab

LEMMA RestBytes ==
  ASSUME NEW wire \in Wires, NEW m \in 0 .. Len(wire), NEW s \in Nat, AreBytes(wire, s)
  PROVE  AreBytes(Rest(wire, m), s + m)
<1> DEFINE b == Rest(wire, m)  lw == Len(wire)
<1>1. /\ b \in Wires /\ Len(b) = lw - m
      /\ \A i \in 1 .. lw - m : b[i] = wire[i + m]
  BY RestProps
<1>2. lw \in Nat /\ m \in Nat /\ m <= lw /\ \A k \in 1 .. lw : wire[k] = Byte(s + k)
  BY WireLen DEF AreBytes
<1> HIDE DEF b, lw
<1>3. ASSUME NEW k \in 1 .. lw - m
      PROVE  b[k] = Byte(s + m + k)
  <2>1. k + m \in 1 .. lw /\ s + (k + m) = s + m + k
    BY <1>2
  <2>2. b[k] = wire[k + m] /\ wire[k + m] = Byte(s + (k + m))
    BY <1>1, <1>2, <2>1
  <2>3. QED
    BY <2>1, <2>2
<1>4. QED
  BY <1>1, <1>3 DEF AreBytes, b

(* What a read returns is what comes next in the stream.                   *)
LEMMA ReturnProps ==
  ASSUME NEW o \in Seq(Nat), \A i \in 1 .. Len(o) : o[i] = i,
         NEW bytes \in Wires, AreBytes(bytes, Len(o)), NEW m \in 0 .. Len(bytes)
  PROVE  LET o2 == o \o Places(SubSeq(bytes, 1, m)) IN
         /\ o2 = o \o Stream!From(Len(o) + 1, m)
         /\ o2 \in Seq(Nat) /\ Len(o2) = Len(o) + m
         /\ \A i \in 1 .. Len(o2) : o2[i] = i
<1> DEFINE a == SubSeq(bytes, 1, m)  lo == Len(o)  p == [i \in 1 .. m |-> lo + 1 + i - 1]
<1>1. a \in Wires /\ Len(a) = m /\ \A i \in 1 .. m : a[i] = bytes[i]
  BY FirstProps
<1>2. lo \in Nat /\ m \in Nat /\ Len(bytes) \in Nat
  BY WireLen
<1>3. \A i \in 1 .. m : a[i].v[1] = lo + 1 + i - 1
  <2>1. \A i \in 1 .. m : a[i] = Byte(lo + i)
    BY <1>1, <1>2 DEF AreBytes
  <2>2. \A i \in Int : Byte(i).v[1] = i
    BY DEF Byte
  <2> HIDE DEF a, lo
  <2>3. \A i \in 1 .. m : lo + i \in Int /\ lo + i = lo + 1 + i - 1
    BY <1>2
  <2>4. QED
    BY <2>1, <2>2, <2>3
<1>4. DOMAIN a = 1 .. m
  BY <1>1 DEF Wires
<1>5. Places(a) = p
  <2> HIDE DEF a
  <2>1. QED
    BY <1>3, <1>4 DEF Places
<1>6. Stream!From(lo + 1, m) = p
  BY DEF Stream!From
<1>7. p \in Seq(Nat) /\ Len(p) = m /\ \A i \in 1 .. m : p[i] = lo + 1 + i - 1
  <2> HIDE DEF lo
  <2>1. QED
    BY <1>2
<1> HIDE DEF p, a
<1>8. /\ o \o p \in Seq(Nat) /\ Len(o \o p) = Len(o) + Len(p)
      /\ \A i \in 1 .. Len(o) + Len(p) : (o \o p)[i] = IF i <= Len(o) THEN o[i] ELSE p[i - Len(o)]
  BY <1>7, ConcatProperties
<1> DEFINE op == o \o p
<1> HIDE DEF op, lo
<1>9. /\ op \in Seq(Nat) /\ Len(op) = lo + m
      /\ \A i \in 1 .. lo + m : op[i] = IF i <= lo THEN o[i] ELSE p[i - lo]
  BY <1>7, <1>8 DEF op, lo
<1>10. ASSUME NEW i \in 1 .. lo + m
       PROVE  op[i] = i
  <2>1. CASE i <= lo
    <3>1. i \in 1 .. Len(o)
      BY <2>1, <1>2 DEF lo
    <3>2. QED
      BY <1>9, <2>1, <3>1
  <2>2. CASE i > lo
    <3>1. i - lo \in 1 .. m /\ lo + 1 + (i - lo) - 1 = i /\ ~(i <= lo)
      BY <1>2, <2>2
    <3>2. QED
      BY <1>7, <1>9, <3>1
  <2>3. i <= lo \/ i > lo
    BY <1>2
  <2>4. QED
    BY <2>1, <2>2, <2>3
<1>11. QED
  BY <1>5, <1>6, <1>9, <1>10 DEF op, lo, a

-----------------------------------------------------------------------------
(***************************************************************************)
(* The invariant. What has come out, with what is decoded, is the stream   *)
(* up to some byte; the line is parsed into what follows; VisionRelay      *)
(* stands where a frame begins; the parts of the proxy have come equally   *)
(* far.                                                                    *)
(***************************************************************************)
Typed ==
  /\ from \in {"client", "backend"} /\ vision \in BOOLEAN
  /\ sent \in 0 .. MaxBytes
  /\ source \in {"first", "next", "raw"} /\ proxy \in Modes /\ reader \in Modes
  /\ near \in Wires /\ far \in Wires /\ buf \in Wires /\ out \in Seq(Nat)
  /\ stripped \in BOOLEAN /\ shut \in BOOLEAN /\ lost \in BOOLEAN

Delivered ==
  /\ \A i \in 1 .. Len(out) : out[i] = i
  /\ AreBytes(buf, Len(out))
  /\ Len(out) + Len(buf) <= sent

Stages ==
  /\ from = "client" => stripped
  /\ ~stripped =>
       /\ far = << >> /\ proxy \in {"first", "ended"}
       /\ near # << >> => near[1].v[1] \in Nat
       /\ ~shut => HasResponse
  /\ Decoding => far = << >> /\ proxy = "ended"
  /\ Encoding => source = "raw" /\ proxy \in {"first", "raw", "ended"}
  /\ ~Decoding /\ proxy = "ended" => shut
  /\ proxy = "first" => far = << >> /\ reader = "first"

(* The line is read as the reader goes on, but before VisionWriter has     *)
(* written anything nothing on it is framed.                               *)
ReadAs(mode) ==
  IF Encoding /\ proxy = "first" THEN mode = "raw"
  ELSE mode \in {"first", "next", "raw"} /\ (reader # "ended" => mode = reader)

Aligned(marks) ==
  Relaying /\ proxy \in {"first", "next"} =>
    Len(far) + 1 \in DOMAIN marks /\ marks[Len(far) + 1].mode = proxy

ParsedAs(marks, mode, n) ==
  /\ Parse(Line, marks, mode, n, sent)
  /\ ReadAs(mode)
  /\ reader # "ended" => n = Len(out) + Len(buf)
  /\ ~shut => Complete(Line, marks, source, sent)
  /\ Aligned(marks)

Parsed == \E marks, mode, n : n \in Nat /\ ParsedAs(marks, mode, n)

IInv == Typed /\ Delivered /\ Stages /\ Parsed

-----------------------------------------------------------------------------
(* The line is a wire, and begins the direction empty.                     *)
LEMMA LineType ==
  ASSUME Typed, Stages
  PROVE  Body \in Wires /\ Line \in Wires
<1>1. Body \in Wires
  <2>1. << >> \in Wires
    BY DEF Wires
  <2>2. CASE stripped
    BY <2>2 DEF Body, Typed
  <2>3. CASE ~stripped /\ ~HasResponse
    BY <2>1, <2>3 DEF Body
  <2>4. CASE ~stripped /\ HasResponse
    <3>1. near \in Wires /\ near[1].v[1] \in Nat /\ Len(near) > near[1].v[1] /\ Len(near) \in Nat
      BY <2>4, WireLen DEF Typed, Stages, HasResponse
    <3>2. 1 + near[1].v[1] \in 0 .. Len(near)
      BY <3>1
    <3>3. QED
      BY <2>4, <3>1, <3>2, RestProps DEF Body
  <2>5. QED
    BY <2>2, <2>3, <2>4
<1>2. QED
  BY <1>1, JoinProps DEF Line, Typed

LEMMA EmptyLine ==
  ASSUME NEW mode \in {"first", "next", "raw"}, NEW n \in Nat, NEW top \in Nat, n <= top,
         NEW line, line = << >>
  PROVE  \E marks : Parse(line, marks, mode, n, top) /\ Complete(line, marks, mode, n)
<1>1. line \in Wires /\ Len(line) = 0 /\ AreBytes(line, n)
  BY DEF Wires, AreBytes
<1>2. n + Len(line) = n
  BY <1>1
<1> HIDE DEF Wires
<1>3. QED
  BY <1>1, <1>2, BareParse

LEMMA InitIInv == Init => IInv
<1> SUFFICES ASSUME Init PROVE IInv
  OBVIOUS
<1> USE VisionAssumption DEF Init
<1>1. << >> \in Wires /\ Len(<< >>) = 0
  BY DEF Wires
<1>2. CASE from = "client"
  <2>1. near = << >> /\ stripped /\ ~Encoding
    BY <1>2 DEF Encoding
  <2>2. QED
    <3>1. Typed
      <4>1. source \in {"first", "next", "raw"} /\ proxy \in Modes /\ reader \in Modes
        BY DEF Modes
      <4>2. sent \in 0 .. MaxBytes /\ buf = << >> /\ out \in Seq(Nat) /\ far = << >>
        OBVIOUS
      <4>3. from \in {"client", "backend"} /\ vision \in BOOLEAN /\ shut \in BOOLEAN /\ lost \in BOOLEAN
        OBVIOUS
      <4>4. QED
        BY <1>1, <2>1, <4>1, <4>2, <4>3 DEF Typed
    <3>2. Delivered
      BY DEF Delivered, AreBytes
    <3>3. Stages
      BY <1>2, <2>1 DEF Stages, Decoding
    <3>4. Line = << >>
      BY <2>1 DEF Line, Body
    <3>5. PICK marks : Parse(Line, marks, "first", 0, 0) /\ Complete(Line, marks, "first", 0)
      BY <3>4, EmptyLine
    <3>6. 1 \in DOMAIN marks /\ marks[1].mode = "first"
      BY <3>5 DEF Parse, Mark
    <3>7. ParsedAs(marks, "first", 0)
      BY <2>1, <3>5, <3>6 DEF ParsedAs, ReadAs, Aligned, Relaying, Decoding
    <3>8. QED
      BY <3>1, <3>2, <3>3, <3>7 DEF IInv, Parsed
<1>3. CASE from = "backend"
  <2>1. PICK n \in Paddings : near = <<Response(n)>> \o Fillers(n)
    BY <1>3
  <2>2. n \in Nat /\ <<Response(n)>> \in Wires /\ Len(<<Response(n)>>) = 1
        /\ <<Response(n)>>[1] = Response(n)
    BY DEF Wires, Tokens, Kinds, Response
  <2>3. near \in Wires /\ Len(near) = 1 + n /\ near[1] = Response(n)
    <3> DEFINE r == <<Response(n)>>  f == Fillers(n)
    <3>1. f \in Wires /\ Len(f) = n
      BY <2>2, FillersProps
    <3>2. r \in Wires /\ Len(r) = 1 /\ r[1] = Response(n)
      BY <2>2
    <3> HIDE DEF r, f
    <3>3. /\ r \o f \in Wires /\ Len(r \o f) = Len(r) + Len(f)
          /\ \A i \in 1 .. Len(r) : (r \o f)[i] = r[i]
      BY <3>1, <3>2, JoinProps
    <3>4. near = r \o f
      BY <2>1 DEF r, f
    <3>5. QED
      BY <3>1, <3>2, <3>3, <3>4
  <2>4. near[1].v[1] = n /\ HasResponse
    <3>1. near[1].v[1] = n
      BY <2>3 DEF Response
    <3>2. near # << >>
      BY <2>2, <2>3
    <3>3. QED
      BY <2>2, <2>3, <3>1, <3>2 DEF HasResponse
  <2>5. Line = << >>
    <3>1. 1 + n \in 0 .. Len(near)
      BY <2>2, <2>3
    <3>2. Rest(near, 1 + n) \in Wires /\ Len(Rest(near, 1 + n)) = 0
      BY <2>2, <2>3, <3>1, RestProps
    <3>3. Rest(near, 1 + n) = << >>
      BY <3>2 DEF Wires
    <3>4. Body = << >>
      BY <1>3, <2>4, <3>3 DEF Body
    <3>5. QED
      BY <3>4 DEF Line
  <2>6. Typed
    <3>1. source \in {"first", "next", "raw"} /\ proxy \in Modes /\ reader \in Modes
      BY DEF Modes
    <3>2. sent \in 0 .. MaxBytes /\ buf = << >> /\ out \in Seq(Nat) /\ far = << >>
      OBVIOUS
    <3>3. from \in {"client", "backend"} /\ vision \in BOOLEAN /\ shut \in BOOLEAN /\ lost \in BOOLEAN
      OBVIOUS
    <3>4. stripped \in BOOLEAN
      BY <1>3
    <3>5. QED
      BY <1>1, <2>3, <3>1, <3>2, <3>3, <3>4 DEF Typed
  <2>7. Delivered
    BY DEF Delivered, AreBytes
  <2>8. Stages
    BY <1>3, <2>2, <2>4 DEF Stages, Encoding, Decoding
  <2> DEFINE mode == IF Encoding THEN "raw" ELSE "first"
  <2>9. mode \in {"first", "next", "raw"} /\ source = mode
    OBVIOUS
  <2> HIDE DEF mode
  <2>10. PICK marks : Parse(Line, marks, mode, 0, 0) /\ Complete(Line, marks, mode, 0)
    BY <2>5, <2>9, EmptyLine
  <2>11. 1 \in DOMAIN marks /\ marks[1].mode = mode
    BY <2>10 DEF Parse, Mark
  <2>12. Parse(Line, marks, mode, 0, sent) /\ Complete(Line, marks, source, sent)
    BY <2>9, <2>10
  <2>13. Aligned(marks)
    BY <1>1, <1>3, <2>11 DEF Aligned, Relaying, Decoding, Encoding, mode
  <2>14. ReadAs(mode)
    BY <1>3 DEF ReadAs, Decoding, Encoding, mode
  <2>15. ParsedAs(marks, mode, 0)
    BY <1>1, <2>12, <2>13, <2>14 DEF ParsedAs
  <2>16. QED
    BY <2>6, <2>7, <2>8, <2>15 DEF IInv, Parsed
<1>4. QED
  BY <1>2, <1>3

-----------------------------------------------------------------------------
(* What the source does.                                                   *)
LEMMA NearGrows ==
  ASSUME Typed, Stages, ~shut, NEW x \in Wires, near' = near \o x, UNCHANGED <<far, stripped>>
  PROVE  /\ near' \in Wires /\ Line' = Line \o x
         /\ ~stripped => near' # << >> /\ near'[1].v[1] \in Nat /\ HasResponse'
<1>1. /\ near \in Wires /\ far \in Wires /\ Body \in Wires
      /\ Len(near) \in Nat /\ Len(x) \in Nat
  BY LineType, WireLen DEF Typed
<1>2. /\ near' \in Wires /\ Len(near') = Len(near) + Len(x)
      /\ \A i \in 1 .. Len(near) : near'[i] = near[i]
  BY <1>1, JoinProps
<1>3. ASSUME ~stripped
      PROVE  /\ near' # << >> /\ near'[1].v[1] \in Nat /\ HasResponse'
             /\ Body' = Body \o x
  <2>1. /\ near # << >> /\ near[1].v[1] \in Nat /\ Len(near) > near[1].v[1]
    BY <1>3 DEF Stages, HasResponse
  <2>2. near'[1] = near[1]
    BY <1>1, <1>2, <2>1
  <2>3. near' # << >>
    BY <1>1, <1>2, <2>1
  <2>4. Len(near') > near'[1].v[1]
    <3> DEFINE v == near[1].v[1]
    <3>1. near'[1].v[1] = v
      BY <2>2
    <3> HIDE DEF v
    <3>2. Len(near') > v
      BY <1>1, <1>2, <2>1 DEF v
    <3>3. QED
      BY <3>1, <3>2
  <2>5. Body = Rest(near, 1 + near[1].v[1])
    BY <1>3, <2>1 DEF Body, HasResponse
  <2>6. Body' = Rest(near', 1 + near[1].v[1])
    BY <1>3, <2>2, <2>3, <2>4 DEF Body, HasResponse
  <2>7. 1 + near[1].v[1] \in 0 .. Len(near)
    BY <1>1, <2>1
  <2>8. Rest(near \o x, 1 + near[1].v[1]) = Rest(near, 1 + near[1].v[1]) \o x
    BY <1>1, <2>7, RestOfJoin
  <2>9. QED
    BY <2>1, <2>2, <2>3, <2>4, <2>5, <2>6, <2>8 DEF HasResponse
<1>4. Body' = Body \o x
  <2>1. CASE stripped
    BY <2>1 DEF Body
  <2>2. QED
    BY <1>3, <2>1
<1>5. far \o (Body \o x) = (far \o Body) \o x
  <2> DEFINE b == Body
  <2>1. b \in Wires
    BY <1>1
  <2> HIDE DEF b
  <2>2. far \o (b \o x) = (far \o b) \o x
    BY <1>1, <2>1, ConcatAssociative
  <2>3. QED
    BY <2>2 DEF b
<1>6. Line' = Line \o x
  BY <1>4, <1>5 DEF Line
<1>7. QED
  BY <1>2, <1>3, <1>6

LEMMA SourceFrameStep ==
  ASSUME IInv, NEW cmd \in Commands, NEW n \in 0 .. MaxContent, NEW pad \in Paddings,
         SourceFrame(cmd, n, pad)
  PROVE  IInv' /\ sent + n <= MaxBytes
<1> DEFINE f == Frame(source, SourceUUID, cmd, Bytes(sent + 1, n), pad)
<1>1. /\ n \in Nat /\ cmd \in Nat /\ pad \in Nat /\ sent \in Nat /\ MaxBytes \in Nat
      /\ source \in {"first", "next"} /\ sent + n <= MaxBytes /\ ~shut
  BY VisionAssumption DEF IInv, Typed, SourceFrame, Ready
<1>2. f \in Wires /\ IsFrame(f, source, cmd, sent, n, pad)
  <2> DEFINE c == Bytes(sent + 1, n)
  <2>1. c \in Wires /\ Len(c) = n /\ AreBytes(c, sent)
    BY <1>1, NextBytes
  <2>2. SourceUUID \in Nat
    BY DEF SourceUUID, ProxyUUID, BackendUUID
  <2> DEFINE g == Frame(source, SourceUUID, cmd, c, pad)
  <2>3. f = g
    OBVIOUS
  <2> HIDE DEF c, f
  <2>4. g \in Wires /\ IsFrame(g, source, cmd, sent, Len(c), pad)
    BY <1>1, <2>1, <2>2, FrameProps
  <2> HIDE DEF g
  <2>5. QED
    BY <2>1, <2>3, <2>4
<1>3. /\ near' = near \o f /\ source' = After(cmd) /\ sent' = sent + n
      /\ UNCHANGED <<from, vision, far, stripped, proxy, reader, buf, out, shut, lost>>
  BY DEF SourceFrame, path
<1> HIDE DEF f
<1>4. /\ near' \in Wires /\ Line' = Line \o f
      /\ ~stripped => near' # << >> /\ near'[1].v[1] \in Nat /\ HasResponse'
  BY <1>1, <1>2, <1>3, NearGrows DEF IInv
<1>5. Typed'
  <2>1. sent' \in 0 .. MaxBytes /\ source' \in {"first", "next", "raw"}
    BY <1>1, <1>3 DEF After
  <2>2. QED
    BY <1>3, <1>4, <2>1 DEF IInv, Typed
<1>6. Delivered'
  <2>1. Len(out) + Len(buf) <= sent + n
    <3>1. Len(out) \in Nat /\ Len(buf) \in Nat /\ Len(out) + Len(buf) <= sent
      BY WireLen DEF IInv, Typed, Delivered
    <3>2. QED
      BY <1>1, <3>1
  <2>2. QED
    BY <1>3, <2>1 DEF IInv, Delivered
<1>7. Stages'
  <2>1. ~Encoding
    BY <1>1 DEF IInv, Stages
  <2>2. QED
    BY <1>1, <1>3, <1>4, <2>1 DEF IInv, Stages, Encoding, Decoding
<1>8. Parsed'
  <2>1. PICK marks, mode, k : k \in Nat /\ ParsedAs(marks, mode, k)
    BY DEF IInv, Parsed
  <2>2. Parse(Line, marks, mode, k, sent) /\ Complete(Line, marks, source, sent)
    BY <1>1, <2>1 DEF ParsedAs
  <2>3. Line \in Wires
    BY LineType DEF IInv
  <2>4. PICK more : /\ Parse(Line \o f, more, mode, k, sent + n)
                    /\ Complete(Line \o f, more, After(cmd), sent + n)
                    /\ Extends(more, marks)
    <3>1. k \in Nat /\ sent \in Nat /\ cmd \in Nat /\ n \in Nat /\ pad \in Nat
      BY <1>1, <2>1
    <3>2. source \in {"first", "next"} /\ f \in Wires /\ IsFrame(f, source, cmd, sent, n, pad)
      BY <1>1, <1>2
    <3>3. QED
      BY <2>2, <2>3, <3>1, <3>2, ParseFrame
  <2>5. Parse(Line', more, mode, k, sent') /\ Complete(Line', more, source', sent')
    BY <1>3, <1>4, <2>4
  <2>6. Aligned(more)'
    BY <1>3, <2>1, <2>4 DEF ParsedAs, Aligned, Relaying, Extends
  <2>7. ReadAs(mode)'
    BY <1>3, <2>1 DEF ParsedAs, ReadAs, Encoding
  <2>8. (reader # "ended" => k = Len(out) + Len(buf))'
    BY <1>3, <2>1 DEF ParsedAs
  <2>9. ParsedAs(more, mode, k)'
    BY <2>5, <2>6, <2>7, <2>8 DEF ParsedAs
  <2>10. QED
    BY <2>1, <2>9 DEF Parsed
<1>9. QED
  BY <1>1, <1>5, <1>6, <1>7, <1>8 DEF IInv

LEMMA SourceRawStep ==
  ASSUME IInv, NEW n \in Amounts, SourceRaw(n)
  PROVE  IInv'
<1> DEFINE x == Bytes(sent + 1, n)
<1>1. /\ n \in Nat /\ sent \in Nat /\ MaxBytes \in Nat
      /\ source = "raw" /\ sent + n <= MaxBytes /\ ~shut
  BY VisionAssumption DEF IInv, Typed, SourceRaw, Ready, Amounts
<1>2. x \in Wires /\ Len(x) = n /\ AreBytes(x, sent)
  BY <1>1, NextBytes
<1>3. /\ near' = near \o x /\ sent' = sent + n
      /\ UNCHANGED <<from, vision, source, far, stripped, proxy, reader, buf, out, shut, lost>>
  BY DEF SourceRaw, path
<1> HIDE DEF x
<1>4. /\ near' \in Wires /\ Line' = Line \o x
      /\ ~stripped => near' # << >> /\ near'[1].v[1] \in Nat /\ HasResponse'
  BY <1>1, <1>2, <1>3, NearGrows DEF IInv
<1>5. Typed'
  <2>1. sent' \in 0 .. MaxBytes
    BY <1>1, <1>3
  <2>2. QED
    BY <1>3, <1>4, <2>1 DEF IInv, Typed
<1>6. Delivered'
  <2>1. Len(out) + Len(buf) <= sent + n
    <3>1. Len(out) \in Nat /\ Len(buf) \in Nat /\ Len(out) + Len(buf) <= sent
      BY WireLen DEF IInv, Typed, Delivered
    <3>2. QED
      BY <1>1, <3>1
  <2>2. QED
    BY <1>3, <2>1 DEF IInv, Delivered
<1>7. Stages'
  BY <1>1, <1>3, <1>4 DEF IInv, Stages, Encoding, Decoding
<1>8. Parsed'
  <2>1. PICK marks, mode, k : k \in Nat /\ ParsedAs(marks, mode, k)
    BY DEF IInv, Parsed
  <2>2. Parse(Line, marks, mode, k, sent) /\ Complete(Line, marks, "raw", sent)
    BY <1>1, <2>1 DEF ParsedAs
  <2>3. Line \in Wires
    BY LineType DEF IInv
  <2>4. /\ Parse(Line \o x, marks, mode, k, sent + Len(x))
        /\ Complete(Line \o x, marks, "raw", sent + Len(x))
    BY <1>1, <1>2, <2>1, <2>2, <2>3, ParseBytes
  <2>5. Parse(Line', marks, mode, k, sent') /\ Complete(Line', marks, source', sent')
    BY <1>1, <1>2, <1>3, <1>4, <2>4
  <2>6. Aligned(marks)' /\ ReadAs(mode)' /\ (reader # "ended" => k = Len(out) + Len(buf))'
    BY <1>3, <2>1 DEF ParsedAs, Aligned, Relaying, ReadAs, Encoding
  <2>7. ParsedAs(marks, mode, k)'
    BY <2>5, <2>6 DEF ParsedAs
  <2>8. QED
    BY <2>1, <2>7 DEF Parsed
<1>9. QED
  BY <1>5, <1>6, <1>7, <1>8 DEF IInv

LEMMA CutStep ==
  ASSUME IInv, NEW n \in 0 .. Len(near), Cut(n)
  PROVE  IInv'
<1>1. /\ near \in Wires /\ far \in Wires /\ Body \in Wires /\ Line \in Wires
      /\ Len(near) \in Nat /\ sent \in Nat
  BY LineType, WireLen, VisionAssumption DEF IInv, Typed
<1>2. /\ shut' = TRUE /\ near' = SubSeq(near, 1, n) /\ lost' \in BOOLEAN
      /\ UNCHANGED <<from, vision, sent, source, far, stripped, proxy, reader, buf, out>>
  BY DEF Cut, path
<1>3. /\ near' \in Wires /\ Len(near') = n /\ \A i \in 1 .. n : near'[i] = near[i]
  BY <1>1, <1>2, FirstProps
<1>4. near' # << >> => near'[1] = near[1]
  <2>1. near' # << >> => n # 0
    BY <1>3 DEF Wires
  <2>2. QED
    BY <1>1, <1>3, <2>1
<1>5. Typed'
  BY <1>2, <1>3 DEF IInv, Typed
<1>6. Delivered'
  BY <1>2 DEF IInv, Delivered
<1>7. Stages'
  <2>1. ~stripped => (near' # << >> => near'[1].v[1] \in Nat)
    <3>1. near' # << >> => near # << >>
      BY <1>1, <1>3
    <3>2. QED
      BY <1>4, <3>1 DEF IInv, Stages
  <2>2. QED
    BY <1>2, <2>1 DEF IInv, Stages, Encoding, Decoding
<1>8. Body' \in Wires /\ Len(Body') <= Len(Body) /\ \A i \in 1 .. Len(Body') : Body'[i] = Body[i]
  <2>1. CASE stripped
    <3>1. Body = near /\ Body' = near'
      BY <1>2, <2>1 DEF Body
    <3>2. QED
      BY <1>1, <1>3, <3>1
  <2>2. CASE ~stripped /\ ~HasResponse'
    <3>1. Body' = << >>
      BY <1>2, <2>2 DEF Body
    <3>2. << >> \in Wires /\ Len(<< >>) = 0
      BY DEF Wires
    <3>3. Len(Body) \in Nat
      BY <1>1, WireLen
    <3>4. QED
      BY <3>1, <3>2, <3>3
  <2>3. CASE ~stripped /\ HasResponse'
    <3> DEFINE v == near[1].v[1]  a == Rest(near, 1 + v)  b == Rest(near', 1 + v)
    <3>1. v \in Nat /\ Len(near) > v /\ HasResponse
      BY <1>2, <2>3 DEF IInv, Stages, HasResponse
    <3>2. near'[1] = near[1] /\ Len(near') > v
      BY <1>4, <2>3 DEF HasResponse
    <3>3. Body = a
      BY <2>3, <3>1 DEF Body
    <3>4. Body' = b
      BY <1>2, <2>3, <3>2 DEF Body
    <3> HIDE DEF v
    <3>5. 1 + v \in 0 .. Len(near) /\ 1 + v \in 0 .. Len(near')
      BY <1>1, <1>3, <3>1, <3>2
    <3>6. a \in Wires /\ Len(a) = Len(near) - (1 + v)
          /\ \A i \in 1 .. Len(near) - (1 + v) : a[i] = near[i + (1 + v)]
      BY <1>1, <3>5, RestProps
    <3>7. b \in Wires /\ Len(b) = Len(near') - (1 + v)
          /\ \A i \in 1 .. Len(near') - (1 + v) : b[i] = near'[i + (1 + v)]
      BY <1>3, <3>5, RestProps
    <3> HIDE DEF a, b
    <3>8. Len(b) <= Len(a)
      BY <1>1, <1>3, <3>1, <3>6, <3>7
    <3>9. ASSUME NEW i \in 1 .. Len(b)
          PROVE  b[i] = a[i]
      <4>1. i \in 1 .. n - (1 + v) /\ i \in 1 .. Len(near) - (1 + v) /\ i + (1 + v) \in 1 .. n
        BY <1>1, <1>3, <3>1, <3>7
      <4>2. QED
        BY <1>3, <3>6, <3>7, <4>1
    <3>10. QED
      BY <3>3, <3>4, <3>7, <3>8, <3>9
  <2>4. QED
    BY <1>2, <2>1, <2>2, <2>3
<1>9. Line' \in Wires /\ Len(Line') <= Len(Line) /\ \A i \in 1 .. Len(Line') : Line'[i] = Line[i]
  <2> DEFINE a == Body  b == Body'
  <2>1. a \in Wires /\ b \in Wires /\ Len(b) <= Len(a) /\ \A i \in 1 .. Len(b) : b[i] = a[i]
    BY <1>1, <1>8
  <2>2. Line = far \o a /\ Line' = far \o b
    BY <1>2 DEF Line
  <2> HIDE DEF a, b
  <2>3. Len(a) \in Nat /\ Len(b) \in Nat /\ Len(far) \in Nat
    BY <1>1, <2>1, WireLen
  <2> DEFINE fa == far \o a  fb == far \o b
  <2>4. /\ fa \in Wires /\ Len(fa) = Len(far) + Len(a)
        /\ \A i \in 1 .. Len(far) : fa[i] = far[i]
        /\ \A i \in 1 .. Len(a) : fa[Len(far) + i] = a[i]
    BY <1>1, <2>1, JoinProps
  <2>5. /\ fb \in Wires /\ Len(fb) = Len(far) + Len(b)
        /\ \A i \in 1 .. Len(far) : fb[i] = far[i]
        /\ \A i \in 1 .. Len(b) : fb[Len(far) + i] = b[i]
    BY <1>1, <2>1, JoinProps
  <2> HIDE DEF fa, fb
  <2>6. ASSUME NEW i \in 1 .. Len(fb)
        PROVE  fb[i] = fa[i]
    <3>1. CASE i <= Len(far)
      BY <2>3, <2>4, <2>5, <3>1
    <3>2. CASE i > Len(far)
      <4> DEFINE j == i - Len(far)
      <4>1. j \in 1 .. Len(b) /\ j \in 1 .. Len(a) /\ i = Len(far) + j
        BY <2>1, <2>3, <2>5, <3>2
      <4> HIDE DEF j
      <4>2. QED
        BY <2>1, <2>4, <2>5, <4>1
    <3>3. i <= Len(far) \/ i > Len(far)
      BY <2>3, <2>5
    <3>4. QED
      BY <3>1, <3>2, <3>3
  <2>7. Len(fb) <= Len(fa)
    BY <2>1, <2>3, <2>4, <2>5
  <2>8. QED
    BY <2>2, <2>5, <2>6, <2>7 DEF fa, fb
<1>10. Parsed'
  <2>1. PICK marks, mode, k : k \in Nat /\ ParsedAs(marks, mode, k)
    BY DEF IInv, Parsed
  <2>2. Parse(Line, marks, mode, k, sent)
    BY <2>1 DEF ParsedAs
  <2>3. Parse(Line', marks, mode, k, sent)
    <3> DEFINE line == Line'
    <3>1. line \in Wires /\ Len(line) <= Len(Line) /\ \A i \in 1 .. Len(line) : line[i] = Line[i]
      BY <1>9
    <3> HIDE DEF line
    <3>2. Parse(line, marks, mode, k, sent)
      BY <1>1, <2>1, <2>2, <3>1, ParseCut
    <3>3. QED
      BY <3>2 DEF line
  <2>4. Parse(Line', marks, mode, k, sent')
    BY <1>2, <2>3
  <2>5. Aligned(marks)' /\ ReadAs(mode)' /\ (reader # "ended" => k = Len(out) + Len(buf))'
    BY <1>2, <2>1 DEF ParsedAs, Aligned, Relaying, ReadAs, Encoding
  <2>6. ParsedAs(marks, mode, k)'
    BY <1>2, <2>4, <2>5 DEF ParsedAs
  <2>7. QED
    BY <2>1, <2>6 DEF Parsed
<1>11. QED
  BY <1>5, <1>6, <1>7, <1>10 DEF IInv

-----------------------------------------------------------------------------
(* What the proxy does.                                                    *)
LEMMA StripResponseStep ==
  ASSUME IInv, StripResponse
  PROVE  IInv'
<1>1. /\ ~stripped /\ HasResponse /\ stripped' = TRUE /\ near' = Rest(near, 1 + near[1].v[1])
      /\ UNCHANGED <<from, vision, sent, source, far, proxy, reader, buf, out, shut, lost>>
  BY DEF StripResponse, path
<1>2. Body = near' /\ Body' = near'
  BY <1>1 DEF Body
<1>3. Line' = Line /\ near' \in Wires
  BY <1>1, <1>2, LineType DEF Line, IInv
<1>4. Typed' /\ Delivered' /\ Stages'
  BY <1>1, <1>3 DEF IInv, Typed, Delivered, Stages, Encoding, Decoding
<1>5. Parsed'
  <2>1. PICK marks, mode, k : k \in Nat /\ ParsedAs(marks, mode, k)
    BY DEF IInv, Parsed
  <2>2. Parse(Line', marks, mode, k, sent') /\ (~shut' => Complete(Line', marks, source', sent'))
    BY <1>1, <1>3, <2>1 DEF ParsedAs
  <2>3. Aligned(marks)' /\ ReadAs(mode)' /\ (reader # "ended" => k = Len(out) + Len(buf))'
    BY <1>1, <2>1 DEF ParsedAs, Aligned, Relaying, ReadAs, Encoding
  <2>4. ParsedAs(marks, mode, k)'
    BY <2>2, <2>3 DEF ParsedAs
  <2>5. QED
    BY <2>1, <2>4 DEF Parsed
<1>6. QED
  BY <1>4, <1>5 DEF IInv

LEMMA RelayRawStep ==
  ASSUME IInv, NEW n \in Amounts, RelayRaw(n)
  PROVE  IInv'
<1>1. /\ Relaying /\ stripped /\ proxy = "raw" /\ n <= Len(near)
      /\ far' = far \o SubSeq(near, 1, n) /\ near' = Rest(near, n)
      /\ UNCHANGED <<from, vision, sent, source, stripped, proxy, reader, buf, out, shut, lost>>
  BY DEF RelayRaw, path
<1>2. near \in Wires /\ far \in Wires /\ n \in 0 .. Len(near)
  BY <1>1, WireLen DEF IInv, Typed, Amounts
<1>3. near' \in Wires /\ far' \in Wires
  BY <1>1, <1>2, RestProps, FirstProps, JoinProps
<1>4. Line' = Line
  <2>1. Line = far \o near /\ Line' = far' \o near'
    BY <1>1 DEF Line, Body
  <2>2. QED
    BY <1>1, <1>2, <2>1, PassOn
<1>5. Typed' /\ Delivered' /\ Stages'
  BY <1>1, <1>3 DEF IInv, Typed, Delivered, Stages, Encoding, Decoding, Relaying
<1>6. Parsed'
  <2>1. PICK marks, mode, k : k \in Nat /\ ParsedAs(marks, mode, k)
    BY DEF IInv, Parsed
  <2>2. Parse(Line', marks, mode, k, sent') /\ (~shut' => Complete(Line', marks, source', sent'))
    BY <1>1, <1>4, <2>1 DEF ParsedAs
  <2>3. Aligned(marks)' /\ ReadAs(mode)' /\ (reader # "ended" => k = Len(out) + Len(buf))'
    BY <1>1, <2>1 DEF ParsedAs, Aligned, Relaying, ReadAs, Encoding
  <2>4. ParsedAs(marks, mode, k)'
    BY <2>2, <2>3 DEF ParsedAs
  <2>5. QED
    BY <2>1, <2>4 DEF Parsed
<1>7. QED
  BY <1>5, <1>6 DEF IInv

LEMMA ProxyEndStep ==
  ASSUME IInv, NEW n \in 0 .. Len(far), ProxyEnd(n)
  PROVE  IInv'
<1>1. /\ proxy # "ended" /\ shut /\ proxy' = "ended"
      /\ near' = << >> /\ far' = SubSeq(far, 1, n) /\ lost' \in BOOLEAN
      /\ UNCHANGED <<from, vision, sent, source, stripped, reader, buf, out, shut>>
  BY DEF ProxyEnd, path
<1>2. far \in Wires /\ Body \in Wires /\ Line \in Wires /\ Len(far) \in Nat /\ Len(Body) \in Nat
  BY LineType, WireLen DEF IInv, Typed
<1>3. far' \in Wires /\ Len(far') = n /\ \A i \in 1 .. n : far'[i] = far[i]
  BY <1>1, <1>2, FirstProps
<1>4. Line' = far'
  <2>1. Body' = << >>
    BY <1>1 DEF Body, HasResponse
  <2>2. far' \o << >> = far'
    BY <1>3 DEF Wires
  <2>3. QED
    BY <2>1, <2>2 DEF Line
<1>5. Line' \in Wires /\ Len(Line') <= Len(Line) /\ \A i \in 1 .. Len(Line') : Line'[i] = Line[i]
  <2> DEFINE line == far \o Body
  <2>1. Len(line) = Len(far) + Len(Body) /\ \A i \in 1 .. Len(far) : line[i] = far[i]
    BY <1>2, JoinProps
  <2>2. line = Line
    BY DEF Line
  <2> HIDE DEF line
  <2>3. n <= Len(line) /\ \A i \in 1 .. n : line[i] = far[i]
    BY <1>2, <2>1
  <2>4. QED
    BY <1>3, <1>4, <2>2, <2>3
<1>6. far = << >> => far' = << >>
  <2>1. far = << >> => Len(far) = 0
    OBVIOUS
  <2>2. far = << >> => Len(far') = 0
    BY <1>3, <2>1
  <2>3. QED
    BY <1>3, <2>2 DEF Wires
<1>7. Typed' /\ Delivered'
  <2>1. << >> \in Wires
    BY DEF Wires
  <2>2. QED
    BY <1>1, <1>3, <2>1 DEF IInv, Typed, Delivered, Modes
<1>8. Stages'
  BY <1>1, <1>6 DEF IInv, Stages, Encoding, Decoding
<1>9. Parsed'
  <2>1. PICK marks, mode, k : k \in Nat /\ ParsedAs(marks, mode, k)
    BY DEF IInv, Parsed
  <2>2. CASE Encoding /\ proxy = "first"
    <3>1. Line' = << >> /\ reader = "first"
      BY <1>4, <1>6, <2>2 DEF IInv, Stages
    <3>2. PICK c \in Nat : c = Len(out) + Len(buf) /\ c <= sent /\ sent \in Nat
      BY WireLen, VisionAssumption DEF IInv, Typed, Delivered
    <3>3. PICK none : Parse(<< >>, none, "first", c, sent)
      BY <3>2, EmptyLine
    <3>4. ParsedAs(none, "first", c)'
      <4>1. Parse(Line', none, "first", c, sent')
        BY <1>1, <3>1, <3>3
      <4>2. ReadAs("first")' /\ Aligned(none)'
        BY <1>1, <3>1 DEF ReadAs, Aligned
      <4>3. (reader # "ended" => c = Len(out) + Len(buf))'
        BY <1>1, <3>2
      <4>4. QED
        BY <1>1, <4>1, <4>2, <4>3 DEF ParsedAs
    <3>5. QED
      BY <3>2, <3>4 DEF Parsed
  <2>3. CASE ~(Encoding /\ proxy = "first")
    <3>1. Parse(Line', marks, mode, k, sent')
      <4> DEFINE line == Line'
      <4>1. /\ line \in Wires /\ Len(line) <= Len(Line)
            /\ \A i \in 1 .. Len(line) : line[i] = Line[i]
        BY <1>5
      <4> HIDE DEF line
      <4>2. Parse(Line, marks, mode, k, sent) /\ sent \in Nat
        BY <2>1, VisionAssumption DEF ParsedAs, IInv, Typed
      <4>3. Parse(line, marks, mode, k, sent)
        BY <1>2, <2>1, <4>1, <4>2, ParseCut
      <4>4. QED
        BY <1>1, <4>3 DEF line
    <3>2. Aligned(marks)' /\ ReadAs(mode)' /\ (reader # "ended" => k = Len(out) + Len(buf))'
      BY <1>1, <2>1, <2>3 DEF ParsedAs, Aligned, Relaying, ReadAs, Encoding
    <3>3. ParsedAs(marks, mode, k)'
      BY <1>1, <3>1, <3>2 DEF ParsedAs
    <3>4. QED
      BY <2>1, <3>3 DEF Parsed
  <2>4. QED
    BY <2>2, <2>3
<1>10. QED
  BY <1>7, <1>8, <1>9 DEF IInv

(* Whether a parse is complete depends on how long the wire is.            *)
LEMMA CompleteSame ==
  ASSUME NEW wire, NEW other, Len(other) = Len(wire),
         NEW marks, NEW mode, NEW n, Complete(wire, marks, mode, n)
  PROVE  Complete(other, marks, mode, n)
BY DEF Complete, EndsAt

(* A frame goes on with at most its first token changed.                   *)
LEMMA ChangedFirst ==
  ASSUME NEW wire \in Wires, NEW m \in 0 .. Len(wire),
         NEW f \in Wires, Len(f) = m, \A i \in 2 .. m : f[i] = wire[i]
  PROVE  /\ f \o Rest(wire, m) \in Wires
         /\ Len(f \o Rest(wire, m)) = Len(wire)
         /\ \A i \in 2 .. Len(wire) : (f \o Rest(wire, m))[i] = wire[i]
<1> DEFINE b == Rest(wire, m)  lw == Len(wire)  w == f \o b
<1>1. lw \in Nat /\ m \in Nat /\ m <= lw
  BY WireLen
<1>2. b \in Wires /\ Len(b) = lw - m /\ \A i \in 1 .. lw - m : b[i] = wire[i + m]
  BY RestProps
<1> HIDE DEF b, lw
<1>3. /\ w \in Wires /\ Len(w) = Len(f) + Len(b)
      /\ \A i \in 1 .. Len(f) : w[i] = f[i]
      /\ \A i \in 1 .. Len(b) : w[Len(f) + i] = b[i]
  BY <1>2, JoinProps
<1> HIDE DEF w
<1>4. Len(w) = lw
  BY <1>1, <1>2, <1>3
<1>5. ASSUME NEW i \in 2 .. lw
      PROVE  w[i] = wire[i]
  <2>1. CASE i <= m
    <3>1. i \in 1 .. m /\ i \in 2 .. m
      BY <1>1, <2>1
    <3>2. QED
      BY <1>3, <3>1
  <2>2. CASE i > m
    <3> DEFINE j == i - m
    <3>1. j \in 1 .. lw - m /\ i = m + j /\ i = j + m
      BY <1>1, <2>2
    <3> HIDE DEF j
    <3>2. w[m + j] = b[j] /\ b[j] = wire[j + m]
      BY <1>2, <1>3, <3>1
    <3>3. QED
      BY <3>1, <3>2
  <2>3. i <= m \/ i > m
    BY <1>1
  <2>4. QED
    BY <2>1, <2>2, <2>3
<1>6. QED
  BY <1>3, <1>4, <1>5 DEF w, b, lw

LEMMA RelayFrameStep ==
  ASSUME IInv, RelayFrame
  PROVE  IInv'
<1> DEFINE h == HeadIn(proxy)  fe == FrameEnd(near, proxy)  frame == SubSeq(near, 1, fe)
           sends == IF proxy = "first" THEN [frame EXCEPT ![1] = Uuid(TargetUUID)] ELSE frame
           lf == Len(far)  ln == Len(near)
<1>1. /\ Relaying /\ stripped /\ proxy \in {"first", "next"} /\ ln >= h /\ ln >= fe
      /\ far' = far \o sends /\ near' = Rest(near, fe) /\ proxy' = After(near[h].v[1])
      /\ UNCHANGED <<from, vision, sent, source, stripped, reader, buf, out, shut, lost>>
  BY DEF RelayFrame, HasFrame, ModeAfter, path
<1>2. near \in Wires /\ far \in Wires /\ ln \in Nat /\ lf \in Nat /\ h \in 1 .. 2
  BY WireLen DEF IInv, Typed, HeadIn
<1>3. PICK marks, mode, k : k \in Nat /\ ParsedAs(marks, mode, k)
  BY DEF IInv, Parsed
<1>4. Line = far \o near
  BY <1>1 DEF Line, Body
<1>5. Line \in Wires /\ Len(Line) = lf + ln
      /\ \A i \in 1 .. ln : Line[lf + i] = near[i]
  BY <1>2, <1>4, JoinProps
<1>6. /\ near[h].v \in Nat \X Nat \X Nat
      /\ lf + fe + 1 \in DOMAIN marks
      /\ marks[lf + fe + 1].mode = After(near[h].v[1])
  <2>1. lf + 1 \in DOMAIN marks /\ marks[lf + 1].mode = proxy
    BY <1>1, <1>3 DEF ParsedAs, Aligned
  <2>2. FrameAt(Line, marks, lf + 1)
    BY <1>1, <1>3, <2>1 DEF ParsedAs, Parse
  <2>3. HeadOf(marks, lf + 1) = lf + h
    BY <1>2, <2>1 DEF HeadOf
  <2>4. lf + h <= Len(Line) /\ Line[lf + h] = near[h]
    BY <1>1, <1>2, <1>5
  <2> HIDE DEF h, lf, ln
  <2> DEFINE g == lf + h
  <2>5. /\ Line[g].v \in Nat \X Nat \X Nat
        /\ EndOf(Line, g) \in DOMAIN marks
        /\ marks[EndOf(Line, g)] = Mark(After(Line[g].v[1]), marks[lf + 1].n + Line[g].v[2])
    BY <2>2, <2>3, <2>4 DEF FrameAt
  <2>6. near[h].v[2] \in Nat /\ near[h].v[3] \in Nat
    BY <2>4, <2>5
  <2>7. EndOf(Line, g) = lf + h + near[h].v[2] + near[h].v[3] + 1
    BY <2>4 DEF EndOf
  <2>8. fe = h + near[h].v[2] + near[h].v[3]
    BY DEF FrameEnd, ContentEnd, h
  <2>9. EndOf(Line, g) = lf + fe + 1
    <3> DEFINE a == near[h].v[2]  b == near[h].v[3]
    <3>1. a \in Nat /\ b \in Nat /\ fe = h + a + b /\ EndOf(Line, g) = lf + h + a + b + 1
      BY <2>6, <2>7, <2>8
    <3> HIDE DEF a, b, fe, g
    <3>2. QED
      BY <1>2, <3>1
  <2> HIDE DEF fe
  <2>10. marks[EndOf(Line, g)].mode = After(near[h].v[1])
    BY <2>4, <2>5 DEF Mark
  <2>11. QED
    BY <2>4, <2>5, <2>9, <2>10
<1>7. fe \in 0 .. ln /\ fe >= 1
  <2>1. fe = h + near[h].v[2] + near[h].v[3]
    BY DEF FrameEnd, ContentEnd
  <2>2. near[h].v[2] \in Nat /\ near[h].v[3] \in Nat
    BY <1>6
  <2> DEFINE a == near[h].v[2]  b == near[h].v[3]
  <2>3. a \in Nat /\ b \in Nat /\ fe = h + a + b
    BY <2>1, <2>2
  <2> HIDE DEF a, b, fe, h, ln
  <2>4. QED
    BY <1>1, <1>2, <2>3
<1>8. frame \in Wires /\ Len(frame) = fe /\ \A i \in 1 .. fe : frame[i] = near[i]
  BY <1>2, <1>7, FirstProps
<1>9. /\ sends \in Wires /\ Len(sends) = fe
      /\ \A i \in 2 .. fe : sends[i] = near[i]
      /\ proxy # "first" => sends = frame
  <2> HIDE DEF frame, fe
  <2>1. Uuid(TargetUUID) \in Tokens
    BY DEF Uuid, TargetUUID, ProxyUUID, BackendUUID, Tokens, Kinds
  <2>2. CASE proxy = "first"
    <3> DEFINE ex == [frame EXCEPT ![1] = Uuid(TargetUUID)]
    <3>1. ex \in Wires /\ Len(ex) = fe /\ \A i \in 2 .. fe : ex[i] = frame[i]
      BY <1>7, <1>8, <2>1 DEF Wires
    <3>2. sends = ex
      BY <2>2
    <3> HIDE DEF ex, sends
    <3>3. \A i \in 2 .. fe : i \in 1 .. fe
      BY <1>7
    <3>4. QED
      BY <1>8, <2>2, <3>1, <3>2, <3>3
  <2>3. CASE proxy # "first"
    <3>1. sends = frame
      BY <2>3
    <3>2. \A i \in 2 .. fe : i \in 1 .. fe
      BY <1>7
    <3> HIDE DEF sends
    <3>3. QED
      BY <1>8, <3>1, <3>2
  <2>4. QED
    BY <2>2, <2>3
<1> HIDE DEF sends
<1>10. near' \in Wires /\ far' \in Wires /\ Len(far') = lf + fe
  BY <1>1, <1>2, <1>7, <1>9, RestProps, JoinProps
<1>11. Line' = (far \o sends) \o Rest(near, fe)
  BY <1>1 DEF Line, Body
<1>12. /\ Line' \in Wires /\ Len(Line') = Len(Line)
       /\ \A i \in 1 .. Len(Line) : i > 1 \/ mode # "first" => Line'[i] = Line[i]
  <2>1. CASE proxy = "first"
    <3> HIDE DEF fe, frame, h, ln, lf
    <3>1. far = << >> /\ mode = "first"
      BY <1>1, <1>3, <2>1 DEF IInv, Stages, ParsedAs, ReadAs, Relaying, Encoding
    <3>2. Line = near
      BY <1>2, <1>4, <3>1 DEF Wires
    <3>3. Line' = sends \o Rest(near, fe)
      BY <1>9, <1>11, <3>1 DEF Wires
    <3>4. fe \in 0 .. Len(near)
      BY <1>7 DEF ln
    <3> DEFINE w == sends \o Rest(near, fe)
    <3>5. w \in Wires /\ Len(w) = Len(near) /\ \A i \in 2 .. Len(near) : w[i] = near[i]
      BY <1>2, <1>9, <3>4, ChangedFirst
    <3> HIDE DEF w
    <3>6. \A i \in 1 .. Len(near) : i > 1 => i \in 2 .. Len(near)
      BY <1>2
    <3>7. Line' = w
      BY <3>3 DEF w
    <3>8. QED
      BY <3>1, <3>2, <3>5, <3>6, <3>7
  <2>2. CASE proxy # "first"
    <3> HIDE DEF fe
    <3>1. fe \in 0 .. Len(near)
      BY <1>7
    <3>2. (far \o SubSeq(near, 1, fe)) \o Rest(near, fe) = far \o near
      BY <1>2, <3>1, PassOn
    <3>3. Line' = Line
      BY <1>4, <1>9, <1>11, <2>2, <3>2
    <3>4. QED
      BY <1>5, <3>3
  <2>3. QED
    BY <2>1, <2>2
<1>13. proxy' \in {"next", "raw"}
  BY <1>1 DEF After
<1> HIDE DEF fe, frame, h, ln
<1>14. Typed' /\ Delivered' /\ Stages'
  BY <1>1, <1>10, <1>13 DEF IInv, Typed, Delivered, Stages, Encoding, Decoding, Relaying, Modes
<1>15. ParsedAs(marks, mode, k)'
  <2> DEFINE line == Line'
  <2>1. line \in Wires /\ Len(line) = Len(Line)
        /\ \A i \in 1 .. Len(line) : i > 1 \/ mode # "first" => line[i] = Line[i]
    BY <1>12
  <2> HIDE DEF line
  <2>2. Parse(Line, marks, mode, k, sent) /\ sent \in Nat
    BY <1>3, VisionAssumption DEF ParsedAs, IInv, Typed
  <2>3. Len(line) <= Len(Line)
    BY <1>5, <2>1, WireLen
  <2>4. Parse(line, marks, mode, k, sent)
    BY <1>3, <1>5, <2>1, <2>2, <2>3, ParseCut
  <2>5. ~shut => Complete(line, marks, source, sent)
    BY <1>3, <2>1, CompleteSame DEF ParsedAs
  <2>6. Aligned(marks)'
    <3>1. Len(far') + 1 \in DOMAIN marks /\ marks[Len(far') + 1].mode = proxy'
      BY <1>1, <1>6, <1>10
    <3>2. QED
      BY <3>1 DEF Aligned
  <2>7. ReadAs(mode)' /\ (reader # "ended" => k = Len(out) + Len(buf))'
    BY <1>1, <1>3 DEF ParsedAs, ReadAs, Encoding, Relaying
  <2>8. QED
    BY <1>1, <2>4, <2>5, <2>6, <2>7 DEF ParsedAs, line
<1>16. QED
  BY <1>3, <1>14, <1>15 DEF IInv, Parsed

LEMMA EncodeStep ==
  ASSUME IInv, NEW n \in Amounts, Encode(n)
  PROVE  IInv'
<1>1. /\ Encoding /\ stripped /\ proxy \in {"first", "raw"} /\ n <= Len(near)
      /\ near' = Rest(near, n) /\ proxy' = "raw"
      /\ UNCHANGED <<from, vision, sent, source, stripped, reader, buf, out, shut, lost>>
  BY DEF Encode, path
<1>2. near \in Wires /\ far \in Wires /\ n \in 0 .. Len(near) /\ n \in Nat /\ Len(near) \in Nat
  BY <1>1, WireLen DEF IInv, Typed, Amounts
<1>3. near' \in Wires
  BY <1>1, <1>2, RestProps
<1>4. PICK marks, mode, k : k \in Nat /\ ParsedAs(marks, mode, k)
  BY DEF IInv, Parsed
<1>5. Line = far \o near /\ Line' = far' \o near'
  BY <1>1 DEF Line, Body
<1>6. ~Relaying /\ source = "raw"
  BY <1>1 DEF Encoding, Relaying, IInv, Stages
<1>7. CASE proxy = "raw"
  <2>1. far' = far \o SubSeq(near, 1, n)
    BY <1>7 DEF Encode
  <2>2. far' \in Wires
    BY <1>2, <2>1, FirstProps, JoinProps
  <2>3. Line' = Line
    BY <1>1, <1>2, <1>5, <2>1, PassOn
  <2>4. Typed' /\ Delivered' /\ Stages'
    BY <1>1, <1>3, <1>6, <1>7, <2>2 DEF IInv, Typed, Delivered, Stages, Encoding, Decoding, Modes
  <2>5. Parse(Line', marks, mode, k, sent') /\ (~shut' => Complete(Line', marks, source', sent'))
    BY <1>1, <1>4, <2>3 DEF ParsedAs
  <2>6. Aligned(marks)' /\ ReadAs(mode)' /\ (reader # "ended" => k = Len(out) + Len(buf))'
    BY <1>1, <1>4, <1>7 DEF ParsedAs, Aligned, ReadAs, Encoding
  <2>7. ParsedAs(marks, mode, k)'
    BY <2>5, <2>6 DEF ParsedAs
  <2>8. QED
    BY <1>4, <2>4, <2>7 DEF IInv, Parsed
<1>8. CASE proxy = "first"
  <2> DEFINE chunk == Min({n, MaxContent})  c == SubSeq(near, 1, chunk)
             f == Frame("first", TargetUUID, 1, c, Padding(chunk))
             x == SubSeq(near, chunk + 1, n)  y == Rest(near, chunk)
  <2>1. chunk \in Nat /\ chunk \in 0 .. n
    <3>1. MaxContent \in Nat
      BY VisionAssumption
    <3>2. QED
      BY <1>2, <3>1, MinProps
  <2>2. far' = far \o (f \o x)
    BY <1>8 DEF Encode
  <2>3. Padding(chunk) \in Nat
    <3> HIDE DEF chunk
    <3>1. Block \in Nat \ {0}
      BY VisionAssumption
    <3>2. Block - (chunk % Block) \in Int
      BY <2>1, <3>1
    <3>3. QED
      BY <3>1, <3>2 DEF Padding
  <2> HIDE DEF chunk, c, f, x, y
  <2>4. far = << >> /\ reader = "first" /\ mode = "raw"
    BY <1>1, <1>4, <1>8 DEF IInv, Stages, ParsedAs, ReadAs
  <2>5. Line = near
    BY <1>2, <1>5, <2>4 DEF Wires
  <2>7. k = Len(out) + Len(buf) /\ Parse(near, marks, "raw", k, sent) /\ sent \in Nat
    BY <1>4, <2>4, <2>5, VisionAssumption DEF ParsedAs, IInv, Typed
  <2>8. /\ k + Len(near) <= sent /\ AreBytes(near, k)
        /\ ~shut => sent = k + Len(near)
    <3>1. /\ k + Len(near) <= sent /\ AreBytes(near, k)
      BY <1>2, <1>4, <2>7, RawParse
    <3>2. ASSUME ~shut
          PROVE  sent = k + Len(near)
      <4>1. Complete(near, marks, source, sent)
        BY <1>4, <2>5, <3>2 DEF ParsedAs
      <4>2. QED
        BY <1>2, <1>4, <2>7, <4>1, RawParse
    <3>3. QED
      BY <3>1, <3>2
  <2> USE DEF c, f, x, y
  <2>9. chunk \in 0 .. Len(near)
    BY <1>2, <2>1
  <2>10. c \in Wires /\ Len(c) = chunk /\ AreBytes(c, k)
    <3>1. c \in Wires /\ Len(c) = chunk /\ \A i \in 1 .. chunk : c[i] = near[i]
      BY <1>2, <2>9, FirstProps
    <3> HIDE DEF c
    <3>2. \A i \in 1 .. chunk : i \in 1 .. Len(near)
      BY <1>2, <2>9
    <3>3. QED
      BY <2>8, <3>1, <3>2 DEF AreBytes
  <2>11. f \in Wires /\ IsFrame(f, "first", 1, k, chunk, Padding(chunk))
    <3>1. "first" \in {"first", "next"} /\ TargetUUID \in Nat /\ 1 \in Nat
      BY DEF TargetUUID, ProxyUUID, BackendUUID
    <3> HIDE DEF c
    <3>2. QED
      BY <1>4, <2>3, <2>10, <3>1, FrameProps
  <2>12. x \in Wires /\ x \o Rest(near, n) = y
    BY <1>2, <2>1, MidAndRest
  <2>13. y \in Wires /\ Len(y) = Len(near) - chunk /\ AreBytes(y, k + chunk)
    BY <1>2, <1>4, <2>8, <2>9, RestProps, RestBytes
  <2> HIDE DEF c, f, x, y
  <2>6. far' = f \o x
    <3>1. f \o x \in Wires
      BY <2>11, <2>12, JoinProps
    <3> DEFINE fx == f \o x
    <3>2. fx \in Wires /\ far' = << >> \o fx
      BY <2>2, <2>4, <3>1
    <3> HIDE DEF fx
    <3>3. far' = fx
      BY <3>2 DEF Wires
    <3>4. QED
      BY <3>3 DEF fx
  <2>14. Line' = f \o y
    <3>1. Line' = (f \o x) \o Rest(near, n)
      BY <1>1, <1>5, <2>6
    <3> DEFINE r == Rest(near, n)
    <3>2. r \in Wires
      BY <1>1, <1>3
    <3> HIDE DEF r
    <3>3. (f \o x) \o r = f \o (x \o r)
      BY <2>11, <2>12, <3>2, ConcatAssociative
    <3>4. QED
      BY <2>12, <3>1, <3>3 DEF r
  <2>15. k + chunk + Len(y) = k + Len(near)
    BY <1>2, <1>4, <2>1, <2>13
  <2>16. PICK fresh : /\ Parse(f \o y, fresh, "first", k, sent)
                      /\ Complete(f \o y, fresh, "raw", k + chunk + Len(y))
    BY <1>4, <2>1, <2>3, <2>7, <2>8, <2>11, <2>13, <2>15, ParseFirst
  <2>17. far' \in Wires
    BY <2>6, <2>11, <2>12, JoinProps
  <2>18. Typed' /\ Delivered' /\ Stages'
    BY <1>1, <1>3, <1>6, <2>17 DEF IInv, Typed, Delivered, Stages, Encoding, Decoding, Modes
  <2>20. Parse(Line', fresh, "first", k, sent') /\ (~shut' => Complete(Line', fresh, source', sent'))
    BY <1>1, <1>6, <2>8, <2>14, <2>15, <2>16
  <2>21. Aligned(fresh)' /\ ReadAs("first")' /\ (reader # "ended" => k = Len(out) + Len(buf))'
    BY <1>1, <2>4, <2>7 DEF Aligned, ReadAs, Encoding
  <2>22. ParsedAs(fresh, "first", k)'
    BY <2>20, <2>21 DEF ParsedAs
  <2>23. QED
    BY <1>4, <2>18, <2>22 DEF IInv, Parsed
<1>9. QED
  BY <1>1, <1>7, <1>8

-----------------------------------------------------------------------------
(* What the reader does: it lets bytes of the stream out.                  *)
Moves == \E m \in Nat :
  Len(out) + m <= sent /\ out' = out \o Stream!From(Len(out) + 1, m) /\ sent' = sent

LEMMA DeliverStep ==
  ASSUME IInv, NEW n \in Amounts, NEW bytes \in Wires, AreBytes(bytes, Len(out)),
         Len(out) + Len(bytes) <= sent, Return(n, bytes), sent' = sent
  PROVE  /\ out' \in Seq(Nat) /\ buf' \in Wires /\ Delivered' /\ Moves
         /\ Len(out') + Len(buf') = Len(out) + Len(bytes)
<1> DEFINE m == Min({n, Len(bytes)})  o2 == out \o Places(SubSeq(bytes, 1, m))  b2 == Rest(bytes, m)
           lo == Len(out)  lb == Len(bytes)
<1>1. out' = o2 /\ buf' = b2
  BY DEF Return
<1>2. /\ out \in Seq(Nat) /\ lo \in Nat /\ lb \in Nat /\ sent \in Nat
      /\ \A i \in 1 .. lo : out[i] = i
  BY WireLen, VisionAssumption DEF IInv, Typed, Delivered
<1>3. m \in 0 .. lb /\ m \in Nat
  <2>1. n \in Nat
    BY DEF Amounts
  <2> HIDE DEF lb
  <2>2. Min({n, lb}) \in 0 .. lb /\ Min({n, lb}) \in Nat
    BY <1>2, <2>1, MinProps
  <2>3. QED
    BY <2>2 DEF lb
<1> HIDE DEF m
<1>4. /\ o2 = out \o Stream!From(lo + 1, m)
      /\ o2 \in Seq(Nat) /\ Len(o2) = lo + m
      /\ \A i \in 1 .. Len(o2) : o2[i] = i
  BY <1>2, <1>3, ReturnProps
<1>5. b2 \in Wires /\ Len(b2) = lb - m
  BY <1>3, RestProps
<1>6. AreBytes(b2, lo + m)
  BY <1>2, <1>3, RestBytes
<1> HIDE DEF o2, b2, lb
<1>7. Len(o2) + Len(b2) = lo + lb /\ lo + m <= sent /\ lo + lb <= sent
  <2>1. lo + lb <= sent
    BY DEF lb
  <2>2. m <= lb /\ Len(b2) = lb - m /\ Len(o2) = lo + m
    BY <1>2, <1>3, <1>4, <1>5
  <2> HIDE DEF lo
  <2>3. QED
    BY <1>2, <1>3, <2>1, <2>2
<1>8. Moves
  BY <1>1, <1>3, <1>4, <1>7 DEF Moves
<1>9. Delivered'
  BY <1>1, <1>4, <1>6, <1>7 DEF Delivered
<1>10. QED
  BY <1>1, <1>4, <1>5, <1>7, <1>8, <1>9 DEF lb

(* The reader takes from the front of the line.                            *)
LEMMA InboundFirst ==
  ASSUME Typed, Stages
  PROVE  /\ Inbound \in Wires /\ Len(Inbound) <= Len(Line)
         /\ \A i \in 1 .. Len(Inbound) : Line[i] = Inbound[i]
<1>1. near \in Wires /\ far \in Wires /\ Body \in Wires
  BY LineType DEF Typed
<1>2. CASE Decoding
  <2>1. stripped /\ far = << >>
    BY <1>2 DEF Stages, Decoding
  <2>2. Line = << >> \o near /\ Inbound = near
    BY <1>2, <2>1 DEF Line, Body, Inbound
  <2>3. Line = Inbound
    BY <1>1, <2>2 DEF Wires
  <2>4. QED
    BY <1>1, <2>2, <2>3, WireLen
<1>3. CASE ~Decoding
  <2>1. Inbound = far
    BY <1>3 DEF Inbound
  <2> DEFINE b == Body
  <2>2. b \in Wires /\ Line = far \o b
    BY <1>1 DEF Line
  <2> HIDE DEF b
  <2>3. /\ Len(Line) = Len(far) + Len(b) /\ Len(far) \in Nat /\ Len(b) \in Nat
        /\ \A i \in 1 .. Len(far) : Line[i] = far[i]
    BY <1>1, <2>2, JoinProps, WireLen
  <2>4. QED
    BY <1>1, <2>1, <2>3
<1>4. QED
  BY <1>2, <1>3

LEMMA TakeFromLine ==
  ASSUME Typed, Stages, NEW m \in 0 .. Len(Inbound), TakeInbound(m),
         UNCHANGED <<from, vision, stripped>>
  PROVE  /\ near' \in Wires /\ far' \in Wires /\ Line' = Rest(Line, m)
         /\ Decoding => far' = far
         /\ ~Decoding => Len(far') = Len(far) - m
<1>1. near \in Wires /\ far \in Wires /\ Body \in Wires
  BY LineType DEF Typed
<1>2. CASE Decoding
  <2>1. stripped /\ far = << >> /\ Inbound = near
    BY <1>2 DEF Stages, Decoding, Inbound
  <2>2. near' = Rest(near, m) /\ far' = far
    BY <1>2 DEF TakeInbound
  <2>3. Line = << >> \o near /\ Line' = << >> \o near'
    BY <2>1, <2>2 DEF Line, Body
  <2>4. near' \in Wires
    BY <1>1, <2>1, <2>2, RestProps
  <2>5. Line = near /\ Line' = near'
    BY <1>1, <2>3, <2>4 DEF Wires
  <2>6. QED
    BY <1>1, <1>2, <2>2, <2>4, <2>5
<1>3. CASE ~Decoding
  <2>1. Inbound = far /\ far' = Rest(far, m) /\ near' = near
    BY <1>3 DEF Inbound, TakeInbound
  <2>2. Body' = Body
    BY <2>1 DEF Body, HasResponse
  <2> DEFINE b == Body
  <2>3. b \in Wires /\ Line = far \o b /\ Line' = far' \o b
    BY <1>1, <2>2 DEF Line
  <2> HIDE DEF b
  <2>4. m \in 0 .. Len(far)
    BY <2>1
  <2>5. far' \in Wires /\ Len(far') = Len(far) - m
    BY <1>1, <2>1, <2>4, RestProps
  <2>6. Line' = Rest(Line, m)
    BY <1>1, <2>1, <2>3, <2>4, RestOfJoin
  <2>7. QED
    BY <1>1, <1>3, <2>1, <2>5, <2>6
<1>4. QED
  BY <1>2, <1>3

(* Once there is something to read, it is read as the line is parsed.      *)
LEMMA InboundUsed ==
  ASSUME IInv, Inbound # << >>, reader # "ended"
  PROVE  /\ stripped /\ proxy # "first"
         /\ \E marks, k : k \in Nat /\ ParsedAs(marks, reader, k) /\ k = Len(out) + Len(buf)
<1>1. stripped /\ proxy # "first"
  BY DEF IInv, Stages, Inbound, Decoding
<1>2. PICK marks, mode, k : k \in Nat /\ ParsedAs(marks, mode, k)
  BY DEF IInv, Parsed
<1>3. mode = reader /\ k = Len(out) + Len(buf)
  BY <1>1, <1>2 DEF ParsedAs, ReadAs
<1>4. QED
  BY <1>1, <1>2, <1>3

LEMMA ReadBufferedStep ==
  ASSUME IInv, NEW n \in Amounts, ReadBuffered(n)
  PROVE  IInv' /\ Moves
<1>1. /\ Return(n, buf)
      /\ UNCHANGED <<from, vision, sent, source, near, far, stripped, proxy, reader, shut, lost>>
  BY DEF ReadBuffered, path
<1>2. /\ out' \in Seq(Nat) /\ buf' \in Wires /\ Delivered' /\ Moves
      /\ Len(out') + Len(buf') = Len(out) + Len(buf)
  <2>1. buf \in Wires /\ AreBytes(buf, Len(out)) /\ Len(out) + Len(buf) <= sent
    BY DEF IInv, Typed, Delivered
  <2>2. QED
    BY <1>1, <2>1, DeliverStep
<1>3. Typed' /\ Stages'
  BY <1>1, <1>2 DEF IInv, Typed, Stages, Encoding, Decoding, HasResponse
<1>4. Line' = Line
  BY <1>1 DEF Line, Body, HasResponse
<1>5. PICK marks, mode, k : k \in Nat /\ ParsedAs(marks, mode, k)
  BY DEF IInv, Parsed
<1>6. ParsedAs(marks, mode, k)'
  <2>1. Parse(Line', marks, mode, k, sent') /\ (~shut' => Complete(Line', marks, source', sent'))
    BY <1>1, <1>4, <1>5 DEF ParsedAs
  <2>2. Aligned(marks)' /\ ReadAs(mode)' /\ (reader # "ended" => k = Len(out) + Len(buf))'
    BY <1>1, <1>2, <1>5 DEF ParsedAs, Aligned, Relaying, ReadAs, Encoding
  <2>3. QED
    BY <2>1, <2>2 DEF ParsedAs
<1>7. QED
  BY <1>2, <1>3, <1>5, <1>6 DEF IInv, Parsed

LEMMA ReadFailStep ==
  ASSUME IInv, ReadFail
  PROVE  IInv'
<1>1. /\ reader' = "ended"
      /\ UNCHANGED <<from, vision, sent, source, near, far, stripped, proxy, buf, out, shut, lost>>
  BY DEF ReadFail, path
<1>2. proxy # "first"
  BY DEF ReadFail, IInv, Stages, Inbound, InboundShut, Decoding
<1>3. Typed' /\ Delivered' /\ Stages'
  BY <1>1, <1>2 DEF IInv, Typed, Delivered, Stages, Encoding, Decoding, HasResponse, Modes
<1>4. Line' = Line
  BY <1>1 DEF Line, Body, HasResponse
<1>5. PICK marks, mode, k : k \in Nat /\ ParsedAs(marks, mode, k)
  BY DEF IInv, Parsed
<1>6. ParsedAs(marks, mode, k)'
  <2>1. Parse(Line', marks, mode, k, sent') /\ (~shut' => Complete(Line', marks, source', sent'))
    BY <1>1, <1>4, <1>5 DEF ParsedAs
  <2>2. Aligned(marks)' /\ ReadAs(mode)'
    BY <1>1, <1>2, <1>5 DEF ParsedAs, Aligned, Relaying, ReadAs, Encoding
  <2>3. QED
    BY <1>1, <2>1, <2>2 DEF ParsedAs
<1>7. QED
  BY <1>3, <1>5, <1>6 DEF IInv, Parsed

LEMMA ReadFrameStep ==
  ASSUME IInv, NEW n \in Amounts, ReadFrame(n)
  PROVE  IInv' /\ Moves
<1> DEFINE in == Inbound  h == HeadIn(reader)  fe == FrameEnd(in, reader)
           len == in[h].v[2]  content == SubSeq(in, h + 1, h + len)  lf == Len(far)
<1>1. /\ buf = << >> /\ reader \in {"first", "next"} /\ Len(in) >= h /\ Len(in) >= fe
      /\ Return(n, content) /\ reader' = After(in[h].v[1]) /\ TakeInbound(fe)
      /\ UNCHANGED <<from, vision, sent, source, stripped, proxy, shut, lost>>
  BY DEF ReadFrame, HasFrame, Content, ContentEnd, ModeAfter, path
<1>2. /\ in \in Wires /\ Len(in) <= Len(Line) /\ Line \in Wires
      /\ \A i \in 1 .. Len(in) : Line[i] = in[i]
  BY InboundFirst, LineType DEF IInv
<1>3. Len(in) \in Nat /\ Len(Line) \in Nat /\ h \in 1 .. 2
  BY <1>2, WireLen DEF HeadIn
<1>4. in # << >>
  BY <1>1, <1>3
<1>5. stripped /\ proxy # "first"
  BY <1>1, <1>4, InboundUsed
<1>6. PICK marks, k : k \in Nat /\ ParsedAs(marks, reader, k) /\ k = Len(out) + Len(buf)
  BY <1>1, <1>4, InboundUsed
<1>7. Parse(Line, marks, reader, k, sent) /\ sent \in Nat /\ k = Len(out)
  BY <1>1, <1>6, VisionAssumption DEF ParsedAs, IInv, Typed
<1>8. Line[h] = in[h] /\ h <= Len(Line)
  BY <1>1, <1>2, <1>3
<1>9. in[h].v \in Nat \X Nat \X Nat
  <2>1. 1 \in DOMAIN marks /\ marks[1] = Mark(reader, k)
    BY <1>7 DEF Parse
  <2>2. marks[1].mode = reader
    BY <2>1 DEF Mark
  <2>3. FrameAt(Line, marks, 1)
    BY <1>1, <1>7, <2>1, <2>2 DEF Parse
  <2>4. HeadOf(marks, 1) = h
    BY <1>3, <2>2 DEF HeadOf
  <2> HIDE DEF h, in
  <2>5. QED
    BY <1>8, <2>3, <2>4 DEF FrameAt
<1>10. /\ fe = h + len + in[h].v[3] /\ fe \in Nat /\ len \in Nat /\ in[h].v[3] \in Nat
       /\ FrameEnd(Line, reader) = fe
  <2>1. /\ fe = h + len + in[h].v[3]
        /\ FrameEnd(Line, reader) = h + Line[h].v[2] + Line[h].v[3]
    BY DEF FrameEnd, ContentEnd
  <2>2. len \in Nat /\ in[h].v[3] \in Nat
    BY <1>9
  <2> DEFINE pad == in[h].v[3]
  <2>3. fe = h + len + pad /\ pad \in Nat /\ len \in Nat /\ FrameEnd(Line, reader) = h + len + pad
    BY <1>8, <2>1, <2>2
  <2> HIDE DEF fe, len, pad, h
  <2>4. fe \in Nat
    BY <1>3, <2>3
  <2>5. QED
    BY <2>3, <2>4 DEF pad
<1> HIDE DEF in
<1>11. fe \in 0 .. Len(in) /\ fe \in 0 .. Len(Line) /\ h + len <= Len(in)
  <2> DEFINE pad == in[h].v[3]
  <2>1. fe = h + len + pad /\ fe \in Nat /\ len \in Nat /\ pad \in Nat
    BY <1>10
  <2> HIDE DEF fe, len, pad, h
  <2>2. QED
    BY <1>1, <1>2, <1>3, <2>1
<1> HIDE DEF fe, len, h
<1>12. /\ near' \in Wires /\ far' \in Wires /\ Line' = Rest(Line, fe)
       /\ Decoding => far' = far
       /\ ~Decoding => Len(far') = Len(far) - fe
  <2>1. fe \in 0 .. Len(Inbound)
    BY <1>11 DEF in
  <2>2. QED
    BY <1>1, <2>1, TakeFromLine DEF IInv
<1> DEFINE rest == Rest(Line, fe)
<1>13. /\ rest \in Wires /\ Len(Line) = fe + Len(rest)
       /\ \A i \in 1 .. Len(rest) : rest[i] = Line[i + fe]
  <2> DEFINE ll == Len(Line)
  <2>1. /\ rest \in Wires /\ Len(rest) = ll - fe
        /\ \A i \in 1 .. ll - fe : rest[i] = Line[i + fe]
    BY <1>2, <1>11, RestProps
  <2>2. ll \in Nat /\ fe \in Nat
    BY <1>3, <1>10
  <2> HIDE DEF rest, ll
  <2>3. ll = fe + Len(rest)
    BY <2>1, <2>2
  <2>4. \A i \in 1 .. Len(rest) : rest[i] = Line[i + fe]
    BY <2>1
  <2>5. QED
    BY <2>1, <2>3, <2>4 DEF ll
<1> HIDE DEF rest
<1> DEFINE cmd == in[h].v[1]
<1>14. /\ k + len <= sent /\ Begins(Line, h, len, k)
       /\ \E fewer : /\ Parse(rest, fewer, After(cmd), k + len, sent)
                     /\ Continues(rest, fewer, Line, marks, fe)
  <2>1. HeadIn(reader) <= Len(Line)
    BY <1>8 DEF h
  <2>2. HasHead(Line, HeadIn(reader), cmd, len) /\ len \in Nat
    BY <1>8, <1>10 DEF h, len, HasHead
  <2> HIDE DEF cmd
  <2>3. /\ k + len <= sent /\ Begins(Line, HeadIn(reader), len, k)
        /\ \E fewer : /\ Parse(rest, fewer, After(cmd), k + len, sent)
                      /\ Continues(rest, fewer, Line, marks, fe)
    BY <1>1, <1>2, <1>6, <1>7, <1>10, <1>13, <2>1, <2>2, ParseRest
  <2>4. QED
    BY <2>3 DEF h
<1>15. PICK fewer : /\ Parse(rest, fewer, After(cmd), k + len, sent)
                    /\ Continues(rest, fewer, Line, marks, fe)
  BY <1>14
<1>16. content \in Wires /\ Len(content) = len /\ AreBytes(content, k)
  <2>1. h + len \in 0 .. Len(in) /\ h \in 0 .. h + len /\ h + len - h = len
    BY <1>3, <1>10, <1>11
  <2> DEFINE e == h + len
  <2>2. /\ content \in Wires /\ Len(content) = len
        /\ \A i \in 1 .. len : content[i] = in[i + h]
    <3>1. content = SubSeq(in, h + 1, e)
      OBVIOUS
    <3> HIDE DEF content
    <3>2. e \in 0 .. Len(in) /\ h \in 0 .. e /\ e - h = len
      <4>1. e = h + len
        OBVIOUS
      <4> HIDE DEF e
      <4>2. QED
        BY <1>3, <1>10, <2>1, <4>1
    <3> HIDE DEF e
    <3>3. QED
      BY <1>2, <3>1, <3>2, MidAndRest
  <2> HIDE DEF content, e
  <2>3. ASSUME NEW i \in 1 .. len
        PROVE  content[i] = Byte(k + i)
    <3>1. i + h \in 1 .. Len(in) /\ i + h = h + i
      BY <1>3, <1>10, <1>11
    <3>2. content[i] = in[h + i] /\ in[h + i] = Line[h + i]
      BY <1>2, <2>1, <2>2, <3>1
    <3>3. Line[h + i] = Byte(k + i)
      BY <1>14 DEF Begins
    <3>4. QED
      BY <3>2, <3>3
  <2>4. QED
    BY <2>2, <2>3 DEF AreBytes
<1> HIDE DEF content
<1>17. /\ out' \in Seq(Nat) /\ buf' \in Wires /\ Delivered' /\ Moves
       /\ Len(out') + Len(buf') = k + len
  BY <1>1, <1>7, <1>14, <1>16, DeliverStep
<1>18. PICK mode \in {"next", "raw"} : mode = reader' /\ mode = After(cmd)
  BY <1>1 DEF After
<1> HIDE DEF cmd
<1>19. PICK k2 \in Nat : k2 = k + len
  BY <1>6, <1>10
<1>20. Typed'
  BY <1>1, <1>12, <1>17, <1>18 DEF IInv, Typed, Modes
<1>21. Stages'
  BY <1>1, <1>5, <1>12, <1>18 DEF IInv, Stages, Encoding, Decoding
<1>22. ParsedAs(fewer, mode, k2)'
  <2>1. Parse(Line', fewer, mode, k2, sent')
    BY <1>1, <1>12, <1>15, <1>18, <1>19 DEF rest
  <2>2. ~shut' => Complete(Line', fewer, source', sent')
    BY <1>1, <1>6, <1>12, <1>15 DEF ParsedAs, rest, Continues
  <2>3. ASSUME Relaying, proxy \in {"first", "next"}
        PROVE  Len(far') + 1 \in DOMAIN fewer /\ fewer[Len(far') + 1].mode = proxy
    <3>1. lf + 1 \in DOMAIN marks /\ marks[lf + 1].mode = proxy
      BY <1>6, <2>3 DEF ParsedAs, Aligned
    <3>2. Len(far') = lf - fe /\ lf \in Nat /\ Len(far') \in Nat
      BY <1>12, <2>3, WireLen DEF IInv, Typed, Relaying, Decoding
    <3> HIDE DEF lf
    <3>3. Len(far') + 1 \in Nat \ {0} /\ Len(far') + 1 + fe = lf + 1
      BY <1>10, <3>2
    <3>4. QED
      BY <1>15, <3>1, <3>3 DEF Continues
  <2>4. Aligned(fewer)'
    BY <1>1, <2>3 DEF Aligned, Relaying
  <2>5. ReadAs(mode)'
    BY <1>1, <1>5, <1>18 DEF ReadAs
  <2>6. (reader # "ended" => k2 = Len(out) + Len(buf))'
    BY <1>17, <1>19
  <2>7. QED
    BY <2>1, <2>2, <2>4, <2>5, <2>6 DEF ParsedAs
<1>23. QED
  BY <1>17, <1>20, <1>21, <1>22 DEF IInv, Parsed

LEMMA ReadRawStep ==
  ASSUME IInv, NEW n \in Amounts, ReadRaw(n)
  PROVE  IInv' /\ Moves
<1> DEFINE in == Inbound  lo == Len(out)
<1>1. /\ buf = << >> /\ reader = "raw" /\ n <= Len(in) /\ TakeInbound(n)
      /\ out' = out \o Places(SubSeq(in, 1, n))
      /\ UNCHANGED <<from, vision, sent, source, stripped, proxy, reader, buf, shut, lost>>
  BY DEF ReadRaw, path
<1>2. /\ in \in Wires /\ Len(in) <= Len(Line) /\ Line \in Wires
      /\ \A i \in 1 .. Len(in) : Line[i] = in[i]
  BY InboundFirst, LineType DEF IInv
<1>3. /\ Len(in) \in Nat /\ Len(Line) \in Nat /\ n \in Nat \ {0} /\ sent \in Nat
      /\ out \in Seq(Nat) /\ lo \in Nat /\ \A i \in 1 .. lo : out[i] = i
  BY <1>2, WireLen, VisionAssumption DEF Amounts, IInv, Typed, Delivered
<1> HIDE DEF in
<1>4. n \in 0 .. Len(in) /\ n \in 0 .. Len(Line) /\ in # << >>
  BY <1>1, <1>2, <1>3
<1>5. stripped /\ proxy # "first"
  BY <1>1, <1>4, InboundUsed DEF in
<1>6. PICK marks, k : k \in Nat /\ ParsedAs(marks, "raw", k) /\ k = lo
  <2>1. PICK marks, k : k \in Nat /\ ParsedAs(marks, "raw", k) /\ k = lo + Len(buf)
    BY <1>1, <1>4, InboundUsed DEF in
  <2>2. Len(buf) = 0
    BY <1>1
  <2>3. k = lo
    BY <1>3, <2>1, <2>2
  <2>4. QED
    BY <2>1, <2>3
<1>7. Parse(Line, marks, "raw", k, sent)
  BY <1>6 DEF ParsedAs
<1>8. k + Len(Line) <= sent /\ AreBytes(Line, k)
  BY <1>2, <1>3, <1>6, <1>7, RawParse
<1>9. ~shut => source = "raw" /\ sent = k + Len(Line)
  <2>1. ASSUME ~shut
        PROVE  source = "raw" /\ sent = k + Len(Line)
    <3>1. Complete(Line, marks, source, sent)
      BY <1>6, <2>1 DEF ParsedAs
    <3>2. QED
      BY <1>2, <1>3, <1>6, <1>7, <3>1, RawParse
  <2>2. QED
    BY <2>1
<1>10. AreBytes(in, lo)
  <2>1. \A i \in 1 .. Len(in) : i \in 1 .. Len(Line)
    BY <1>2, <1>3
  <2>2. QED
    BY <1>2, <1>6, <1>8, <2>1 DEF AreBytes
<1>11. /\ out' = out \o Stream!From(lo + 1, n) /\ out' \in Seq(Nat) /\ Len(out') = lo + n
       /\ \A i \in 1 .. Len(out') : out'[i] = i
  <2> DEFINE o2 == out \o Places(SubSeq(in, 1, n))
  <2>1. /\ o2 = out \o Stream!From(lo + 1, n) /\ o2 \in Seq(Nat) /\ Len(o2) = lo + n
        /\ \A i \in 1 .. Len(o2) : o2[i] = i
    BY <1>2, <1>3, <1>4, <1>10, ReturnProps
  <2> HIDE DEF o2
  <2>2. out' = o2
    BY <1>1 DEF o2
  <2>3. QED
    BY <2>1, <2>2
<1>12. /\ near' \in Wires /\ far' \in Wires /\ Line' = Rest(Line, n)
       /\ Decoding => far' = far
  BY <1>1, <1>4, TakeFromLine DEF IInv, in
<1> DEFINE rest == Rest(Line, n)
<1>13. rest \in Wires /\ Len(rest) = Len(Line) - n /\ AreBytes(rest, k + n)
  BY <1>2, <1>4, <1>6, <1>8, RestProps, RestBytes
<1> HIDE DEF rest
<1>14. /\ k + n \in Nat /\ k + n + Len(rest) = k + Len(Line) /\ k + n <= sent
  <2> DEFINE ll == Len(Line)  lr == Len(rest)
  <2>1. ll \in Nat /\ lr = ll - n /\ n <= ll /\ k + ll <= sent
    BY <1>3, <1>4, <1>8, <1>13
  <2> HIDE DEF ll, lr
  <2>2. k + n \in Nat /\ k + n + lr = k + ll /\ k + n <= sent
    BY <1>3, <1>6, <2>1
  <2>3. QED
    BY <2>2 DEF ll, lr
<1>15. PICK fresh : /\ Parse(rest, fresh, "raw", k + n, sent)
                    /\ Complete(rest, fresh, "raw", k + n + Len(rest))
  <2>1. k + n + Len(rest) <= sent
    BY <1>8, <1>14
  <2>2. QED
    BY <1>3, <1>13, <1>14, <2>1, BareParse
<1>16. PICK k2 \in Nat : k2 = k + n
  BY <1>14
<1>17. Moves
  BY <1>1, <1>3, <1>6, <1>11, <1>14 DEF Moves
<1>18. Len(out') = k2 /\ k2 <= sent /\ Len(buf') = 0 /\ buf' = << >>
  BY <1>1, <1>6, <1>11, <1>14, <1>16
<1>19. Delivered'
  <2>1. AreBytes(buf', Len(out'))
    BY <1>18 DEF AreBytes
  <2>2. Len(out') + Len(buf') <= sent'
    BY <1>1, <1>3, <1>18
  <2>3. QED
    BY <1>11, <2>1, <2>2 DEF Delivered
<1>20. Typed'
  BY <1>1, <1>11, <1>12 DEF IInv, Typed
<1>21. Stages'
  BY <1>1, <1>5, <1>12 DEF IInv, Stages, Encoding, Decoding
<1>22. ParsedAs(fresh, "raw", k2)'
  <2>1. Parse(Line', fresh, "raw", k2, sent')
    BY <1>1, <1>12, <1>15, <1>16 DEF rest
  <2>2. ~shut' => Complete(Line', fresh, source', sent')
    BY <1>1, <1>9, <1>12, <1>14, <1>15 DEF rest
  <2>3. ~(Relaying /\ proxy \in {"first", "next"})
    <3>1. SUFFICES ASSUME Relaying, proxy \in {"first", "next"}
                   PROVE  FALSE
      OBVIOUS
    <3> DEFINE a == Len(far) + 1
    <3>2. a \in DOMAIN marks /\ marks[a].mode = proxy
      BY <1>6, <3>1 DEF ParsedAs, Aligned
    <3>3. 1 \in DOMAIN marks /\ marks[1].mode = "raw"
      BY <1>7 DEF Parse, Mark
    <3>4. a <= 1
      BY <1>7, <3>2, <3>3 DEF Parse
    <3>5. a \in Nat /\ a >= 1
      BY WireLen DEF IInv, Typed
    <3>6. a = 1
      BY <3>4, <3>5
    <3> HIDE DEF a
    <3>7. QED
      BY <3>1, <3>2, <3>3, <3>6
  <2>4. Aligned(fresh)'
    BY <1>1, <2>3 DEF Aligned, Relaying
  <2>5. ReadAs("raw")'
    BY <1>1, <1>5 DEF ReadAs
  <2>6. (reader # "ended" => k2 = Len(out) + Len(buf))'
    BY <1>16, <1>18
  <2>7. QED
    BY <2>1, <2>2, <2>4, <2>5, <2>6 DEF ParsedAs
<1>23. QED
  BY <1>17, <1>19, <1>20, <1>21, <1>22 DEF IInv, Parsed

-----------------------------------------------------------------------------
(* Every step keeps the invariant and is one of the stream, or none.       *)
Inputs == \E n \in Nat : sent + n <= MaxBytes /\ sent' = sent + n /\ out' = out
Nothing == sent' = sent /\ out' = out

LEMMA NextStep ==
  ASSUME IInv, [Next]_vars
  PROVE  IInv' /\ (Inputs \/ Moves \/ Nothing)
<1>1. CASE UNCHANGED vars
  <2>1. IInv'
    BY <1>1 DEF IInv, Typed, Delivered, Stages, Parsed, ParsedAs, ReadAs, Aligned, Relaying,
               Encoding, Decoding, HasResponse, Line, Body, vars
  <2>2. QED
    BY <1>1, <2>1 DEF Nothing, vars
<1>2. ASSUME NEW cmd \in Commands, NEW n \in 0 .. MaxContent, NEW pad \in Paddings,
             SourceFrame(cmd, n, pad)
      PROVE  IInv' /\ Inputs
  <2>1. n \in Nat
    BY VisionAssumption
  <2>2. QED
    BY <1>2, <2>1, SourceFrameStep DEF Inputs, SourceFrame
<1>3. ASSUME NEW n \in Amounts, SourceRaw(n)
      PROVE  IInv' /\ Inputs
  BY <1>3, SourceRawStep DEF Inputs, SourceRaw, Amounts
<1>4. ASSUME NEW n \in 0 .. Len(near), SourceEnd(n) \/ OtherEnd(n)
      PROVE  IInv' /\ Nothing
  BY <1>4, CutStep DEF Nothing, SourceEnd, OtherEnd, Cut
<1>5. CASE StripResponse
  BY <1>5, StripResponseStep DEF Nothing, StripResponse
<1>6. CASE RelayFrame
  BY <1>6, RelayFrameStep DEF Nothing, RelayFrame
<1>7. ASSUME NEW n \in Amounts, RelayRaw(n)
      PROVE  IInv' /\ Nothing
  BY <1>7, RelayRawStep DEF Nothing, RelayRaw
<1>8. ASSUME NEW n \in Amounts, Encode(n)
      PROVE  IInv' /\ Nothing
  BY <1>8, EncodeStep DEF Nothing, Encode
<1>9. ASSUME NEW n \in 0 .. Len(far), ProxyEnd(n)
      PROVE  IInv' /\ Nothing
  BY <1>9, ProxyEndStep DEF Nothing, ProxyEnd
<1>10. ASSUME NEW n \in Amounts, ReadBuffered(n) \/ ReadFrame(n) \/ ReadRaw(n)
       PROVE  IInv' /\ Moves
  BY <1>10, ReadBufferedStep, ReadFrameStep, ReadRawStep
<1>11. CASE ReadFail
  BY <1>11, ReadFailStep DEF Nothing, ReadFail
<1>12. QED
  BY <1>1, <1>2, <1>3, <1>4, <1>5, <1>6, <1>7, <1>8, <1>9, <1>10, <1>11
     DEF Next, Source, Proxy, Reader

LEMMA IInvTypeOK == IInv => TypeOK
<1> SUFFICES ASSUME IInv PROVE TypeOK
  OBVIOUS
<1>1. \A wire \in {near, far} : \A i \in DOMAIN wire : wire[i].kind \in Kinds
  <2>1. \A wire \in Wires : \A i \in DOMAIN wire : wire[i] \in Tokens
    BY DEF Wires
  <2>2. \A token \in Tokens : token.kind \in Kinds
    BY DEF Tokens
  <2>3. near \in Wires /\ far \in Wires
    BY DEF IInv, Typed
  <2>4. QED
    BY <2>1, <2>2, <2>3
<1>2. \A i \in DOMAIN buf : buf[i].kind = "byte"
  <2>1. DOMAIN buf = 1 .. Len(buf)
    BY DEF IInv, Typed, Wires
  <2>2. \A i \in 1 .. Len(buf) : buf[i] = Byte(Len(out) + i)
    BY DEF IInv, Delivered, AreBytes
  <2>3. QED
    BY <2>1, <2>2 DEF Byte
<1>3. out \in Seq(1 .. MaxBytes)
  <2>1. out \in Seq(Nat) /\ Len(out) \in Nat /\ Len(buf) \in Nat /\ sent \in Nat
        /\ MaxBytes \in Nat /\ sent <= MaxBytes /\ Len(out) + Len(buf) <= sent
    BY WireLen, VisionAssumption DEF IInv, Typed, Delivered
  <2>2. Len(out) <= MaxBytes
    BY <2>1
  <2>3. \A i \in 1 .. Len(out) : out[i] \in 1 .. MaxBytes
    BY <2>1, <2>2 DEF IInv, Delivered
  <2>4. QED
    BY <2>1, <2>3
<1>4. QED
  BY <1>1, <1>2, <1>3 DEF IInv, Typed, TypeOK, Modes

(* Type correctness of the direction, for frames, reads and wires of any   *)
(* size (vision.go:69-134, 160-204, 218-285).                              *)
THEOREM TypeCorrect == Spec => []TypeOK
<1>1. IInv /\ [Next]_vars => IInv'
  BY NextStep
<1>2. QED
  BY InitIInv, IInvTypeOK, <1>1, PTL DEF Spec

(* Whatever the source does to frame, pad and leave the framing, however   *)
(* large the reads are, and wherever the connection is cut: every step of  *)
(* the direction puts bytes into the stream, lets the next ones out, or    *)
(* does neither (vision.go:69-134, 160-204, 218-285).                      *)
THEOREM ImplementsStream == Spec => IsStream
<1>1. Init => Stream!Init
  BY DEF Init, Stream!Init
<1>2. IInv /\ [Next]_vars => [Stream!Next]_(Stream!streamVars)
  <2> SUFFICES ASSUME IInv, [Next]_vars
               PROVE  [Stream!Next]_(Stream!streamVars)
    OBVIOUS
  <2>1. IInv' /\ (Inputs \/ Moves \/ Nothing)
    BY NextStep
  <2>2. sent \in Nat /\ MaxBytes \in Nat /\ sent <= MaxBytes /\ out \in Seq(Nat) /\ Len(out) \in Nat
    BY VisionAssumption DEF IInv, Typed
  <2>3. CASE Inputs
    <3>1. PICK n \in Nat : sent + n <= MaxBytes /\ sent' = sent + n /\ out' = out
      BY <2>3 DEF Inputs
    <3>2. CASE n = 0
      BY <2>2, <3>1, <3>2 DEF Stream!streamVars
    <3>3. CASE n # 0
      <4>1. n \in 1 .. MaxBytes
        BY <2>2, <3>1, <3>3
      <4>2. Stream!Send(n)
        BY <3>1 DEF Stream!Send
      <4>3. QED
        BY <4>1, <4>2 DEF Stream!Next
    <3>4. QED
      BY <3>2, <3>3
  <2>4. CASE Moves
    <3>1. PICK n \in Nat : /\ Len(out) + n <= sent /\ sent' = sent
                           /\ out' = out \o Stream!From(Len(out) + 1, n)
      BY <2>4 DEF Moves
    <3>2. CASE n = 0
      <4>1. Stream!From(Len(out) + 1, n) = << >>
        BY <2>2, <3>2 DEF Stream!From
      <4>2. QED
        BY <2>2, <3>1, <4>1 DEF Stream!streamVars
    <3>3. CASE n # 0
      <4>1. n \in 1 .. MaxBytes
        BY <2>2, <3>1, <3>3
      <4>2. Stream!Deliver(n)
        BY <3>1 DEF Stream!Deliver
      <4>3. QED
        BY <4>1, <4>2 DEF Stream!Next
    <3>4. QED
      BY <3>2, <3>3
  <2>5. CASE Nothing
    BY <2>5 DEF Nothing, Stream!streamVars
  <2>6. QED
    BY <2>1, <2>3, <2>4, <2>5
<1>3. IInv /\ [Next]_vars => IInv'
  BY NextStep
<1>4. QED
  BY InitIInv, <1>1, <1>2, <1>3, PTL DEF Spec, IsStream, Stream!Spec
=============================================================================
