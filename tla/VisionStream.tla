---------------------------- MODULE VisionStream ----------------------------
(***************************************************************************)
(* One direction of a relayed connection with the framing of vision.go.    *)
(* The peer it comes from (client or backend, outside this program) puts   *)
(* bytes on the wire `near`; the proxy moves them on: VisionRelay from     *)
(* frames to frames with another UUID on the wire `far`, VisionWriter from *)
(* plain bytes to frames on `far`, VisionReader from frames to plain bytes *)
(* (proxy.go:274-319 chooses). What arrives framed is decoded by the peer  *)
(* it goes to, by the rules VisionReader has. A connection can be lost     *)
(* with part of what is on `near`; and the proxy itself throws away what   *)
(* is under way where it closes a socket: the goroutine of the other       *)
(* direction the one this direction reads, at any time, this one at its    *)
(* end the one it writes.                                                  *)
(*                                                                         *)
(* io.ReadFull waits until all it was asked for is there, so reading a     *)
(* whole frame is one step that waits for the frame; a read without it     *)
(* takes any amount.                                                       *)
(***************************************************************************)
EXTENDS Naturals, Sequences, FiniteSetsExt

CONSTANTS
  MaxBytes,    \* bound: bytes put in
  MaxContent,  \* visionMaxContent
  Block,       \* what frames are padded to, 64 in xtlsPadding
  Paddings,    \* bound: the padding a peer may use, and the addon it may send
  Commands,    \* bound: the commands its frames may have
  Window       \* bound: what may be under way when it writes on

ASSUME VisionAssumption ==
  /\ MaxBytes \in Nat
  /\ MaxContent \in Nat \ {0} /\ Block \in Nat \ {0}
  /\ Paddings \subseteq Nat /\ Commands \subseteq Nat /\ Window \in Nat

VARIABLES
  from,    \* the peer the bytes come from
  vision,  \* the backend's flow is xtls-rprx-vision
  sent,    \* bytes put in
  source,  \* how the peer writes next: "first" or "next" frame, or "raw"
  near, far,
  stripped,\* the backend's VLESS response header has been taken off
  proxy,   \* how VisionRelay or VisionWriter goes on, or "ended"
  reader,  \* how the decoding VisionReader goes on, or "ended"
  buf,     \* content it has decoded and not returned yet
  out,     \* bytes it returned
  shut,    \* nothing more gets onto `near`
  lost     \* something was under way where a connection ended

vars == <<from, vision, sent, source, near, far, stripped, proxy, reader, buf, out, shut, lost>>
path == <<from, vision>>

-----------------------------------------------------------------------------
(* Wires carry tokens: an id, the rest of a frame header, content bytes,   *)
(* padding bytes, and the header of a VLESS response.                      *)
Uuid(u) == [kind |-> "uuid", v |-> <<u>>]
FrameHead(cmd, len, pad) == [kind |-> "head", v |-> <<cmd, len, pad>>]
Byte(i) == [kind |-> "byte", v |-> <<i>>]
Filler == [kind |-> "pad", v |-> << >>]
Response(len) == [kind |-> "response", v |-> <<len>>]

Kinds == {"uuid", "head", "byte", "pad", "response"}
Modes == {"first", "next", "raw", "ended"}

ProxyUUID == 1
BackendUUID == 2

(* Frames name the user of the side they are on.                           *)
SourceUUID == IF from = "client" THEN ProxyUUID ELSE BackendUUID
TargetUUID == IF from = "client" THEN BackendUUID ELSE ProxyUUID

Relaying == vision
Encoding == ~vision /\ from = "backend"
Decoding == ~vision /\ from = "client"

(* The wire the reader decodes, and the id it expects on it.               *)
Inbound == IF Decoding THEN near ELSE far
ReaderUUID == IF Decoding THEN SourceUUID ELSE TargetUUID

Bytes(first, n) == [i \in 1 .. n |-> Byte(first + i - 1)]
Fillers(n) == [i \in 1 .. n |-> Filler]
Places(bytes) == [i \in DOMAIN bytes |-> bytes[i].v[1]]

Frame(mode, u, cmd, content, pad) ==
  (IF mode = "first" THEN <<Uuid(u)>> ELSE << >>)
    \o <<FrameHead(cmd, Len(content), pad)>> \o content \o Fillers(pad)

(* The frame a wire begins with.                                           *)
HeadIn(mode) == IF mode = "first" THEN 2 ELSE 1
ContentEnd(wire, mode) == HeadIn(mode) + wire[HeadIn(mode)].v[2]
FrameEnd(wire, mode) == ContentEnd(wire, mode) + wire[HeadIn(mode)].v[3]
HasFrame(wire, mode) ==
  /\ mode \in {"first", "next"}
  /\ Len(wire) >= HeadIn(mode)
  /\ Len(wire) >= FrameEnd(wire, mode)
Content(wire, mode) == SubSeq(wire, HeadIn(mode) + 1, ContentEnd(wire, mode))

(* Commands 1 and 2 end the framing.                                       *)
After(cmd) == IF cmd \in {1, 2} THEN "raw" ELSE "next"
ModeAfter(wire, mode) == After(wire[HeadIn(mode)].v[1])

Rest(wire, n) == SubSeq(wire, n + 1, Len(wire))

TypeOK ==
  /\ from \in {"client", "backend"} /\ vision \in BOOLEAN
  /\ sent \in 0 .. MaxBytes
  /\ {source, proxy, reader} \subseteq Modes
  /\ \A wire \in {near, far} : \A i \in DOMAIN wire : wire[i].kind \in Kinds
  /\ \A i \in DOMAIN buf : buf[i].kind = "byte"
  /\ out \in Seq(1 .. MaxBytes)
  /\ {stripped, shut, lost} \subseteq BOOLEAN

(* A backend's answer starts with the response header; what comes from a   *)
(* client has had its VLESS header read before.                            *)
Init ==
  /\ from \in {"client", "backend"} /\ vision \in BOOLEAN
  /\ sent = 0
  /\ source = IF Encoding THEN "raw" ELSE "first"
  /\ \/ from = "client" /\ near = << >>
     \/ from = "backend" /\ \E n \in Paddings : near = <<Response(n)>> \o Fillers(n)
  /\ far = << >>
  /\ stripped = (from = "client")
  /\ proxy = IF Decoding THEN "ended" ELSE "first"
  /\ reader = "first" /\ buf = << >> /\ out = << >>
  /\ shut = FALSE /\ lost = FALSE

-----------------------------------------------------------------------------
(* The peer the bytes come from.                                           *)
Ready == ~shut /\ Len(near) + Len(far) <= Window

SourceFrame(cmd, n, pad) ==
  /\ source \in {"first", "next"} /\ Ready
  /\ sent + n <= MaxBytes
  /\ near' = near \o Frame(source, SourceUUID, cmd, Bytes(sent + 1, n), pad)
  /\ source' = After(cmd)
  /\ sent' = sent + n
  /\ UNCHANGED <<path, far, stripped, proxy, reader, buf, out, shut, lost>>

SourceRaw(n) ==
  /\ source = "raw" /\ Ready
  /\ sent + n <= MaxBytes
  /\ near' = near \o Bytes(sent + 1, n)
  /\ sent' = sent + n
  /\ UNCHANGED <<path, source, far, stripped, proxy, reader, buf, out, shut, lost>>

(* What is under way from some place on does not get to this program.      *)
Cut(n) ==
  /\ near' = SubSeq(near, 1, n)
  /\ shut' = TRUE
  /\ lost' = (lost \/ n < Len(near))
  /\ UNCHANGED <<path, sent, source, far, stripped, proxy, reader, buf, out>>

(* The source closes, or the network loses the connection.                 *)
SourceEnd(n) == ~shut /\ Cut(n)

(* The other direction ends, whatever this one is doing, and its deferred  *)
(* Close shuts the socket this one reads from: no more is read than is in  *)
(* the process by then, be it that the source had sent it all and closed.  *)
OtherEnd(n) == Cut(n)

-----------------------------------------------------------------------------
HasResponse == near # << >> /\ Len(near) > near[1].v[1]

(* vlessResponseConn: the first Read takes the response header off.        *)
StripResponse ==
  /\ ~stripped
  /\ HasResponse
  /\ near' = Rest(near, 1 + near[1].v[1])
  /\ stripped' = TRUE
  /\ UNCHANGED <<path, sent, source, far, proxy, reader, buf, out, shut, lost>>

(* VisionRelay. Mutant: the first frame keeps the id it came with.         *)
RelayFrame_SameUUID ==
  /\ Relaying /\ stripped
  /\ HasFrame(near, proxy)
  /\ far' = far \o SubSeq(near, 1, FrameEnd(near, proxy))
  /\ proxy' = ModeAfter(near, proxy)
  /\ near' = Rest(near, FrameEnd(near, proxy))
  /\ UNCHANGED <<path, sent, source, stripped, reader, buf, out, shut, lost>>

(* A whole frame goes on, padding and all, with the id of the other side   *)
(* in the first one.                                                       *)
RelayFrame ==
  /\ Relaying /\ stripped
  /\ HasFrame(near, proxy)
  /\ LET frame == SubSeq(near, 1, FrameEnd(near, proxy))
     IN  far' = far \o (IF proxy = "first" THEN [frame EXCEPT ![1] = Uuid(TargetUUID)] ELSE frame)
  /\ proxy' = ModeAfter(near, proxy)
  /\ near' = Rest(near, FrameEnd(near, proxy))
  /\ UNCHANGED <<path, sent, source, stripped, reader, buf, out, shut, lost>>

RelayRaw(n) ==
  /\ Relaying /\ stripped /\ proxy = "raw"
  /\ n <= Len(near)
  /\ far' = far \o SubSeq(near, 1, n)
  /\ near' = Rest(near, n)
  /\ UNCHANGED <<path, sent, source, stripped, proxy, reader, buf, out, shut, lost>>

(* xtlsPadding.                                                            *)
Padding(n) == (Block - (n % Block)) % Block

(* VisionWriter.Write of the n bytes io.Copy has read: the first call      *)
(* makes one frame that ends the framing, of no more than MaxContent       *)
(* bytes, and writes the others after it.                                  *)
Encode(n) ==
  /\ Encoding /\ stripped /\ proxy \in {"first", "raw"}
  /\ n <= Len(near)
  /\ LET chunk == Min({n, MaxContent})
     IN  far' = far \o (IF proxy = "raw" THEN SubSeq(near, 1, n)
                        ELSE Frame("first", TargetUUID, 1, SubSeq(near, 1, chunk), Padding(chunk))
                               \o SubSeq(near, chunk + 1, n))
  /\ near' = Rest(near, n)
  /\ proxy' = "raw"
  /\ UNCHANGED <<path, sent, source, stripped, reader, buf, out, shut, lost>>

(* Nothing more can be read: what is there is less than a frame, or        *)
(* nothing, and the source is shut. The deferred Close shuts `far`; if the *)
(* other direction has left something unread on that socket this resets    *)
(* the connection, and what is under way on it can be lost.                *)
ProxyEnd(n) ==
  /\ proxy # "ended" /\ shut
  /\ \/ ~stripped /\ ~HasResponse
     \/ stripped /\ near = << >>
     \/ stripped /\ Relaying /\ proxy # "raw" /\ ~HasFrame(near, proxy)
  /\ proxy' = "ended"
  /\ near' = << >>
  /\ far' = SubSeq(far, 1, n)
  /\ lost' = (lost \/ n < Len(far))
  /\ UNCHANGED <<path, sent, source, stripped, reader, buf, out, shut>>

-----------------------------------------------------------------------------
(* VisionReader.Read into a buffer of n bytes, on the wire it decodes.     *)
TakeInbound(n) ==
  IF Decoding THEN near' = Rest(near, n) /\ UNCHANGED far
  ELSE far' = Rest(far, n) /\ UNCHANGED near

Return(n, bytes) ==
  /\ out' = out \o Places(SubSeq(bytes, 1, Min({n, Len(bytes)})))
  /\ buf' = Rest(bytes, Min({n, Len(bytes)}))

ReadBuffered(n) ==
  /\ buf # << >>
  /\ Return(n, buf)
  /\ UNCHANGED <<path, sent, source, near, far, stripped, proxy, reader, shut, lost>>

(* Mutants: what does not fit into the caller's buffer is forgotten; the   *)
(* padding is left on the wire.                                            *)
ReadFrame_NoBuffer(n) ==
  /\ buf = << >>
  /\ HasFrame(Inbound, reader)
  /\ reader = "first" => Inbound[1] = Uuid(ReaderUUID)
  /\ LET content == Content(Inbound, reader)
     IN  out' = out \o Places(SubSeq(content, 1, Min({n, Len(content)})))
  /\ reader' = ModeAfter(Inbound, reader)
  /\ TakeInbound(FrameEnd(Inbound, reader))
  /\ UNCHANGED <<path, sent, source, stripped, proxy, buf, shut, lost>>

ReadFrame_WithPadding(n) ==
  /\ buf = << >>
  /\ HasFrame(Inbound, reader)
  /\ reader = "first" => Inbound[1] = Uuid(ReaderUUID)
  /\ out' = out
  /\ buf' = SubSeq(Inbound, HeadIn(reader) + 1, FrameEnd(Inbound, reader))
  /\ reader' = ModeAfter(Inbound, reader)
  /\ TakeInbound(FrameEnd(Inbound, reader))
  /\ UNCHANGED <<path, sent, source, stripped, proxy, shut, lost>>

ReadFrame(n) ==
  /\ buf = << >>
  /\ HasFrame(Inbound, reader)
  /\ reader = "first" => Inbound[1] = Uuid(ReaderUUID)
  /\ Return(n, Content(Inbound, reader))
  /\ reader' = ModeAfter(Inbound, reader)
  /\ TakeInbound(FrameEnd(Inbound, reader))
  /\ UNCHANGED <<path, sent, source, stripped, proxy, shut, lost>>

ReadRaw(n) ==
  /\ buf = << >> /\ reader = "raw"
  /\ n <= Len(Inbound)
  /\ out' = out \o Places(SubSeq(Inbound, 1, n))
  /\ TakeInbound(n)
  /\ UNCHANGED <<path, sent, source, stripped, proxy, reader, buf, shut, lost>>

(* The id is another one, or the wire ends before the next frame does.     *)
InboundShut == IF Decoding THEN shut ELSE proxy = "ended"

ReadFail ==
  /\ buf = << >>
  /\ \/ reader = "first" /\ Inbound # << >> /\ Inbound[1] # Uuid(ReaderUUID)
     \/ InboundShut /\ reader \in {"first", "next"} /\ ~HasFrame(Inbound, reader)
     \/ InboundShut /\ reader = "raw" /\ Inbound = << >>
  /\ reader' = "ended"
  /\ UNCHANGED <<path, sent, source, near, far, stripped, proxy, buf, out, shut, lost>>

-----------------------------------------------------------------------------
Amounts == 1 .. MaxBytes

Source ==
  \/ \E cmd \in Commands, n \in 0 .. MaxContent, pad \in Paddings : SourceFrame(cmd, n, pad)
  \/ \E n \in Amounts : SourceRaw(n)
  \/ \E n \in 0 .. Len(near) : SourceEnd(n)

Proxy ==
  \/ StripResponse
  \/ RelayFrame
  \/ \E n \in Amounts : RelayRaw(n) \/ Encode(n)
  \/ \E n \in 0 .. Len(far) : ProxyEnd(n)

Reader ==
  \/ \E n \in Amounts : ReadBuffered(n) \/ ReadFrame(n) \/ ReadRaw(n)
  \/ ReadFail

Next == Source \/ Proxy \/ Reader \/ \E n \in 0 .. Len(near) : OtherEnd(n)

(* The two goroutines of the relay never pause, nor does the peer that     *)
(* reads; the peer that writes owes nothing.                               *)
Spec == Init /\ [][Next]_vars /\ WF_vars(Proxy) /\ WF_vars(Reader)

-----------------------------------------------------------------------------
(* However the source divides its bytes into frames, pads them and leaves  *)
(* the framing, however large the reads are and wherever a connection is   *)
(* lost, what comes out is a stream: a prefix of what was put in, without  *)
(* padding, header or response (vision.go:69-134, 160-204, 218-285).       *)
Stream == INSTANCE ByteStream

IsStream == Stream!Spec

(* All of it comes out in the end, unless a connection ended with          *)
(* something under way: by the network, or by one of the two deferred      *)
(* Closes, which do not wait for the other direction (proxy.go:278, 289,   *)
(* 301, 312). A source that sends its last bytes and closes gets them      *)
(* through only if the other direction has not ended before they were      *)
(* read. Of a direction that is decoded this speaks up to the bytes that   *)
(* VisionReader returns to io.Copy.                                        *)
EverythingArrives ==
  \A n \in Amounts : sent >= n ~> Len(out) >= n \/ lost
=============================================================================
