----------------------------- MODULE VlessHeader -----------------------------
(***************************************************************************)
(* The request header of vless.go: the program reads one from its client   *)
(* and writes another, with the backend's user id, to the backend. On a    *)
(* wire, a sequence, everything of fixed size is one element; what has a   *)
(* length is that many elements, after the byte that says how many.        *)
(***************************************************************************)
EXTENDS Naturals, Sequences

ByteValues == 256
DumpSize == 64  \* of the array the header is dumped into before it is sent

IPv4 == 1
Domain == 2
IPv6 == 4

Header(uuid, addon, target) == [uuid |-> uuid, addon |-> addon, target |-> target]

(* What a client asks for: a command, a port and an address.               *)
Target(cmd, port, atyp, addr) == [cmd |-> cmd, port |-> port, atyp |-> atyp, addr |-> addr]

(* What ReadVLESSHeader makes of a request, whoever sent it.               *)
Requests ==
  {target \in [cmd : Nat, port : Nat, atyp : {IPv4, Domain, IPv6}, addr : Seq(Nat)] :
     /\ target.atyp = IPv4 => Len(target.addr) = 4
     /\ target.atyp = IPv6 => Len(target.addr) = 16}

(* A length as one byte: Go converts by cutting.                           *)
Byte(n) == n % ByteValues

(* encodeFlowAddon: a protobuf field of which only the length matters.     *)
FlowAddon(flow) == IF flow = <<>> THEN <<>> ELSE <<10, Byte(Len(flow))>> \o flow

(* WriteVLESSHeader; an address of another type is left out.               *)
WriteHeader(h) ==
  <<0, h.uuid, Byte(Len(h.addon))>> \o h.addon
    \o <<h.target.cmd, h.target.port, h.target.atyp>>
    \o (IF h.target.atyp = Domain THEN <<Byte(Len(h.target.addr))>> ELSE <<>>)
    \o (IF h.target.atyp \in {IPv4, IPv6, Domain} THEN h.target.addr ELSE <<>>)

-----------------------------------------------------------------------------
(* ReadVLESSHeader of what starts with a header. Where the address begins, *)
(* and how long it is, follow from what was read before it.                *)
AddonEnd(wire) == 3 + wire[3]
Atyp(wire) == wire[AddonEnd(wire) + 3]
AddrStart(wire) == AddonEnd(wire) + (IF Atyp(wire) = Domain THEN 5 ELSE 4)
AddrLen(wire) ==
  CASE Atyp(wire) = IPv4 -> 4
    [] Atyp(wire) = IPv6 -> 16
    [] Atyp(wire) = Domain -> wire[AddonEnd(wire) + 4]

(* No read fails: the version is 0, the type known, and all of it there.   *)
Readable(wire) ==
  /\ Len(wire) >= 3 /\ wire[1] = 0
  /\ Len(wire) >= AddonEnd(wire) + 4
  /\ Atyp(wire) \in {IPv4, IPv6, Domain}
  /\ Len(wire) >= AddrStart(wire) + AddrLen(wire) - 1

ReadHeader(wire) ==
  Header(wire[2], SubSeq(wire, 4, AddonEnd(wire)),
         Target(wire[AddonEnd(wire) + 1], wire[AddonEnd(wire) + 2], Atyp(wire),
                SubSeq(wire, AddrStart(wire), AddrStart(wire) + AddrLen(wire) - 1)))

Rest(wire) == SubSeq(wire, AddrStart(wire) + AddrLen(wire), Len(wire))

-----------------------------------------------------------------------------
(* The header proxyToBackend builds, and the bytes of it that it dumps:    *)
(* version, user id, two lengths, command, port and type, and the rest.    *)
DumpLen(h) == 23 + Len(h.addon) + Len(h.target.addr)

(* Mutant: the array is made as large as a header can be.                  *)
DumpFits_Enough(h) == DumpLen(h) <= 23 + 2 * 1024

DumpFits(h) == DumpLen(h) <= DumpSize
=============================================================================
