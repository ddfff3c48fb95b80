----------------------------- MODULE ByteStream -----------------------------
(***************************************************************************)
(* What a relayed direction of a connection promises: the bytes put in at  *)
(* one end come out at the other, in order, each once, nothing in between. *)
(* A byte is the number of its place in the stream.                        *)
(***************************************************************************)
EXTENDS Naturals, Sequences

CONSTANT MaxBytes  \* bound: bytes put in

VARIABLES
  sent,  \* bytes put in so far
  out    \* bytes that came out

streamVars == <<sent, out>>

From(first, n) == [i \in 1 .. n |-> first + i - 1]

Init == sent = 0 /\ out = << >>

Send(n) ==
  /\ sent + n <= MaxBytes
  /\ sent' = sent + n
  /\ UNCHANGED out

Deliver(n) ==
  /\ Len(out) + n <= sent
  /\ out' = out \o From(Len(out) + 1, n)
  /\ UNCHANGED sent

Next == \E n \in 1 .. MaxBytes : Send(n) \/ Deliver(n)

Spec == Init /\ [][Next]_streamVars
=============================================================================
