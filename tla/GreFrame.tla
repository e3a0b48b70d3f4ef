------------------------------ MODULE GreFrame ------------------------------
(***************************************************************************)
(* What peers send: a frame is put together from its fields, so that what  *)
(* the daemon makes of the bytes can be compared with what was meant.      *)
(***************************************************************************)
EXTENDS Integers, Sequences, SequencesExt

Two(n) == <<n \div 256, n % 256>>
Zeros(n) == [k \in 1 .. n |-> 0]

\* A frame every daemon should take: no outer tag, no IPv4 options.
Plain == [outer |-> <<>>, etype |-> 2048, version |-> 4, words |-> 5, extra |-> 0,
          frag |-> 0, proto |-> 47, src |-> <<192, 0, 4, 2>>, dst |-> <<192, 0, 4, 1>>,
          flags |-> 0, gproto |-> 25944, mac |-> <<2, 0, 0, 0, 0, 66>>,
          inner |-> <<33024>>, tci |-> 10, itype |-> 2048, cut |-> 0, pad |-> 0]

\* Bytes of the IPv4 header; fewer than five words are claimed, not sent.
Header(x) == 4 * (IF x.words < 5 THEN 5 ELSE x.words)
IpLength(x) == Header(x) + 4 + 14 + 4 * Len(x.inner)
Length(x) == 14 + 4 * Len(x.outer) + IpLength(x) + x.pad - x.cut

Tagged(types, tci, last) == FlattenSeq([k \in 1 .. Len(types) |-> Two(types[k]) \o Two(tci)]) \o Two(last)

\* extra is added to the total length; cut bytes are missing at the end.
Encode(x) ==
  Zeros(12) \o Tagged(x.outer, 7, x.etype)
  \o <<16 * x.version + x.words, 0>> \o Two(IpLength(x) + x.extra) \o <<0, 0>> \o Two(x.frag)
  \o <<64, x.proto, 0, 0>> \o x.src \o x.dst \o Zeros(Header(x) - 20)
  \o Two(x.flags) \o Two(x.gproto)
  \o Zeros(6) \o x.mac \o Tagged(x.inner, x.tci, x.itype) \o Zeros(x.pad)

\* The bytes that were cut off are still in the receive buffer, from the frame before.
Bytes(x) == Encode(x) \o Zeros(64)

Tags == {33024, 34984}

\* The fields a peer has to send to be provisioned.
Acceptable(x) ==
  /\ Len(x.outer) <= 2 /\ x.etype = 2048
  /\ x.version = 4 /\ x.words >= 5 /\ x.proto = 47 /\ x.frag \in {0, 16384}
  /\ x.flags = 0 /\ x.gproto = 25944
  /\ x.inner = <<33024>> /\ x.itype \notin Tags
  /\ x.tci % 4096 \in 1 .. 4094
  /\ x.mac[1] % 2 = 0 /\ x.mac # Zeros(6)
  /\ x.extra >= 0 /\ x.extra + x.cut <= x.pad

=============================================================================
