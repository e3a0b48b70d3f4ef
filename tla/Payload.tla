------------------------------ MODULE Payload -------------------------------
(***************************************************************************)
(* payload.c: the capture socket, the program that filters it in the       *)
(* kernel, and payload_parse.  One frame at a time is on its way from the  *)
(* wire to provision_packet; pc says how far it is.                        *)
(*                                                                         *)
(* The bytes of a frame go on behind its Size: there is whatever the       *)
(* receive buffer held before.                                             *)
(***************************************************************************)
EXTENDS Integers, Sequences

CONSTANTS Frames, NoFrame,
          Size(_),      \* length of a frame
          Octet(_, _)   \* its bytes, from 0 on

ASSUME FramesAssumption ==
  /\ NoFrame \notin Frames
  /\ \A f \in Frames : /\ Size(f) \in Nat
                       /\ \A k \in 0 .. Size(f) - 1 : Octet(f, k) \in 0 .. 255

VARIABLES
  capture,  \* capture_fd: "closed", "open", "bound" or "filtered"
  frame, pc,
  offset, type, tags,   \* payload_parse
  high,     \* history: one past the last byte payload_parse has read
  out       \* struct payload_packet

parseVars == <<offset, type, tags, high, out>>
payloadVars == <<capture, frame, pc, parseVars>>

NoPacket == [remote |-> <<>>, local |-> <<>>, mac |-> <<>>, vlan |-> 0]

PayloadInit ==
  /\ capture = "closed"
  /\ frame = NoFrame /\ pc = "idle"
  /\ offset = 0 /\ type = 0 /\ tags = 0 /\ high = 0
  /\ out = NoPacket

-----------------------------------------------------------------------------
(* payload_loop_init.                                                      *)

\* socket; from here on the kernel queues frames.
Socket ==
  /\ capture = "closed" /\ frame = NoFrame
  /\ capture' = "open"
  /\ UNCHANGED <<frame, pc, parseVars>>

\* bind, then SO_ATTACH_FILTER.  Either may fail: payload_loop_end.
Configure ==
  /\ capture \in {"open", "bound"}
  /\ capture' \in {"closed", IF capture = "open" THEN "bound" ELSE "filtered"}
  /\ IF capture' = "closed"
     THEN frame' = NoFrame /\ pc' = "idle"
     ELSE UNCHANGED <<frame, pc>>
  /\ UNCHANGED parseVars

Ld(size, k) == [op |-> "ld", size |-> size, k |-> k]
Jeq(k, jt, jf) == [op |-> "jeq", k |-> k, jt |-> jt, jf |-> jf]
Ret(k) == [op |-> "ret", k |-> k]

\* Mutant of code: the jump behind the second tag is one short.
codeShort == <<
  Ld(2, 12), Jeq(2048, 0, 3), Ld(1, 23), Jeq(47, 13, 14), Ret(0), Jeq(33024, 1, 0),
  Jeq(34984, 0, 11), Ld(2, 16), Jeq(2048, 0, 2), Ld(1, 27), Jeq(47, 6, 7), Jeq(33024, 0, 0),
  Jeq(34984, 0, 5), Ld(2, 20), Jeq(2048, 0, 3), Ld(1, 31), Jeq(47, 0, 1), Ret(65535), Ret(0)>>

\* "IPv4 GRE, including up to two outer VLAN tags".
code == <<
  Ld(2, 12), Jeq(2048, 0, 3), Ld(1, 23), Jeq(47, 13, 14), Ret(0), Jeq(33024, 1, 0),
  Jeq(34984, 0, 11), Ld(2, 16), Jeq(2048, 0, 2), Ld(1, 27), Jeq(47, 6, 7), Jeq(33024, 1, 0),
  Jeq(34984, 0, 5), Ld(2, 20), Jeq(2048, 0, 3), Ld(1, 31), Jeq(47, 0, 1), Ret(65535), Ret(0)>>

\* A frame arrives.  While the socket has no filter it is queued as it is.
Arrive(f) ==
  /\ capture # "closed" /\ frame = NoFrame
  /\ frame' = f
  /\ pc' = IF capture = "filtered" THEN "filter" ELSE "queued"
  /\ UNCHANGED <<capture, parseVars>>

Word(f, k) == 256 * Octet(f, k) + Octet(f, k + 1)

\* One instruction of the program in state s; a load behind the end of the frame ends
\* it with 0.
Execute(f, s) ==
  LET c == code[s.at]
  IN  IF s.at = 0 THEN s
      ELSE CASE c.op = "ret" -> [at |-> 0, acc |-> c.k]
             [] c.op = "jeq" -> [at |-> s.at + 1 + (IF s.acc = c.k THEN c.jt ELSE c.jf), acc |-> s.acc]
             [] c.op = "ld" -> IF c.k + c.size > Size(f) THEN [at |-> 0, acc |-> 0]
                               ELSE [at |-> s.at + 1,
                                     acc |-> IF c.size = 2 THEN Word(f, c.k) ELSE Octet(f, c.k)]

\* The program returns a length to keep: no jump goes back, so it is in one state after
\* each of Len(code) steps, and has ended (at 0) in the last.
Passes(f) ==
  LET run[m \in 0 .. Len(code)] ==
        IF m = 0 THEN {[at |-> 1, acc |-> 0]} ELSE {Execute(f, s) : s \in run[m - 1]}
  IN  \E s \in run[Len(code)] : s.at = 0 /\ s.acc > 0

\* The kernel runs the filter.
Filter ==
  /\ pc = "filter"
  /\ pc' = IF Passes(frame) THEN "queued" ELSE "dropped"
  /\ UNCHANGED <<capture, frame, parseVars>>

-----------------------------------------------------------------------------
(* payload_receive and payload_parse.                                      *)

Ipv4 == 2048             \* 0x0800
Vlan == 33024            \* 0x8100
TagTypes == {Vlan, 34984}   \* or 0x88a8
Bridging == 25944        \* 0x6558
DontFragment == 16384    \* 0x4000
Huge == 2147483647

\* size_t a - b: below zero it wraps to more than any frame has.
Minus(a, b) == IF a >= b THEN a - b ELSE Huge

Reach(k) == high' = IF k > high THEN k ELSE high

\* One recvfrom of the batch, once main is in its loop; a packet the host itself
\* sends is passed over.
Receive ==
  /\ pc = "queued" /\ capture = "filtered"
  /\ pc' \in {"ether", "skipped"}
  /\ UNCHANGED <<capture, frame, parseVars>>

ParseEther ==
  /\ pc = "ether"
  /\ IF Size(frame) < 14
     THEN pc' = "rejected" /\ UNCHANGED parseVars
     ELSE /\ pc' = "tags"
          /\ offset' = 14 /\ type' = Word(frame, 12) /\ tags' = 0 /\ Reach(14)
          /\ UNCHANGED out
  /\ UNCHANGED <<capture, frame>>

\* Mutant of ParseTag: the length is not looked at.
ParseTagUnchecked ==
  /\ pc = "tags" /\ type \in TagTypes
  /\ IF tags = 2
     THEN pc' = "rejected" /\ UNCHANGED parseVars
     ELSE /\ type' = Word(frame, offset + 2)
          /\ offset' = offset + 4 /\ tags' = tags + 1 /\ Reach(offset + 4)
          /\ UNCHANGED <<pc, out>>
  /\ UNCHANGED <<capture, frame>>

\* One round of the loop over outer VLAN tags.
ParseTag ==
  /\ pc = "tags" /\ type \in TagTypes
  /\ IF tags = 2 \/ Minus(Size(frame), offset) < 4
     THEN pc' = "rejected" /\ UNCHANGED parseVars
     ELSE /\ type' = Word(frame, offset + 2)
          /\ offset' = offset + 4 /\ tags' = tags + 1 /\ Reach(offset + 4)
          /\ UNCHANGED <<pc, out>>
  /\ UNCHANGED <<capture, frame>>

\* The fields of an IPv4 header at byte p.
Ihl(f, p) == (Octet(f, p) % 16) * 4
Total(f, p) == Word(f, p + 2)

\* Mutant of IpOk: a total length beyond the frame is accepted.
IpOkLong(f, p) ==
  /\ Octet(f, p) \div 16 = 4 /\ Ihl(f, p) >= 20
  /\ Total(f, p) >= Ihl(f, p) + 4
  /\ Octet(f, p + 9) = 47
  /\ Word(f, p + 6) \in {0, DontFragment}

\* Version, lengths, protocol, and no bit but DF in the fragment field (& 0xbfff).
IpOk(f, p) ==
  /\ Octet(f, p) \div 16 = 4 /\ Ihl(f, p) >= 20
  /\ Total(f, p) >= Ihl(f, p) + 4 /\ Total(f, p) <= Minus(Size(f), p)
  /\ Octet(f, p + 9) = 47
  /\ Word(f, p + 6) \in {0, DontFragment}

ParseIp ==
  /\ pc = "tags" /\ type \notin TagTypes
  /\ IF type # Ipv4 \/ Minus(Size(frame), offset) < 20
     THEN pc' = "rejected" /\ UNCHANGED high
     ELSE /\ Reach(offset + 20)
          /\ pc' = IF IpOk(frame, offset) THEN "gre" ELSE "rejected"
  /\ UNCHANGED <<capture, frame, offset, type, tags, out>>

\* Unkeyed GRE version 0 with an Ethernet frame inside.
GreOk(f, g) == Word(f, g) = 0 /\ Word(f, g + 2) = Bridging

ParseGre ==
  /\ pc = "gre"
  /\ LET gre == offset + Ihl(frame, offset)
     IN  /\ Reach(gre + 4)
         /\ pc' = IF GreOk(frame, gre) THEN "inner" ELSE "rejected"
  /\ UNCHANGED <<capture, frame, offset, type, tags, out>>

Slice(f, k, n) == [j \in 1 .. n |-> Octet(f, k + j - 1)]

Vid(f, ether) == Word(f, ether + 14) % 4096
Vids == 1 .. 4094

\* One VLAN tag, a number that may be in the map, a unicast source address.
InnerOk(f, e) ==
  /\ Word(f, e + 16) \notin TagTypes
  /\ Vid(f, e) \in Vids
  /\ Octet(f, e + 6) % 2 = 0
  /\ \E j \in 6 .. 11 : Octet(f, e + j) # 0

ParseInner ==
  /\ pc = "inner"
  /\ LET ihl == Ihl(frame, offset)
         remaining == Total(frame, offset) - ihl - 4
         ether == offset + ihl + 4
     IN  IF remaining < 14
         THEN pc' = "rejected" /\ UNCHANGED <<high, type, out>>
         ELSE /\ type' = Word(frame, ether + 12)
              /\ IF type' # Vlan \/ remaining < 18
                 THEN pc' = "rejected" /\ Reach(ether + 14) /\ UNCHANGED out
                 ELSE /\ Reach(ether + 18)
                      /\ pc' = IF InnerOk(frame, ether) THEN "accepted" ELSE "rejected"
                      /\ out' = IF InnerOk(frame, ether)
                                THEN [remote |-> Slice(frame, offset + 12, 4),
                                      local |-> Slice(frame, offset + 16, 4),
                                      mac |-> Slice(frame, ether + 6, 6),
                                      vlan |-> Vid(frame, ether)]
                                ELSE out
  /\ UNCHANGED <<capture, frame, offset, tags>>

Parse == ParseEther \/ ParseTag \/ ParseIp \/ ParseGre \/ ParseInner

\* The frame is done with; the next one finds everything as it was.
Forgotten ==
  /\ frame' = NoFrame /\ pc' = "idle"
  /\ offset' = 0 /\ type' = 0 /\ tags' = 0 /\ high' = 0 /\ out' = NoPacket

\* The kernel drops the frame.
Drop == pc = "dropped" /\ Forgotten /\ UNCHANGED capture

\* Passed over, or refused by payload_parse.
Discard == pc \in {"skipped", "rejected"} /\ Forgotten /\ UNCHANGED capture

PayloadNext ==
  \/ Socket \/ Configure
  \/ \E f \in Frames : Arrive(f)
  \/ Filter \/ Drop \/ Receive \/ Parse \/ Discard

PayloadSpec == PayloadInit /\ [][PayloadNext]_payloadVars

-----------------------------------------------------------------------------
(* Properties.                                                             *)

\* A frame that may provision, as architecture.md describes it: at most two outer
\* tags, ...
OuterTags(f, t) ==
  /\ \A j \in 0 .. t - 1 : Word(f, 12 + 4 * j) \in TagTypes
  /\ Word(f, 12 + 4 * t) = Ipv4

\* ... an unfragmented IPv4 packet of protocol GRE that lies within the frame, with room
\* for what follows, ...
Datagram(f, ip, words) ==
  LET end == ip + Word(f, ip + 2)
  IN  /\ Size(f) >= ip + 20 /\ Octet(f, ip) = 64 + words
      /\ ip + 4 * words + 22 <= end /\ end <= Size(f)
      /\ (Word(f, ip + 6) = 0 \/ Word(f, ip + 6) = DontFragment)
      /\ Octet(f, ip + 9) = 47

Reserved == {0, 4095}

\* ... and in it Ethernet with one VLAN tag.
Enclosed(f, ether) ==
  /\ Word(f, ether + 12) = Vlan /\ Word(f, ether + 16) \notin TagTypes
  /\ Vid(f, ether) \notin Reserved
  /\ Octet(f, ether + 6) % 2 # 1
  /\ Slice(f, ether + 6, 6) # <<0, 0, 0, 0, 0, 0>>

\* The layers fit together with t outer tags and an IPv4 header of that many words.
Carries(f, t, words) ==
  LET ip == 14 + 4 * t
      gre == ip + 4 * words
  IN  /\ OuterTags(f, t) /\ Datagram(f, ip, words)
      /\ Word(f, gre) = 0 /\ Word(f, gre + 2) = Bridging
      /\ Enclosed(f, gre + 4)

WellFormed(f) == \E t \in 0 .. 2, words \in 5 .. 15 : Carries(f, t, words)

\* payload_parse reads no byte behind the frame, however short it is and whatever
\* lengths its headers claim: no check is missing, late or done with a difference
\* that has wrapped.
ReadsInBounds == frame # NoFrame => high <= Size(frame)

\* The filter is an optimisation: it keeps no frame from the daemon that
\* payload_parse would accept, so no peer is invisible (offsets and jumps of code).
FilterLosesNothing == pc = "dropped" => ~WellFormed(frame)

\* payload_parse accepts exactly the well-formed frames, also those queued before
\* the filter was attached.
ParserExact ==
  /\ pc = "accepted" => WellFormed(frame)
  /\ pc = "rejected" => ~WellFormed(frame)

=============================================================================
