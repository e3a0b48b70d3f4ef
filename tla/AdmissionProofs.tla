--------------------------- MODULE AdmissionProofs --------------------------
(***************************************************************************)
(* What main makes of every command line, file and frame: the              *)
(* configuration it runs with, the frames it accepts and the packets it    *)
(* lets provision.                                                         *)
(***************************************************************************)
EXTENDS Main, InputProofs, TLAPS

-----------------------------------------------------------------------------
(* The configuration.                                                      *)

Running == {"loaded", "logged", "addressed", "forked", "up", "loop", "end", "ending", "report"}

\* What main and its surroundings do to the configuration.
LEMMA OnlyConfig ==
  ASSUME [MainNext]_vars
  PROVE  \/ UNCHANGED configVars
         \/ ConfigNext
         \/ stage \in Running /\ stage' \in Running /\ input' = input /\ cfg' = cfg
         \/ input' = input /\ cfg' = Fresh /\ stage' \in {"failed", "exit", "dead"}
<1>1. CASE UNCHANGED vars
  BY <1>1, Zenon DEF vars
<1>2. CASE Configuring
  BY <1>2, Zenon DEF Configuring
<1>3. CASE Start
  <2>1. CASE StartLog \/ local_address \/ Daemonize
    BY <2>1, Zenon DEF StartLog, local_address, Daemonize, Go, Running
  <2>2. CASE TakePid \/ payload_loop_init
    BY <2>2, Zenon DEF TakePid, payload_loop_init, Go, Running
  <2>3. CASE Acquire \/ Notify
    BY <2>3, Zenon DEF Acquire, Notify, Go, Running
  <2> QED
    BY <1>3, <2>1, <2>2, <2>3, ZenonT(60), ZenonT(60) DEF Start
<1>4. CASE Loop
  <2>1. CASE Packets \/ service_dispatch
    BY <2>1, Zenon DEF Packets, ReceiveOne, provision_packet, Handled, PacketsDone, service_dispatch, Go, Running
  <2>2. CASE Poll \/ ReadSignal \/ Reopen \/ CleanupDone \/ SignalsDone
    BY <2>2, Zenon DEF Poll, ReadSignal, Reopen, CleanupDone, SignalsDone, Go, Running
  <2> QED
    BY <1>4, <2>1, <2>2, ZenonT(60) DEF Loop
<1>5. CASE Command \/ Parsing \/ Executing
  BY <1>5, Zenon DEF Command, Parsing, Executing
<1>6. CASE End \/ Ended \/ Report
  BY <1>6, Zenon DEF End, Ended, Report, Go, Running
<1>7. CASE Filtering \/ Peer \/ Parent \/ Outside \/ (\E s \in Signals : Send(s)) \/ Rotates \/ Crash
           \/ ParentKilled
  BY <1>7, Zenon DEF Filtering, Peer, Parent, Outside, Send, Rotates, Crash, ParentKilled
<1> QED
  BY <1>1, <1>2, <1>3, <1>4, <1>5, <1>6, <1>7, Zenon DEF MainNext, Daemon

LEMMA ConfigSteps == ConfigInv /\ [MainNext]_vars => ConfigInv'
<1> SUFFICES ASSUME ConfigInv, [MainNext]_vars PROVE ConfigInv'
  OBVIOUS
<1>1. CASE UNCHANGED configVars
  BY <1>1, ConfigStutter, Zenon
<1>2. CASE ConfigNext
  BY <1>2, CliStep, OpenStep, ReadLineStep, LoadStep, ZenonT(60) DEF ConfigNext
<1>3. CASE stage \in Running /\ stage' \in Running /\ input' = input /\ cfg' = cfg
  <2>1. Loaded /\ Loaded'
    BY <1>3, SMTT(60) DEF Running, Loaded
  <2> QED
    BY <1>3, <2>1, ConfigUsed, ZenonT(60)
<1>4. CASE input' = input /\ cfg' = Fresh /\ stage' \in {"failed", "exit", "dead"}
  BY <1>4, GivesUp, Zenon
<1> QED
  BY <1>1, <1>2, <1>3, <1>4, OnlyConfig, ZenonT(60), ZenonT(60)

LEMMA ConfigAlways == MainSpec => []ConfigInv
<1>1. MainInit => ConfigInv
  BY ConfigStart, Zenon DEF MainInit
<1> QED
  BY <1>1, ConfigSteps, PTL DEF MainSpec

\* "A typo in a security setting [...] can never silently fall back to the permissive
\* default", for every file and every command line: no line of the file of a daemon at
\* work is malformed (keys it does not know are ignored, as documented), and it admits
\* everybody only if no line of [global] is about allow-remotes (softgred_config.c:93-163, 214-256, 310-317).
THEOREM NeverOpenByMistake == MainSpec => []NeverFallsOpen
<1>1. ConfigInv => NeverFallsOpen
  BY Zenon DEF ConfigInv, Understood
<1> QED
  BY <1>1, ConfigAlways, PTL

\* The paths and the debug level of any command line, the last of several, come before
\* those of any file, and the file is the one the command line names
\* (softgred_config.c:318-321, 338-339, 363-386; softgred.c:56-57).
THEOREM CommandLineAlwaysWins == MainSpec => []CommandLineWins
<1>1. ConfigInv => CommandLineWins
  BY ZenonT(60) DEF ConfigInv, Understood
<1> QED
  BY <1>1, ConfigAlways, PTL

\* Whatever the prefix and the map of the file, every interface name of every tunnel
\* and VLAN fits in IFNAMSIZ, and no VLAN has two bridges (softgred_config.c:258-290,
\* 302-308).
THEOREM NamesAlwaysFit == MainSpec => []NamesFit
<1>1. ConfigInv => NamesFit
  BY Zenon DEF ConfigInv, Understood
<1> QED
  BY <1>1, ConfigAlways, PTL

-----------------------------------------------------------------------------
(* The capture.                                                            *)

\* What main and its surroundings do to the capture.
LEMMA OnlyCapture ==
  ASSUME input \in Inputs, [MainNext]_vars
  PROVE  \/ UNCHANGED payloadVars
         \/ Socket \/ Configure \/ (\E f \in Frames : Arrive(f)) \/ Filter \/ Receive
         \/ Parse \/ Drop \/ Discard
         \/ pc = "accepted" /\ pc' \in {"eligible", "ignored"} /\ UNCHANGED <<capture, frame, parseVars>>
         \/ Forgotten /\ capture' \in {capture, "closed"}
<1>1. CASE UNCHANGED vars
  BY <1>1, Zenon DEF vars
<1>2. CASE Configuring \/ Start
  BY <1>2, Zenon DEF Configuring, Start, StartLog, local_address, Daemonize, TakePid, payload_loop_init,
     Acquire, Notify
<1>3. CASE Loop
  BY <1>3, Zenon DEF Loop, Poll, ReadSignal, Reopen, CleanupDone, SignalsDone, Packets, ReceiveOne,
     provision_packet, Handled, PacketsDone, service_dispatch
<1>4. CASE Command \/ Parsing \/ Executing \/ End \/ Ended \/ Report
  BY <1>4, Zenon DEF Command, Parsing, Executing, End, Ended, Report
<1>5. CASE Peer
  BY <1>5, WireAssumption, Zenon DEF Peer
<1>6. CASE Filtering \/ Parent \/ Outside \/ (\E s \in Signals : Send(s)) \/ Rotates \/ Crash \/ ParentKilled
  BY <1>6, Zenon DEF Filtering, Parent, Outside, Send, Rotates, Crash, ParentKilled
<1> QED
  BY <1>1, <1>2, <1>3, <1>4, <1>5, <1>6, Zenon DEF MainNext, Daemon

CaptureInv == ConfigInv /\ ParseInv

LEMMA CaptureSteps == CaptureInv /\ [MainNext]_vars => CaptureInv'
<1> SUFFICES ASSUME CaptureInv, [MainNext]_vars PROVE CaptureInv'
  OBVIOUS
<1>1. ConfigInv' /\ input \in Inputs
  BY ConfigSteps, Zenon DEF CaptureInv, ConfigInv
<1>2. ASSUME UNCHANGED payloadVars PROVE ParseInv'
  <2>1. UNCHANGED <<capture, frame, pc, offset, type, tags, high>>
    BY <1>2, Zenon DEF payloadVars, parseVars
  <2> QED
    BY <2>1, Zenon DEF CaptureInv, ParseInv, Known, ParserExact, FilterLosesNothing
<1>3. ParseInv'
  BY <1>1, <1>2, OnlyCapture, SocketStep, EtherStep, TagStep, IpStep, GreStep, InnerStep, ForgetStep, HandleStep,
     ZenonT(60) DEF CaptureInv, Parse
<1> QED
  BY <1>1, <1>3, Zenon DEF CaptureInv

LEMMA CaptureAlways == MainSpec => []CaptureInv
<1>1. MainInit => CaptureInv
  BY CaptureInit, ConfigStart, ZenonT(60) DEF MainInit, CaptureInv
<1> QED
  BY <1>1, CaptureSteps, PTL DEF MainSpec

\* payload_parse never reads behind the end of a frame, for frames of any length and
\* content: every check comes before the read it guards (payload.c:32-79).
THEOREM NoReadBehindFrame == MainSpec => []ReadsInBounds
<1>1. CaptureInv => ReadsInBounds
  BY ZenonT(60) DEF CaptureInv, ParseInv, ReadsInBounds
<1> QED
  BY <1>1, CaptureAlways, PTL

\* payload_parse accepts a frame if it is well-formed and refuses it if it is not,
\* whatever its bytes are and whether or not the filter has seen it (payload.c:32-79).
THEOREM AcceptsExactly == MainSpec => []ParserExact
<1>1. CaptureInv => ParserExact
  BY ZenonT(60), ZenonT(60) DEF CaptureInv, ParseInv
<1> QED
  BY <1>1, CaptureAlways, PTL

\* The filter program drops no frame payload_parse would accept, whatever its bytes:
\* every well-formed frame takes one of the program's paths to its accepting return
\* (payload.c:92-112).
THEOREM FilterIsHarmless == MainSpec => []FilterLosesNothing
<1>1. CaptureInv => FilterLosesNothing
  BY Zenon DEF CaptureInv, ParseInv
<1> QED
  BY <1>1, CaptureAlways, PTL

-----------------------------------------------------------------------------
(* Admission: who may provision.  What config_remote_allowed compares octet*)
(* by octet are the bits of a network.                                     *)

\* Bit k of an address is a bit of one of its octets.
LEMMA OctetOf ==
  ASSUME NEW a \in [1 .. 4 -> Byte], NEW o \in 1 .. 4, NEW j \in 0 .. 7
  PROVE  BitOf(a, 8 * o - j) = Bit(a[o], j)
<1>1. (8 * o - j - 1) \div 8 + 1 = o /\ 7 - ((8 * o - j - 1) % 8) = j
  OBVIOUS
<1> QED
  BY <1>1, Zenon DEF BitOf, Bit

LEMMA MaskAgrees ==
  ASSUME NEW a \in [1 .. 4 -> Byte], NEW b \in [1 .. 4 -> Byte], NEW bits \in 0 .. 32, NEW o \in 1 .. 4
  PROVE  Clear(a[o], Gap(bits, o)) = Clear(b[o], Gap(bits, o))
         <=> \A j \in 0 .. 7 : 8 * o - j <= bits => BitOf(a, 8 * o - j) = BitOf(b, 8 * o - j)
<1>1. PICK m \in 0 .. 8 : /\ Gap(bits, o) = 2 ^ m
                          /\ \A j \in 0 .. 7 : j \in m .. 7 <=> 8 * o - j <= bits
  BY MaskIs, Zenon
<1>2. a[o] \in Byte /\ b[o] \in Byte
  BY Zenon
<1>3. Clear(a[o], 2 ^ m) = Clear(b[o], 2 ^ m) <=> \A j \in m .. 7 : Bit(a[o], j) = Bit(b[o], j)
  BY <1>2, Cleared, HighBits, ZenonT(60)
<1>4. \A j \in 0 .. 7 : BitOf(a, 8 * o - j) = Bit(a[o], j) /\ BitOf(b, 8 * o - j) = Bit(b[o], j)
  BY OctetOf, Zenon
<1>5. \A j \in m .. 7 : j \in 0 .. 7
  OBVIOUS
<1> QED
  BY <1>1, <1>3, <1>4, <1>5, ZenonT(60), ZenonT(60)

\* The comparison of config_remote_allowed asks whether the first bits agree.
LEMMA NetworkExact ==
  ASSUME NEW a \in [1 .. 4 -> Byte], NEW e, e.addr \in [1 .. 4 -> Byte], e.bits \in 0 .. 32
  PROVE  Masked(a, Mask(e.bits)) = Masked(e.addr, Mask(e.bits)) <=> InNetwork(a, e)
<1> DEFINE b == e.addr
           bits == e.bits
           Same(k) == BitOf(a, k) = BitOf(b, k)
<1>1. Masked(a, Mask(bits)) = Masked(b, Mask(bits))
      <=> \A o \in 1 .. 4 : Clear(a[o], Gap(bits, o)) = Clear(b[o], Gap(bits, o))
  <2>1. /\ Masked(a, Mask(bits)) = [o \in 1 .. 4 |-> Clear(a[o], Gap(bits, o))]
        /\ Masked(b, Mask(bits)) = [o \in 1 .. 4 |-> Clear(b[o], Gap(bits, o))]
    BY DEF Masked, Clear, Gap
  <2>2. ASSUME NEW f, NEW g, f = [o \in 1 .. 4 |-> Clear(a[o], Gap(bits, o))],
                             g = [o \in 1 .. 4 |-> Clear(b[o], Gap(bits, o))]
        PROVE  f = g <=> \A o \in 1 .. 4 : Clear(a[o], Gap(bits, o)) = Clear(b[o], Gap(bits, o))
    BY <2>2, Zenon
  <2> QED
    BY <2>1, <2>2, ZenonT(60), ZenonT(60)
<1>2. \A o \in 1 .. 4 : Clear(a[o], Gap(bits, o)) = Clear(b[o], Gap(bits, o))
                       <=> \A j \in 0 .. 7 : 8 * o - j <= bits => Same(8 * o - j)
  BY MaskAgrees, Zenon
<1>3. InNetwork(a, e) <=> \A k \in 1 .. bits : Same(k)
  BY Zenon DEF InNetwork
<1> HIDE DEF Same, bits, b
<1>4. bits \in 0 .. 32
  BY Zenon DEF bits
<1>5. \A o \in 1 .. 4, j \in 0 .. 7 : 8 * o - j <= bits => 8 * o - j \in 1 .. bits
  BY <1>4, SMTT(60)
<1>6. \A k \in 1 .. bits : \E o \in 1 .. 4, j \in 0 .. 7 : 8 * o - j = k
  <2> TAKE k \in 1 .. bits
  <2>1. (k - 1) \div 8 + 1 \in 1 .. 4 /\ 7 - ((k - 1) % 8) \in 0 .. 7
        /\ 8 * ((k - 1) \div 8 + 1) - (7 - ((k - 1) % 8)) = k
    BY <1>4, SMTT(60)
  <2> QED
    BY <2>1, Zenon
<1>7. \A k \in 1 .. bits : k <= bits
  BY <1>4, SMTT(60)
<1>8. (\A k \in 1 .. bits : Same(k))
      <=> \A o \in 1 .. 4 : \A j \in 0 .. 7 : 8 * o - j <= bits => Same(8 * o - j)
  BY <1>5, <1>6, <1>7, ZenonT(60), ZenonT(60)
<1> QED
  BY <1>1, <1>2, <1>3, <1>8, ZenonT(60), ZenonT(60) DEF b, bits

\* The address is unicast and no loopback.
LEMMA UnicastExact ==
  ASSUME NEW a \in [1 .. 4 -> Byte]
  PROVE  Unicast(a) <=> a[1] \notin {0, 127} \cup 224 .. 255
<1>1. a[1] \in 0 .. 255
  BY SMTT(60) DEF Byte
<1>2. \A v \in 0 .. 255 : v \div 16 < 14 <=> v \notin 224 .. 255
  BY SMTT(60)
<1>3. a[1] \div 16 < 14 <=> a[1] \notin 224 .. 255
  BY <1>1, <1>2, SMTT(60)
<1> QED
  BY <1>3, SMTT(60) DEF Unicast

\* What a sender put into a frame.
Sent(x) == [remote |-> x.src, local |-> x.dst, mac |-> x.mac, vlan |-> x.tci % 4096]

\* cfg.allow is what the file says.
AllowInv ==
  Loaded => LET list == Given("global", "allow-remotes")
            IN  IF list = Null THEN cfg.allow = <<>>
                ELSE /\ cfg.allow = Allow(list) /\ Len(list) \in Nat \ {0}
                     /\ \A k \in 1 .. Len(list) : list[k].addr \in [1 .. 4 -> Byte] /\ list[k].bits \in 0 .. 32

\* The packet provision_packet looks at is the one the frame carries.
OutInv == pc \in Taken => out = Sent(frame) /\ frame.src \in [1 .. 4 -> Byte]

\* The address is known before there is a capture.
LocalInv ==
  /\ stage \in {"addressed", "forked", "up", "loop"} => local = Address
  /\ capture # "closed" => stage \in {"up", "loop", "end"} /\ local = Address

\* config_remote_allowed lets an address pass if the file does.
LEMMA RemoteExact ==
  ASSUME NEW a \in [1 .. 4 -> Byte], AllowInv, Loaded
  PROVE  config_remote_allowed(a)
         <=> (Given("global", "allow-remotes") # Null =>
                \E k \in 1 .. Len(Given("global", "allow-remotes")) :
                  InNetwork(a, Given("global", "allow-remotes")[k]))
<1> DEFINE list == Given("global", "allow-remotes")
<1>1. /\ list = Null => cfg.allow = <<>>
      /\ list # Null =>
           /\ cfg.allow = Allow(list) /\ Len(list) \in Nat \ {0}
           /\ \A k \in 1 .. Len(list) : list[k].addr \in [1 .. 4 -> Byte] /\ list[k].bits \in 0 .. 32
  BY Zenon DEF AllowInv
<1> HIDE DEF list
<1>2. CASE list = Null
  BY <1>1, <1>2, ZenonT(60), ZenonT(60) DEF config_remote_allowed, list
<1>3. CASE list # Null
  <2>1. Len(cfg.allow) = Len(list)
    <3>1. Len(list) \in Nat /\ cfg.allow = Allow(list)
      BY <1>1, <1>3, ZenonT(60)
    <3> QED
      BY <3>1, AllowLength, ZenonT(60)
  <2>2. cfg.allow # <<>>
    <3>1. Len(<<>>) = 0
      BY Zenon
    <3> QED
      BY <1>1, <1>3, <2>1, <3>1, ZenonT(60)
  <2>3. ASSUME NEW k \in 1 .. Len(list)
        PROVE  Masked(a, cfg.allow[k].mask) = cfg.allow[k].network <=> InNetwork(a, list[k])
    <3>1. cfg.allow[k] = [mask |-> Mask(list[k].bits), network |-> Masked(list[k].addr, Mask(list[k].bits))]
      BY <1>1, <1>3, ZenonT(60) DEF Allow
    <3>2. cfg.allow[k].mask = Mask(list[k].bits) /\ cfg.allow[k].network = Masked(list[k].addr, Mask(list[k].bits))
      BY <3>1, SMTT(60)
    <3>3. list[k].addr \in [1 .. 4 -> Byte] /\ list[k].bits \in 0 .. 32
      BY <1>1, <1>3, ZenonT(60)
    <3>4. Masked(a, Mask(list[k].bits)) = Masked(list[k].addr, Mask(list[k].bits)) <=> InNetwork(a, list[k])
      <4> DEFINE e == list[k]
      <4>1. e.addr \in [1 .. 4 -> Byte] /\ e.bits \in 0 .. 32
        BY <3>3, Zenon
      <4> HIDE DEF e
      <4>2. Masked(a, Mask(e.bits)) = Masked(e.addr, Mask(e.bits)) <=> InNetwork(a, e)
        BY <4>1, NetworkExact, ZenonT(60), ZenonT(60)
      <4> QED
        BY <4>2, Zenon DEF e
    <3> QED
      BY <3>2, <3>4, ZenonT(60)
  <2> QED
    BY <1>3, <2>1, <2>2, <2>3, ZenonT(60) DEF config_remote_allowed, list
<1> QED
  BY <1>2, <1>3, ZenonT(60), ZenonT(60)

\* The checks of provision_packet are those of the administrator.
LEMMA AdmittedExact ==
  ASSUME ConfigInv, AllowInv, OutInv, Loaded, local = Address, pc = "accepted"
  PROVE  Admitted(out) <=> Entitled(frame)
<1> DEFINE map == Given("global", "bridge-map")
           a == frame.src
<1>1. out = Sent(frame) /\ a \in [1 .. 4 -> Byte]
  BY ZenonT(60), ZenonT(60) DEF OutInv, Taken
<1>2. out.remote = a /\ out.local = frame.dst /\ out.vlan = frame.tci % 4096
  BY <1>1, Zenon DEF Sent
<1>3. Unicast(a) <=> a[1] \notin {0, 127} \cup 224 .. 255
  BY <1>1, UnicastExact, ZenonT(60), ZenonT(60)
<1>4. config_remote_allowed(a)
      <=> (Given("global", "allow-remotes") # Null =>
             \E k \in 1 .. Len(Given("global", "allow-remotes")) :
               InNetwork(a, Given("global", "allow-remotes")[k]))
  BY <1>1, RemoteExact, ZenonT(60)
<1>5. /\ Len(cfg.bridge) = Len(map)
      /\ \A k \in 1 .. Len(map) : cfg.bridge[k] = [vlan_id |-> map[k].vlan, ifname |-> map[k].bridge]
  BY Zenon DEF ConfigInv, Understood, NamesFit
<1>6. \A k \in 1 .. Len(map) : cfg.bridge[k].vlan_id = map[k].vlan
  <2> TAKE k \in 1 .. Len(map)
  <2> DEFINE r == cfg.bridge[k]
             v == map[k].vlan
             b == map[k].bridge
  <2>1. r = [vlan_id |-> v, ifname |-> b]
    BY <1>5, ZenonT(60)
  <2> HIDE DEF r, v, b
  <2>2. r.vlan_id = v
    BY <2>1, SMTT(60)
  <2> QED
    BY <2>2, ZenonT(60) DEF r, v
<1> DEFINE vlan == frame.tci % 4096
           Special == {0, 127} \cup 224 .. 255
<1>7. Entitled(frame) <=>
        /\ frame.dst = Address /\ a # Address
        /\ a[1] \notin Special
        /\ (Given("global", "allow-remotes") # Null =>
             \E k \in 1 .. Len(Given("global", "allow-remotes")) :
               InNetwork(a, Given("global", "allow-remotes")[k]))
        /\ \E k \in 1 .. Len(map) : map[k].vlan = vlan
  BY SMTT(60) DEF Entitled
<1> HIDE DEF vlan, Special
<1>8. out.vlan = vlan /\ (Unicast(a) <=> a[1] \notin Special)
  BY <1>2, <1>3, SMTT(60) DEF vlan, Special
<1>9. Admitted(out) <=> /\ frame.dst = Address /\ a # Address /\ Unicast(a) /\ config_remote_allowed(a)
                        /\ \E k \in 1 .. Len(cfg.bridge) : cfg.bridge[k].vlan_id = vlan
  <2>1. out.remote = a /\ out.local = frame.dst
    BY <1>1, Zenon DEF Sent
  <2> QED
    BY <2>1, <1>8, ZenonT(60), ZenonT(60) DEF Admitted
<1> QED
  BY <1>4, <1>5, <1>6, <1>7, <1>8, <1>9, ZenonT(60)

\* A frame the parser accepts carries a packet, where the parser has found it.
LEMMA CarriesOf ==
  ASSUME NEW f \in Frames, NEW t \in 0 .. 2, NEW p, p = 14 + 4 * t,
         OuterTags(f, t), Header(f, p), Inner(f, p)
  PROVE  \E w \in 5 .. 15 : Carries(f, t, w) /\ Ihl(f, p) = 4 * w
<1> DEFINE w == Octet(f, p) - 64
<1>1. p \in Nat
  OBVIOUS
<1>2. Octet(f, p) \in 64 .. 79 /\ Ihl(f, p) = 4 * w /\ w \in 5 .. 15
  BY <1>1, HeaderBounds, Zenon
<1>3. Octet(f, p) = 64 + w
  BY <1>2, SMTT(60)
<1>4. Total(f, p) >= Ihl(f, p) + 22
  BY Zenon DEF Inner
<1> HIDE DEF w
<1>5. Datagram(f, p, w)
  BY <1>1, <1>2, <1>3, <1>4, HeaderOf, ZenonT(60)
<1>6. Word(f, p + 4 * w) = 0 /\ Word(f, p + 4 * w + 2) = Bridging /\ Enclosed(f, p + 4 * w + 4)
  BY <1>1, <1>2, <1>5, InnerOf, ZenonT(60)
<1>7. Carries(f, t, w)
  BY <1>5, <1>6, ZenonT(60), ZenonT(60) DEF Carries
<1> QED
  BY <1>2, <1>7, ZenonT(60)

\* The addresses, the VLAN and the MAC address it reads are the ones that were sent.
LEMMA Placed ==
  ASSUME NEW f \in Frames, NEW t \in 0 .. 2, NEW p, p = 14 + 4 * t,
         OuterTags(f, t), Header(f, p), Inner(f, p), NEW ether, ether = p + Ihl(f, p) + 4
  PROVE  /\ Sent(f) = [remote |-> Slice(f, p + 12, 4), local |-> Slice(f, p + 16, 4),
                       mac |-> Slice(f, ether + 6, 6), vlan |-> Vid(f, ether)]
         /\ f.src \in [1 .. 4 -> Byte]
<1>1. PICK w \in 5 .. 15 : Carries(f, t, w) /\ Ihl(f, p) = 4 * w
  BY CarriesOf, ZenonT(60)
<1>2. /\ f.src = Slice(f, p + 12, 4) /\ f.dst = Slice(f, p + 16, 4)
      /\ f.mac = Slice(f, ether + 6, 6) /\ f.tci % 4096 = Vid(f, ether)
  BY <1>1, WireFormat, SMTT(60)
<1>3. \A j \in 1 .. 4 : Octet(f, p + 12 + j - 1) \in Byte
  <2>1. Size(f) \in Nat /\ Size(f) >= p + 20
    BY SizeType, Zenon DEF Header
  <2>2. \A j \in 1 .. 4 : p + 12 + j - 1 \in 0 .. Size(f) - 1
    <3> DEFINE s == Size(f)
    <3> HIDE DEF s
    <3>1. s \in Nat /\ s >= p + 20
      BY <2>1, Zenon DEF s
    <3>2. \A j \in 1 .. 4 : p + 12 + j - 1 \in 0 .. s - 1
      BY <3>1, SMTT(60)
    <3> QED
      BY <3>2, Zenon DEF s
  <2> QED
    BY <2>2, OctetType, ZenonT(60) DEF Byte
<1>4. f.src \in [1 .. 4 -> Byte]
  <2>1. f.src = [j \in 1 .. 4 |-> Octet(f, p + 12 + j - 1)]
    BY <1>2, SMTT(60) DEF Slice
  <2>2. [j \in 1 .. 4 |-> Octet(f, p + 12 + j - 1)] \in [1 .. 4 -> Byte]
    BY <1>3, Zenon
  <2> QED
    BY <2>1, <2>2, ZenonT(60), ZenonT(60)
<1> QED
  <2>1. Sent(f) = [remote |-> Slice(f, p + 12, 4), local |-> Slice(f, p + 16, 4),
                   mac |-> Slice(f, ether + 6, 6), vlan |-> Vid(f, ether)]
    BY <1>2, SMTT(60) DEF Sent
  <2> QED
    BY <1>4, <2>1, ZenonT(60), ZenonT(60)

\* So payload_parse hands on what was sent.
LEMMA InnerOut ==
  ASSUME ParseInv, ParseInner, pc' = "accepted"
  PROVE  out' = Sent(frame) /\ frame.src \in [1 .. 4 -> Byte] /\ frame' = frame
<1> DEFINE ether == offset + Ihl(frame, offset) + 4
<1>1. pc = "inner" /\ pc \in Reading /\ frame' = frame
  BY Zenon DEF ParseInner, Reading
<1>2. WellFormed(frame)
  BY <1>1, InnerStep, ZenonT(60), ZenonT(60) DEF ParseInv, ParserExact
<1>3. type = Ipv4 /\ Header(frame, offset)
  BY <1>1, Zenon DEF ParseInv
<1>4. frame \in Frames /\ Known /\ Inner(frame, offset)
  BY <1>1, <1>2, <1>3, BehindTags, IpIsNoTag, ZenonT(60), ZenonT(60)
<1>5. tags \in 0 .. 2 /\ offset = 14 + 4 * tags /\ OuterTags(frame, tags)
  BY <1>3, <1>4, ZenonT(60), ZenonT(60) DEF Known, OuterTags
<1>6. /\ Sent(frame) = [remote |-> Slice(frame, offset + 12, 4), local |-> Slice(frame, offset + 16, 4),
                        mac |-> Slice(frame, ether + 6, 6), vlan |-> Vid(frame, ether)]
      /\ frame.src \in [1 .. 4 -> Byte]
  BY <1>3, <1>4, <1>5, Placed, ZenonT(60), ZenonT(60)
<1>7. out' = [remote |-> Slice(frame, offset + 12, 4), local |-> Slice(frame, offset + 16, 4),
              mac |-> Slice(frame, ether + 6, 6), vlan |-> Vid(frame, ether)]
  BY Zenon DEF ParseInner
<1> QED
  BY <1>1, <1>6, <1>7, ZenonT(60), ZenonT(60)

LEMMA OutSteps ==
  ASSUME CaptureInv, OutInv, [MainNext]_vars
  PROVE  OutInv'
<1>1. ParseInv /\ input \in Inputs
  BY Zenon DEF CaptureInv, ConfigInv
<1>2. CASE UNCHANGED <<frame, pc, out>>
  BY <1>2, Zenon DEF OutInv
<1>3. CASE pc' \notin Taken
  BY <1>3, Zenon DEF OutInv
<1>4. CASE pc = "accepted" /\ UNCHANGED <<frame, out>>
  BY <1>4, Zenon DEF OutInv, Taken
<1>5. CASE ParseInner
  <2>1. pc' = "accepted" \/ pc' \notin Taken
    BY <1>5, Zenon DEF ParseInner, Taken
  <2> QED
    BY <1>1, <1>3, <1>5, <2>1, InnerOut, Zenon DEF OutInv
<1>6. CASE ParseEther \/ ParseTag \/ ParseIp \/ ParseGre
  <2>1. pc' \notin Taken
    BY <1>6, Zenon DEF ParseEther, ParseTag, ParseIp, ParseGre, Taken
  <2> QED
    BY <1>3, <2>1, ZenonT(60)
<1>7. CASE Socket \/ Configure \/ (\E f \in Frames : Arrive(f)) \/ Filter \/ Receive
  <2>1. UNCHANGED <<frame, pc, out>> \/ pc' \notin Taken
    BY <1>7, ZenonT(60) DEF Socket, Configure, Arrive, Filter, Receive, Taken, parseVars
  <2> QED
    BY <1>2, <1>3, <2>1, Zenon
<1>8. CASE Forgotten \/ Drop \/ Discard
  BY <1>3, <1>8, ZenonT(60) DEF Forgotten, Drop, Discard, Taken
<1>9. CASE UNCHANGED payloadVars
  BY <1>2, <1>9, ZenonT(60), ZenonT(60) DEF payloadVars, parseVars
<1>10. CASE pc = "accepted" /\ UNCHANGED <<capture, frame, parseVars>>
  BY <1>4, <1>10, ZenonT(60), ZenonT(60) DEF parseVars
<1> QED
  BY <1>1, <1>5, <1>6, <1>7, <1>8, <1>9, <1>10, OnlyCapture, ZenonT(60), ZenonT(60) DEF Parse

\* A list of networks the file gives is understood to the last octet.
LEMMA LoadAllow ==
  ASSUME ConfigInv, Load
  PROVE  AllowInv'
<1> DEFINE list == Given("global", "allow-remotes")
<1>1. input \in Inputs /\ input' = input /\ DOMAIN cfg = DOMAIN Fresh
  BY Zenon DEF Load, ConfigInv
<1>2. CASE ~Valid
  <2>1. stage' = "failed"
    BY <1>2, Zenon DEF Load, Fail
  <2> QED
    BY <2>1, Zenon DEF AllowInv, Loaded
<1>3. CASE Valid
  <2>1. cfg' = Filled
    BY <1>3, Zenon DEF Load
  <2>2. /\ Len(File) \in Nat /\ Path \in ConfPaths(input) /\ File # Null
        /\ ini_get("global", "allow-remotes") = list
    <3>1. "global" \in Groups /\ "allow-remotes" \in Keys
      BY Zenon DEF Groups, Keys
    <3> QED
      BY <3>1, AllRead, ZenonT(60), ZenonT(60)
  <2>3. AllowList = list
    BY <2>2, Zenon DEF AllowList, read_string
  <2>4. cfg'.config_file = cfg.config_file /\ cfg'.allow = IF list = Null THEN <<>> ELSE Allow(list)
    BY <1>1, <2>1, <2>3, FilledFields, ZenonT(60), ZenonT(60)
  <2>5. list' = list
    BY <1>1, <2>4, FileKept, GivenKept, ZenonT(60), ZenonT(60)
  <2>6. ASSUME list # Null
        PROVE  /\ Len(list) \in Nat \ {0}
               /\ \A k \in 1 .. Len(list) : list[k].addr \in [1 .. 4 -> Byte] /\ list[k].bits \in 0 .. 32
    <3>1. PICK j \in 1 .. Len(File) : /\ File[j].kind = "pair" /\ File[j].name = "allow-remotes"
                                     /\ list = File[j].value
      <4>1. Len(File) \in Nat /\ Given("global", "allow-remotes") # Null
        BY <2>2, <2>6, ZenonT(60)
      <4> QED
        BY <4>1, GivenFrom, SMTT(60)
    <3>2. Len(list) \in Nat \ {0}
      BY <1>1, <2>2, <3>1, ListAssumption, ZenonT(60), ZenonT(60) DEF File
    <3>3. \A k \in 1 .. Len(list) : list[k].addr # <<>> => list[k].addr \in [1 .. 4 -> Byte]
      BY <1>1, <2>2, <3>1, AddressAssumption, ZenonT(60), ZenonT(60) DEF File
    <3>4. parse_allow(list)
      BY <1>3, <2>3, <2>6, ZenonT(60), ZenonT(60) DEF Valid
    <3> QED
      BY <3>2, <3>3, <3>4, ZenonT(60) DEF parse_allow
  <2> HIDE DEF list
  <2>7. IF list = Null THEN cfg'.allow = <<>>
        ELSE /\ cfg'.allow = Allow(list) /\ Len(list) \in Nat \ {0}
             /\ \A k \in 1 .. Len(list) : list[k].addr \in [1 .. 4 -> Byte] /\ list[k].bits \in 0 .. 32
    BY <2>4, <2>6, ZenonT(60), ZenonT(60)
  <2>8. Given("global", "allow-remotes")' = list
    BY <2>5, ZenonT(60) DEF list
  <2> QED
    BY <2>7, <2>8, ZenonT(60) DEF AllowInv
<1> QED
  BY <1>2, <1>3, ZenonT(60), ZenonT(60)

LEMMA AllowSteps ==
  ASSUME ConfigInv, AllowInv, [MainNext]_vars
  PROVE  AllowInv'
<1>1. ASSUME input' = input, cfg' = cfg, Loaded' => Loaded PROVE AllowInv'
  <2>1. Given("global", "allow-remotes")' = Given("global", "allow-remotes")
    BY <1>1, FileKept, GivenKept, ZenonT(60)
  <2> QED
    BY <1>1, <2>1, ZenonT(60), ZenonT(60) DEF AllowInv
<1>2. ASSUME ~Loaded' PROVE AllowInv'
  BY <1>2, Zenon DEF AllowInv
<1>3. CASE UNCHANGED configVars
  <2>1. input' = input /\ cfg' = cfg /\ stage' = stage
    BY <1>3, ZenonT(60) DEF configVars
  <2> QED
    BY <1>1, <2>1, ZenonT(60), ZenonT(60) DEF Loaded
<1>4. CASE Cli \/ Open \/ ReadLine
  <2>1. stage' \in {"cli", "open", "read", "exit", "failed"}
    BY <1>4, ZenonT(60) DEF Cli, Open, ReadLine, Line, Fail
  <2> QED
    BY <1>2, <2>1, ZenonT(60), ZenonT(60) DEF Loaded
<1>5. CASE stage \in Running /\ stage' \in Running /\ input' = input /\ cfg' = cfg
  BY <1>1, <1>5, ZenonT(60) DEF Running, Loaded
<1>6. CASE stage' \in {"failed", "exit", "dead"}
  BY <1>2, <1>6, Zenon DEF Loaded
<1> QED
  BY <1>3, <1>4, <1>5, <1>6, LoadAllow, OnlyConfig, ZenonT(60), ZenonT(60) DEF ConfigNext

LEMMA LocalSteps ==
  ASSUME LocalInv, [MainNext]_vars
  PROVE  LocalInv'
<1>1. CASE UNCHANGED <<stage, capture, local>>
  BY <1>1, Zenon DEF LocalInv
<1>2. CASE Configuring
  <2>1. /\ stage \in {"cli", "open", "read"} /\ stage' \in {"cli", "open", "read", "loaded", "exit", "failed"}
        /\ capture' = capture
    BY <1>2, ZenonT(60) DEF Configuring, ConfigNext, Cli, Open, ReadLine, Load, Line, Fail, payloadVars
  <2> QED
    BY <2>1, Zenon DEF LocalInv
<1>3. CASE StartLog \/ local_address \/ Daemonize \/ TakePid
  <2>1. /\ stage \in {"loaded", "logged", "addressed", "forked"} /\ capture' = capture
        /\ stage' \in {"addressed", "forked", "up"} =>
             local' = Address \/ (local' = local /\ stage \in {"addressed", "forked"})
        /\ stage' \in {"loaded", "logged", "addressed", "forked", "up", "end"}
    BY <1>3, ZenonT(60) DEF StartLog, local_address, Daemonize, TakePid, Go, payloadVars, mainVars
  <2> QED
    BY <2>1, ZenonT(60) DEF LocalInv
<1>4. CASE payload_loop_init
  <2>1. stage = "up" /\ stage' = IF capture' = "closed" THEN "end" ELSE "up"
    BY <1>4, ZenonT(60) DEF payload_loop_init, Go
  <2>2. local' = local
    BY <1>4, Zenon DEF payload_loop_init, mainVars
  <2> QED
    BY <2>1, <2>2, ZenonT(60) DEF LocalInv
<1>5. CASE Acquire \/ Notify
  <2>1. stage = "up" /\ stage' \in {"up", "loop", "end"} /\ capture' = capture /\ local' = local
    BY <1>5, Zenon DEF Acquire, Notify, Go, payloadVars
  <2> QED
    BY <2>1, ZenonT(60) DEF LocalInv
<1>6. CASE Loop
  <2>1. /\ stage' = stage \/ (stage = "loop" /\ stage' = "end")
        /\ capture' = capture /\ local' = local
    <3>1. CASE Poll \/ ReadSignal \/ Reopen \/ CleanupDone \/ SignalsDone \/ service_dispatch
      BY <3>1, Zenon DEF Poll, ReadSignal, Reopen, CleanupDone, SignalsDone, service_dispatch, Go, configVars,
         payloadVars
    <3>2. CASE Packets
      BY <3>2, ZenonT(60) DEF Packets, ReceiveOne, Receive, provision_packet, Handled, PacketsDone, Go, configVars,
         payloadVars, mainVars
    <3> QED
      BY <1>6, <3>1, <3>2, ZenonT(60) DEF Loop
  <2> QED
    BY <2>1, ZenonT(60) DEF LocalInv
<1>7. CASE Command \/ Executing \/ Parsing
  <2>1. UNCHANGED <<stage, local>>
    BY <1>7, ZenonT(60) DEF Command, Executing, Parsing, configVars, mainVars
  <2>2. capture' = capture
    BY <1>7, ZenonT(60) DEF Command, Executing, Parsing, Parse, ParseEther, ParseTag, ParseIp, ParseGre, ParseInner,
       Discard, payloadVars
  <2> QED
    BY <1>1, <2>1, <2>2, ZenonT(60)
<1>8. CASE End \/ Crash
  BY <1>8, ZenonT(60) DEF End, Crash, Go, LocalInv
<1>9. CASE Ended \/ Report
  <2>1. stage \in {"ending", "report"} /\ stage' \in {"report", "exit"} /\ capture' = capture
    BY <1>9, Zenon DEF Ended, Report, Go, payloadVars
  <2> QED
    BY <2>1, ZenonT(60) DEF LocalInv
<1>10. CASE Filtering \/ Peer
  <2>1. UNCHANGED <<stage, local>>
    BY <1>10, Zenon DEF Filtering, Peer, configVars, mainVars
  <2>2. capture' = capture
    BY <1>10, ZenonT(60) DEF Filtering, Peer, Filter, Drop, Arrive
  <2> QED
    BY <1>1, <2>1, <2>2, Zenon
<1>11. CASE Parent \/ Outside \/ (\E s \in Signals : Send(s)) \/ Rotates \/ ParentKilled
  BY <1>1, <1>11, ZenonT(60), ZenonT(60) DEF Parent, Outside, Send, Rotates, ParentKilled, configVars, payloadVars, mainVars
<1>12. CASE UNCHANGED vars
  BY <1>1, <1>12, ZenonT(60) DEF vars, configVars, payloadVars, mainVars
<1> QED
  BY <1>2, <1>3, <1>4, <1>5, <1>6, <1>7, <1>8, <1>9, <1>10, <1>11, <1>12, ZenonT(60) DEF MainNext, Daemon, Start

\* What provision_packet has decided is still what the file says.
Decided == (pc = "eligible" => Entitled(frame)) /\ (pc = "ignored" => ~Entitled(frame))

\* The inductive invariant: the parts above, and the decision.
AdmitInv == CaptureInv /\ AllowInv /\ OutInv /\ LocalInv /\ Decided

\* What main and its surroundings do to a packet that is being handled.
LEMMA OnlyDecision ==
  ASSUME [MainNext]_vars
  PROVE  \/ provision_packet
         \/ pc' \notin {"eligible", "ignored"}
         \/ UNCHANGED <<frame, pc>>
<1>1. CASE UNCHANGED vars
  BY <1>1, ZenonT(60) DEF vars, payloadVars
<1>2. CASE Configuring \/ Start
  BY <1>2, ZenonT(60), ZenonT(60) DEF Configuring, Start, StartLog, local_address, Daemonize, TakePid, payload_loop_init, Socket,
     Configure, Acquire, Notify, payloadVars
<1>3. CASE Loop
  BY <1>3, ZenonT(60), ZenonT(60) DEF Loop, Poll, ReadSignal, Reopen, CleanupDone, SignalsDone, Packets, ReceiveOne, Receive,
     Handled, Forgotten, PacketsDone, service_dispatch, payloadVars
<1>4. CASE Parsing
  BY <1>4, ZenonT(60) DEF Parsing, Parse, ParseEther, ParseTag, ParseIp, ParseGre, ParseInner, Discard, Forgotten
<1>5. CASE Command \/ Executing \/ End \/ Ended \/ Report
  BY <1>5, ZenonT(60), ZenonT(60) DEF Command, Executing, End, Forgotten, Ended, Report, payloadVars
<1>6. CASE Filtering \/ Peer \/ Parent \/ Outside \/ (\E s \in Signals : Send(s)) \/ Rotates \/ Crash
           \/ ParentKilled
  BY <1>6, ZenonT(60), ZenonT(60) DEF Filtering, Filter, Drop, Peer, Arrive, Parent, Outside, Send, Rotates, Crash, Forgotten,
     ParentKilled, payloadVars
<1> QED
  BY <1>1, <1>2, <1>3, <1>4, <1>5, <1>6, ZenonT(60) DEF MainNext, Daemon

\* The configuration a packet is judged by stays while the packet is there.
LEMMA EntitledKept ==
  ASSUME input' = input, cfg' = cfg, frame' = frame
  PROVE  Entitled(frame)' <=> Entitled(frame)
<1>1. /\ Given("global", "allow-remotes")' = Given("global", "allow-remotes")
      /\ Given("global", "bridge-map")' = Given("global", "bridge-map")
  BY FileKept, GivenKept, ZenonT(60), ZenonT(60)
<1> QED
  BY <1>1, SMTT(60) DEF Entitled

LEMMA AtWorkLoaded ==
  ASSUME CaptureInv, LocalInv, pc \in Taken
  PROVE  stage \in {"up", "loop", "end"} /\ local = Address /\ Loaded
<1>1. capture = "filtered"
  BY Zenon DEF CaptureInv, ParseInv, Taken
<1> QED
  BY <1>1, ZenonT(60) DEF LocalInv, Loaded

LEMMA DecidedSteps ==
  ASSUME AdmitInv, [MainNext]_vars
  PROVE  Decided'
<1>1. CASE provision_packet
  <2>1. /\ pc = "accepted" /\ pc' = IF Admitted(out) THEN "eligible" ELSE "ignored"
        /\ input' = input /\ cfg' = cfg /\ frame' = frame
    BY <1>1, ZenonT(60) DEF provision_packet, configVars
  <2>2. local = Address /\ Loaded
    BY <2>1, AtWorkLoaded, ZenonT(60), ZenonT(60) DEF AdmitInv, Taken
  <2>3. Admitted(out) <=> Entitled(frame)
    BY <2>1, <2>2, AdmittedExact, Zenon DEF AdmitInv, CaptureInv
  <2>4. Entitled(frame)' <=> Entitled(frame)
    BY <2>1, EntitledKept, ZenonT(60)
  <2> QED
    BY <2>1, <2>3, <2>4, ZenonT(60), ZenonT(60) DEF Decided
<1>2. CASE pc' \notin {"eligible", "ignored"}
  BY <1>2, Zenon DEF Decided
<1>3. CASE UNCHANGED <<frame, pc>> /\ pc \in {"eligible", "ignored"}
  <2>1. stage \in {"up", "loop", "end"}
    BY <1>3, AtWorkLoaded, ZenonT(60), ZenonT(60) DEF AdmitInv, Taken
  <2>2. capture' # "closed" \/ pc' \notin {"eligible", "ignored"}
    BY <1>3, CaptureSteps, ZenonT(60) DEF AdmitInv, CaptureInv, ParseInv
  <2>3. stage' \in {"up", "loop", "end"}
    BY <1>3, <2>2, LocalSteps, ZenonT(60), ZenonT(60) DEF AdmitInv, LocalInv
  <2>4. input' = input /\ cfg' = cfg
    <3>1. ~ConfigNext
      BY <2>1, Zenon DEF ConfigNext, Cli, Open, ReadLine, Load
    <3>2. stage' \notin {"failed", "exit", "dead"}
      BY <2>3, Zenon
    <3> QED
      BY <3>1, <3>2, OnlyConfig, ZenonT(60), ZenonT(60) DEF configVars
  <2>5. Entitled(frame)' <=> Entitled(frame)
    BY <1>3, <2>4, EntitledKept, ZenonT(60)
  <2> QED
    BY <1>3, <2>5, ZenonT(60) DEF AdmitInv, Decided
<1> QED
  BY <1>1, <1>2, <1>3, OnlyDecision, ZenonT(60)

LEMMA AdmitSteps == AdmitInv /\ [MainNext]_vars => AdmitInv'
<1> SUFFICES ASSUME AdmitInv, [MainNext]_vars PROVE AdmitInv'
  OBVIOUS
<1>1. CaptureInv /\ ConfigInv /\ AllowInv /\ OutInv /\ LocalInv
  BY Zenon DEF AdmitInv, CaptureInv
<1> QED
  BY <1>1, CaptureSteps, AllowSteps, OutSteps, LocalSteps, DecidedSteps, ZenonT(60) DEF AdmitInv

\* Whatever the file, the command line and the frames: provisioning is open to exactly the
\* packets the file admits, and it works with what their senders put into them
\* (payload.c:32-79, softgred_config.c:203-256, provision.c:155-174).
THEOREM AdmitsExactly == MainSpec => []AdmissionExact
<1>1. MainInit => AdmitInv
  <2> SUFFICES ASSUME MainInit PROVE AdmitInv
    OBVIOUS
  <2>1. CaptureInv
    BY CaptureInit, ConfigStart, ZenonT(60) DEF MainInit, CaptureInv
  <2>2. stage = "cli" /\ capture = "closed" /\ pc = "idle"
    BY ZenonT(60) DEF MainInit, ConfigInit, PayloadInit
  <2> QED
    BY <2>1, <2>2, ZenonT(60) DEF AdmitInv, AllowInv, Loaded, OutInv, Taken, LocalInv, Decided
<1>2. AdmitInv => AdmissionExact
  <2> SUFFICES ASSUME AdmitInv PROVE AdmissionExact
    OBVIOUS
  <2>1. ASSUME pc = "eligible" PROVE WellFormed(frame) /\ Entitled(frame) /\ out = Sent(frame)
    BY <2>1, ZenonT(60) DEF AdmitInv, CaptureInv, ParseInv, Taken, Decided, OutInv
  <2>2. ASSUME pc \in {"ignored", "rejected"} PROVE ~(WellFormed(frame) /\ Entitled(frame))
    BY <2>2, ZenonT(60) DEF AdmitInv, CaptureInv, ParseInv, ParserExact, Decided
  <2>3. Sent(frame) = [remote |-> frame.src, local |-> frame.dst, mac |-> frame.mac, vlan |-> frame.tci % 4096]
    BY DEF Sent
  <2> QED
    BY <2>1, <2>2, <2>3, SMTT(60) DEF AdmissionExact
<1> QED
  BY <1>1, <1>2, AdmitSteps, PTL DEF MainSpec

=============================================================================
