----------------------------- MODULE MCMain --------------------------------
(* Command lines, files and frames for Main.                                 *)
EXTENDS Main, GreFrame, TLC

Name(l) == [len |-> l, plain |-> TRUE]
Odd == [len |-> 3, plain |-> FALSE]
PathOf(x) == [absolute |-> TRUE, name |-> x]
Relative == [absolute |-> FALSE, name |-> "relative"]

MCConf == PathOf("softgred.conf")
MCPid == PathOf("softgred.pid")
MCLog == PathOf("softgred.log")
Other == PathOf("other")

Group(g) == [kind |-> "group", name |-> g, value |-> Null]
Pair(k, v) == [kind |-> "pair", name |-> k, value |-> v]
Blank == [kind |-> "blank", name |-> "", value |-> Null]
Bad == [kind |-> "bad", name |-> "", value |-> Null]
On(v, b) == [at |-> TRUE, vlan |-> v, bridge |-> b]
Net(a, b) == [addr |-> a, bits |-> b]

Essential == <<Group("global"), Pair("interface", Name(4)),
               Pair("bridge-map", <<On(10, Name(3))>>)>>
Permit(list) == <<Pair("allow-remotes", list)>>
Map(list) == <<Pair("bridge-map", list)>>

\* Endings of the file in [global]: most are mistakes an administrator can make.
Maps == <<
  <<On(10, Name(3)), On(4094, Name(15))>>, <<On(10, Name(3)), On(10, Name(4))>>,
  <<On(0, Name(3))>>, <<On(4095, Name(3))>>, <<On(NotNumber, Name(3))>>, <<On(20, Name(16))>>,
  <<On(20, Odd)>>, <<[On(20, Name(3)) EXCEPT !.at = FALSE]>>,
  <<On(1, Name(3)), On(2, Name(3)), On(3, Name(3))>>>>

Lists == <<
  <<Net(<<192, 0, 4, 2>>, 32)>>, <<Net(<<192, 0, 4, 2>>, 31)>>, <<Net(<<192, 0, 4, 0>>, 24)>>,
  <<Net(<<192, 0, 7, 255>>, 22)>>, <<Net(<<128, 0, 0, 0>>, 1)>>, <<Net(<<10, 0, 0, 0>>, 0)>>,
  <<Net(<<10, 0, 0, 0>>, 8), Net(<<192, 0, 4, 3>>, 32)>>>>

WrongLists == <<
  <<Net(<<>>, 32)>>, <<Net(<<192, 0, 4, 0>>, 33)>>, <<Net(<<192, 0, 4, 0>>, NotNumber)>>,
  <<Net(<<10, 0, 0, 0>>, 8), Net(<<>>, 32)>>,
  <<Net(<<10, 0, 0, 0>>, 8), Net(<<10, 0, 0, 0>>, 8), Net(<<10, 0, 0, 0>>, 8)>>>>

Others == <<
  <<>>, <<Blank>>, <<Bad>>, <<Bad, Blank>>, <<Pair("allow-remote", <<>>)>>,
  <<Pair("allow-remotes", <<Net(<<192, 0, 4, 9>>, 32)>>),
    Pair("allow-remotes", <<Net(<<192, 0, 4, 2>>, 32)>>)>>,
  <<Pair("tunnel-prefix", Name(6))>>, <<Pair("tunnel-prefix", Name(7))>>,
  <<Pair("interface", Name(16))>>, <<Pair("interface", Name(0))>>,
  <<Pair("tunnel-prefix", Name(6))>> \o Map(<<On(4094, Name(3))>>),
  <<Pair("tunnel-prefix", Name(7))>> \o Map(<<On(4094, Name(3))>>),
  <<Pair("pid-file", Other), Pair("log-file", Other)>>, <<Pair("log-file", Relative)>>,
  <<Pair("bridge-force", "yes")>>, <<Pair("bridge-force", "1")>>,
  <<Group("debug"), Pair("enable", "true"), Pair("print-time", "true"), Pair("time", "0")>>,
  <<Group("debug"), Pair("enable", "0"), Pair("time", "on")>>,
  <<Group("service"), Pair("port", 0)>>, <<Group("service"), Pair("port", 65535)>>,
  <<Group("service"), Pair("max-listen", 128), Pair("bind-in", Name(4))>>,
  <<Group("service"), Pair("max-listen", 129)>>,
  <<Group("service"), Pair("allow-remotes", <<Net(<<192, 0, 4, 9>>, 32)>>)>>>>

Alone(file) == MCConf :> file @@ Other :> Null
In(argv, disk, wire) == [argv |-> argv, disk |-> disk, wire |-> wire]
Opt(o) == [o |-> o, arg |-> Null]
With(o, a) == [o |-> o, arg |-> a]

Argvs == <<<<>>, <<Opt("f"), Opt("t")>>, <<Opt("d"), Opt("d"), Opt("d"), Opt("d"), Opt("d")>>,
          <<With("p", PathOf("first")), With("p", PathOf("last")), Opt("d")>>,
          <<With("l", PathOf("cli.log")), With("p", Relative)>>, <<With("l", Relative)>>,
          <<With("c", Other)>>, <<Opt("h"), Opt("?")>>, <<Opt("f"), Opt("v")>>, <<Opt("?")>>,
          <<Opt("word"), Opt("f")>>, <<Opt("word"), Opt("h")>>>>

WithPaths == Essential \o <<Pair("pid-file", Other), Pair("log-file", Other),
                            Group("debug"), Pair("enable", "true")>>

Each(argv, endings, wire) == [k \in 1 .. Len(endings) |-> In(argv, Alone(Essential \o endings[k]), wire)]

InputList ==
  Each(<<>>, [k \in 1 .. Len(Maps) |-> Map(Maps[k])], "none")
  \o Each(<<>>, [k \in 1 .. Len(WrongLists) |-> Permit(WrongLists[k])], "none")
  \o Each(<<>>, Others, "none")
  \o Each(<<>>, [k \in 1 .. Len(Lists) |-> Permit(Lists[k])], "sources")
  \o Each(<<>>, <<<<>>, Map(<<On(20, Name(3))>>)>>, "sources")
  \o [k \in 1 .. Len(Argvs) |-> In(Argvs[k], Alone(WithPaths), "none")]
  \o Each(<<Opt("f")>>, <<<<>>>>, "signals") \o Each(<<>>, <<<<>>>>, "start")
  \o Each(<<Opt("f")>>, <<<<>>>>, "flood")
  \o <<In(<<With("c", Other)>>, MCConf :> Null @@ Other :> Essential, "all"),
       In(<<>>, Alone(Null), "none"), In(<<>>, Alone(<<>>), "none"),
       In(<<>>, Alone(<<Pair("interface", Name(4))>>), "none")>>

MCInputs == 1 .. Len(InputList)
MCArgument(i) == InputList[i].argv
MCDisk(i) == InputList[i].disk

\* Frames: one or two fields differ from those of a plain one.
Sources ==
  {[Plain EXCEPT !.src = s] : s \in {
     <<192, 0, 4, 2>>, <<192, 0, 4, 3>>, <<192, 0, 5, 2>>, <<192, 0, 8, 2>>, <<127, 0, 0, 1>>,
     <<0, 0, 0, 0>>, <<0, 1, 2, 3>>, <<223, 1, 2, 3>>, <<224, 0, 0, 1>>, <<255, 255, 255, 255>>,
     <<10, 1, 2, 3>>, <<192, 0, 4, 1>>}}
  \cup {[Plain EXCEPT !.dst = <<192, 0, 4, 9>>], [Plain EXCEPT !.tci = 20],
        [Plain EXCEPT !.tci = 57344 + 10]}

Outers == {<<>>, <<33024>>, <<34984>>, <<34984, 33024>>, <<33024, 34984>>, <<33024, 33024, 33024>>}

\* Every place the frame may be cut off.
Cuts == {[Plain EXCEPT !.outer = o, !.cut = c] : o \in {<<>>, <<34984, 33024>>},
                                                 c \in {1, 3, 4, 5, 8, 9, 18, 22, 26, 27, 36, 42, 43, 46}}

Claims == {[Plain EXCEPT !.extra = e, !.pad = p] : e \in {-26, -22, -18, -5, -1, 0, 1, 6, 7}, p \in {0, 6}}

Fields ==
  {[Plain EXCEPT !.outer = o, !.words = w] : o \in Outers, w \in {5, 6, 15}}
  \cup {[Plain EXCEPT !.words = w] : w \in {0, 4}}
  \cup {[Plain EXCEPT !.outer = <<33024>>, !.etype = t] : t \in {2054, 34525}}
  \cup {[Plain EXCEPT !.version = v] : v \in {0, 6}}
  \cup {[Plain EXCEPT !.frag = g] : g \in {1, 8191, 8192, 16384, 16385, 32768}}
  \cup {[Plain EXCEPT !.proto = p, !.outer = o] : p \in {17}, o \in Outers}
  \cup {[Plain EXCEPT !.flags = g] : g \in {1, 8192, 32768}}
  \cup {[Plain EXCEPT !.gproto = 2048]}
  \cup {[Plain EXCEPT !.mac = m] : m \in {<<3, 0, 0, 0, 0, 66>>, Zeros(6), <<0, 0, 0, 0, 0, 1>>}}
  \cup {[Plain EXCEPT !.inner = i, !.itype = t] : i \in {<<>>, <<33024>>, <<34984>>, <<33024, 33024>>,
                                                         <<33024, 34984>>}, t \in {2048, 2054}}
  \cup {[Plain EXCEPT !.tci = v] : v \in {0, 1, 4094, 4095, 4096}}
  \cup {[Plain EXCEPT !.inner = <<>>, !.cut = 1]}

AllFrames == Cuts \cup Claims \cup Fields \cup {Plain}
MCFrames == AllFrames \cup Sources
MCWire(i) ==
  LET wire == InputList[i].wire
  IN  CASE wire = "all" -> AllFrames [] wire = "sources" -> Sources [] wire = "flood" -> {Plain}
        [] OTHER -> {}
MCCommands(i) == IF InputList[i].wire \in {"signals", "start", "flood"} THEN 1 ELSE 0
MCBudget(i) ==
  LET wire == InputList[i].wire
  IN  CASE wire = "signals" -> 3 [] wire = "start" -> 2 [] wire = "flood" -> 1 [] OTHER -> 0

Octets == [x \in MCFrames |-> Bytes(x)]
MCOctet(x, k) == Octets[x][k + 1]
MCSize(x) == Length(x)
MCAddress == <<192, 0, 4, 1>>

\* The bytes say what the sender meant.
ASSUME \A f \in MCFrames : WellFormed(f) <=> Acceptable(f)

=============================================================================
