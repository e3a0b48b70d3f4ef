------------------------------- MODULE Config -------------------------------
(***************************************************************************)
(* softgred_config.c: the command line, the configuration file, and what   *)
(* main makes of them before it does anything else.                        *)
(*                                                                         *)
(* Text is abstracted to what its readers tell apart: a name to its length *)
(* and whether its characters are allowed, a number to its value (NotNumber*)
(* for anything but digits), a list to its entries after str_split_next    *)
(* and str_trim (an empty value has one, empty, entry), a path to whether  *)
(* it is absolute and on one line.                                         *)
(***************************************************************************)
EXTENDS Integers, Sequences, FiniteSets, FiniteSetsExt

CONSTANTS Inputs,      \* names of inputs, each with ...
          Argument(_), \* ... a command line
          Disk(_),     \* ... and the file of each path
          Null,        \* NULL
          MaxAttach,   \* SOFTGRED_MAX_ATTACH
          MaxAllow,    \* SOFTGRED_MAX_ALLOW
          MaxSlots,    \* SOFTGRED_MAX_SLOTS
          DefaultConf, DefaultPid, DefaultLog   \* paths

\* The files main may open.
ConfPaths(i) ==
  {DefaultConf} \cup {Argument(i)[k].arg : k \in {j \in 1 .. Len(Argument(i)) : Argument(i)[j].o = "c"}}

\* SOFTGRED_MAX_SLOTS is 4096: a slot has four digits at most.
ASSUME BoundAssumption == MaxAttach \in Nat /\ MaxSlots \in Nat \ {0} /\ MaxSlots <= 10000

\* NULL is no text.
ASSUME NullAssumption == Null \notin {"true", "false", "1", "0"}

\* Command lines and files are sequences.
ASSUME ConfigAssumption ==
  \A i \in Inputs :
    /\ Len(Argument(i)) \in Nat
    /\ \A p \in ConfPaths(i) : Disk(i)[p] # Null => Len(Disk(i)[p]) \in Nat

\* str_split_next gives a value one entry at least.
ASSUME ListAssumption ==
  \A i \in Inputs : \A p \in ConfPaths(i) : Disk(i)[p] # Null =>
    \A j \in 1 .. Len(Disk(i)[p]) :
      Disk(i)[p][j].kind = "pair" /\ Disk(i)[p][j].name = "allow-remotes" =>
        Disk(i)[p][j].value # Null /\ Len(Disk(i)[p][j].value) \in Nat \ {0}

Byte == 0 .. 255

\* inet_pton gives four octets, or refuses the text (<<>>).
ASSUME AddressAssumption ==
  \A i \in Inputs : \A p \in ConfPaths(i) : Disk(i)[p] # Null =>
    \A j \in 1 .. Len(Disk(i)[p]) :
      Disk(i)[p][j].kind = "pair" /\ Disk(i)[p][j].name = "allow-remotes" =>
        \A k \in 1 .. Len(Disk(i)[p][j].value) :
          Disk(i)[p][j].value[k].addr # <<>> => Disk(i)[p][j].value[k].addr \in [1 .. 4 -> Byte]

NotNumber == -1
IfNameSize == 16   \* IFNAMSIZ
MaxVlan == 4094
MaxPort == 65535

VARIABLES
  input,     \* argv and the files, as they were given
  stage,     \* "cli", "open", "read", "loaded", "failed", "exit"; Main has the others
  n,         \* next argument or line
  group, ini,
  cfg        \* struct softgred_config

configVars == <<input, stage, n, group, ini, cfg>>

Argv == Argument(input)
Path == IF cfg.config_file = Null THEN DefaultConf ELSE cfg.config_file
File == Disk(input)[Path]

\* softgred_config_ref, or softgred_config_release.
Fresh == [config_file |-> Null, pid_file |-> Null, log_file |-> Null,
          is_foreground |-> FALSE, dbg_mode |-> 0, dbg_time |-> FALSE, dbg_enable |-> FALSE,
          ifname |-> Null, tunnel_prefix |-> Null, bridge |-> <<>>, allow |-> <<>>,
          bridge_force |-> FALSE, srv_bind_in |-> Null, srv_port |-> 8888, srv_max_listen |-> 10]

ConfigInit ==
  /\ input \in Inputs
  /\ stage = "cli" /\ n = 1
  /\ group = "" /\ ini = <<>>
  /\ cfg = Fresh

-----------------------------------------------------------------------------
(* softgred_config_load_cli.                                               *)

\* What an option sets; o is its letter.
Option(a) ==
  CASE a.o = "c" -> [cfg EXCEPT !.config_file = a.arg]
    [] a.o = "p" -> [cfg EXCEPT !.pid_file = a.arg]
    [] a.o = "l" -> [cfg EXCEPT !.log_file = a.arg]
    [] a.o = "f" -> [cfg EXCEPT !.is_foreground = TRUE]
    [] a.o = "d" -> [cfg EXCEPT !.dbg_mode = IF @ + 1 < 4 THEN @ + 1 ELSE 4]
    [] a.o = "t" -> [cfg EXCEPT !.dbg_time = TRUE]
    [] OTHER -> cfg

\* One round of getopt_long: -h and -v end the program, an unknown option does as
\* well; other words are left for the end, where they are an error.
Cli ==
  /\ stage = "cli"
  /\ IF n > Len(Argv)
     THEN /\ stage' = IF \E k \in 1 .. Len(Argv) : Argv[k].o = "word" THEN "failed" ELSE "open"
          /\ n' = 1 /\ UNCHANGED cfg
     ELSE /\ stage' = CASE Argv[n].o \in {"h", "v"} -> "exit"
                        [] Argv[n].o = "?" -> "failed"
                        [] OTHER -> stage
          /\ cfg' = IF stage' = "cli" THEN Option(Argv[n]) ELSE Fresh
          /\ n' = n + 1
  /\ UNCHANGED <<input, group, ini>>

-----------------------------------------------------------------------------
(* ini_load.                                                               *)

Fail == stage' = "failed" /\ cfg' = Fresh /\ UNCHANGED <<n, group, ini>>

Open ==
  /\ stage = "open"
  /\ IF File = Null THEN Fail ELSE stage' = "read" /\ UNCHANGED <<n, group, ini, cfg>>
  /\ UNCHANGED input

\* Mutant of Line: a malformed line is skipped.
LineSkips(l) ==
  /\ n' = n + 1
  /\ group' = IF l.kind = "group" THEN l.name ELSE group
  /\ ini' = IF l.kind = "pair"
            THEN Append(ini, [group |-> group, key |-> l.name, value |-> l.value]) ELSE ini
  /\ UNCHANGED <<stage, cfg>>

\* One line.  "bad" is a NUL byte, an invalid header, no "=" or no key.
Line(l) ==
  IF l.kind = "bad" THEN Fail
  ELSE /\ n' = n + 1
       /\ group' = IF l.kind = "group" THEN l.name ELSE group
       /\ ini' = IF l.kind = "pair"
                 THEN Append(ini, [group |-> group, key |-> l.name, value |-> l.value]) ELSE ini
       /\ UNCHANGED <<stage, cfg>>

\* getline gives the next line, or an error (ferror).
ReadLine ==
  /\ stage = "read" /\ n <= Len(File)
  /\ Line(File[n]) \/ Fail
  /\ UNCHANGED input

ini_get(g, k) ==
  LET hits == {j \in 1 .. Len(ini) : ini[j].group = g /\ ini[j].key = k}
  IN  IF hits = {} THEN Null ELSE ini[Max(hits)].value

-----------------------------------------------------------------------------
(* softgred_config_load_conf.                                              *)

read_string(g, k, fallback) == IF ini_get(g, k) = Null THEN fallback ELSE ini_get(g, k)

BoolOk(g, k) == ini_get(g, k) = Null \/ ini_get(g, k) \in {"true", "false", "1", "0"}
BoolOf(g, k, old) == IF ini_get(g, k) = Null THEN old ELSE ini_get(g, k) \in {"true", "1"}

UintOk(g, k, min, max) == ini_get(g, k) = Null \/ ini_get(g, k) \in min .. max

config_valid_ifname(name) == name # Null /\ name.len \in 1 .. IfNameSize - 1 /\ name.plain

\* Each entry is VLAN@bridge, no VLAN appears twice, and there is room for all.
parse_bridges(map) ==
  /\ Len(map) \in 1 .. MaxAttach
  /\ \A k \in 1 .. Len(map) : /\ map[k].at /\ map[k].vlan \in 1 .. MaxVlan
                              /\ config_valid_ifname(map[k].bridge)
  /\ \A j, k \in 1 .. Len(map) : map[j].vlan = map[k].vlan => j = k

Bridges(map) == [k \in 1 .. Len(map) |-> [vlan_id |-> map[k].vlan, ifname |-> map[k].bridge]]

\* An entry is an address (<<>> if inet_pton refuses it) with its bits, 32 if there
\* is no "/".
parse_allow(list) ==
  /\ Len(list) <= MaxAllow
  /\ \A k \in 1 .. Len(list) : list[k].addr # <<>> /\ list[k].bits \in 0 .. 32

\* Mutant of Mask: one bit too few.
MaskShort(bits) ==
  [o \in 1 .. 4 |-> LET ones == bits - 1 - 8 * (o - 1)
                    IN  256 - 2 ^ (IF ones < 0 THEN 8 ELSE IF ones > 8 THEN 0 ELSE 8 - ones)]

\* ~0u << (32 - bits), 0 if bits is 0, by octets.
Mask(bits) ==
  [o \in 1 .. 4 |-> LET ones == bits - 8 * (o - 1)
                    IN  256 - 2 ^ (IF ones < 0 THEN 8 ELSE IF ones > 8 THEN 0 ELSE 8 - ones)]

\* a & mask: an octet of a mask is 256 - 2^m, it clears the last m bits.
Masked(a, mask) == [o \in 1 .. 4 |-> a[o] - (a[o] % (256 - mask[o]))]

Allow(list) ==
  [k \in 1 .. Len(list) |-> [mask |-> Mask(list[k].bits),
                             network |-> Masked(list[k].addr, Mask(list[k].bits))]]

config_remote_allowed(remote) ==
  \/ cfg.allow = <<>>
  \/ \E k \in 1 .. Len(cfg.allow) : Masked(remote, cfg.allow[k].mask) = cfg.allow[k].network

\* Mutant of Keep: the file overrides the command line.
KeepNot(old, k, fallback) == read_string("global", k, fallback)

\* An option of the command line is kept.
Keep(old, k, fallback) == IF old # Null THEN old ELSE read_string("global", k, fallback)

\* Mutant of PrefixLimit.
PrefixLimitLong == 7

PrefixLimit == 6

\* The values of the keys that are checked or combined.
Interface == read_string("global", "interface", Null)
Prefix == read_string("global", "tunnel-prefix", [len |-> 4, plain |-> TRUE])
BridgeMap == read_string("global", "bridge-map", Null)
AllowList == read_string("global", "allow-remotes", Null)
LogPath == Keep(cfg.log_file, "log-file", DefaultLog)
Bind == read_string("service", "bind-in", [len |-> 2, plain |-> TRUE])
Enabled == BoolOf("debug", "enable", cfg.dbg_enable)
Stamp == BoolOf("debug", "time", BoolOf("debug", "print-time", FALSE))

\* Every key is checked; the first error ends the program.
Valid ==
  /\ config_valid_ifname(Interface)
  /\ config_valid_ifname(Prefix) /\ Prefix.len <= PrefixLimit
  /\ BridgeMap # Null /\ parse_bridges(BridgeMap)
  /\ AllowList # Null => parse_allow(AllowList)
  /\ LogPath.absolute
  /\ config_valid_ifname(Bind)
  /\ BoolOk("global", "bridge-force") /\ BoolOk("debug", "enable")
  /\ BoolOk("debug", "print-time") /\ BoolOk("debug", "time")
  /\ UintOk("service", "port", 1, MaxPort) /\ UintOk("service", "max-listen", 1, 128)

\* What the file makes of cfg.
Filled ==
  [cfg EXCEPT !.ifname = Interface, !.tunnel_prefix = Prefix, !.bridge = Bridges(BridgeMap),
              !.allow = IF AllowList = Null THEN <<>> ELSE Allow(AllowList),
              !.pid_file = Keep(@, "pid-file", DefaultPid), !.log_file = LogPath,
              !.srv_bind_in = Bind,
              !.bridge_force = BoolOf("global", "bridge-force", @),
              !.dbg_enable = Enabled, !.dbg_time = @ \/ Stamp,
              !.dbg_mode = IF Enabled /\ @ = 0 THEN 1 ELSE @,
              !.srv_port = read_string("service", "port", @),
              !.srv_max_listen = read_string("service", "max-listen", @)]

\* The end of the file.
Load ==
  /\ stage = "read" /\ n > Len(File)
  /\ IF Valid THEN stage' = "loaded" /\ cfg' = Filled /\ ini' = <<>> /\ n' = 0 /\ UNCHANGED group
     ELSE Fail
  /\ UNCHANGED input

ConfigNext == Cli \/ Open \/ ReadLine \/ Load

-----------------------------------------------------------------------------
(* Properties.  What the file says is read off its lines here, with the    *)
(* group each one stands in.                                               *)

InGroup(g, j) ==
  \E h \in 1 .. j - 1 : /\ File[h].kind = "group" /\ File[h].name = g
                        /\ \A k \in h + 1 .. j : File[k].kind # "group"

Loaded == stage \notin {"cli", "open", "read", "exit", "failed", "dead"}

Given(g, key) ==
  LET where == {j \in 1 .. Len(File) : File[j].kind = "pair" /\ File[j].name = key /\ InGroup(g, j)}
  IN  IF where = {} THEN Null ELSE File[Max(where)].value

\* "a typo in a security setting [...] can never silently fall back to the permissive
\* default" (softgred_config.c:93): no line of a running daemon's file is malformed (keys
\* it does not know are ignored, as documented), and it runs open only if no line of
\* [global] is about allow-remotes.
NeverFallsOpen ==
  Loaded =>
    /\ \A j \in 1 .. Len(File) : File[j].kind # "bad"
    /\ Given("global", "allow-remotes") # Null =>
         Len(cfg.allow) = Len(Given("global", "allow-remotes")) /\ cfg.allow # <<>>

LastOption(letter) ==
  LET where == {k \in 1 .. Len(Argv) : Argv[k].o = letter}
  IN  IF where = {} THEN Null ELSE Argv[Max(where)].arg

\* The file read is the one the command line names, and the paths and the debug
\* level of the command line come before those of the file.
CommandLineWins ==
  LET or(a, b) == IF a = Null THEN b ELSE a
      count == Cardinality({k \in 1 .. Len(Argv) : Argv[k].o = "d"})
  IN  Loaded =>
        /\ Path = or(LastOption("c"), DefaultConf)
        /\ cfg.pid_file = or(LastOption("p"), or(Given("global", "pid-file"), DefaultPid))
        /\ cfg.log_file = or(LastOption("l"), or(Given("global", "log-file"), DefaultLog))
        /\ cfg.dbg_mode = IF count > 4 THEN 4 ELSE IF count > 0 THEN count
                          ELSE IF Given("debug", "enable") \in {"true", "1"} THEN 1 ELSE 0

Digits(k) == IF k < 10 THEN 1 ELSE IF k < 100 THEN 2 ELSE IF k < 1000 THEN 3 ELSE 4

\* "the six-character prefix limit leaves room for the tunnel slot and the four-digit
\* VLAN suffix" (configuration.md): every VLAN of the map in use, which is the last one
\* of the file, gets an interface of its own in each tunnel, since no name is cut off
\* and no VLAN is listed twice.
NamesFit ==
  Loaded =>
    LET map == Given("global", "bridge-map")
    IN  /\ Len(cfg.bridge) = Len(map) /\ Len(map) <= MaxAttach
        /\ \A j, k \in 1 .. Len(map) : map[j].vlan = map[k].vlan => j = k
        /\ \A k \in 1 .. Len(map) :
             /\ cfg.bridge[k] = [vlan_id |-> map[k].vlan, ifname |-> map[k].bridge]
             /\ cfg.tunnel_prefix.len + Digits(MaxSlots - 1) + 1 + Digits(map[k].vlan) < IfNameSize

=============================================================================
