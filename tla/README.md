# softgred in TLA+

A verification development for `softgred`, the SoftGRE daemon of this repository. The
daemon watches GRE traffic on a Linux host, creates a `gretap` link for every access point
that sends, puts its VLAN ports into bridges, and lets through only the MAC addresses it
has learned, by rules in two ebtables chains of its own.

It is one process with one thread. What makes it hard to get right is around it: the
bridge forwards frames between any two of its commands, every command may fail or be cut
off with an unknown result, the administrator changes interfaces meanwhile, and the
process may be killed or started twice.

## The parts of the system

| Part | Source | Module | State of the work |
| --- | --- | --- | --- |
| provisioning: learn, set up, roll back, clean up | `src/provision.c` | `Provision` | modelled, proved |
| firewall chains, jumps, permissions | `src/iface_ebtables.c` | `Kernel`, `Provision`, `Daemon` | modelled, proved |
| links and bridge ports (netlink) | `src/iface_gre.c`, `src/iface_bridge.c` | `Kernel` | outcomes of each request |
| running ebtables with a deadline | `src/helper.c` | `Helper`; its outcomes in `Kernel` | modelled, proved |
| life of the daemon: start, loop, stop | `src/softgred.c` | `Main`, `Daemon` | modelled, proved |
| configuration and command line | `src/softgred_config.c` | `Config` | modelled, proved |
| PID file and its lock | `src/softgred_config.c` | `PidFile` | modelled, proved |
| capture, filter and frame parser | `src/payload.c` | `Payload`, `GreFrame` | modelled, proved |
| log and its reopening | `src/log.c` | `Log` | modelled, proved; not the lines |
| hash table | `src/hashmap.c` | `HashMap`, `Dictionary` | modelled, proved |
| status API: connections | `src/service.c` | `Service` | modelled, proved |
| status API: commands | `src/service_cmd.c` | `Query` | modelled, proved |
| string buffers, allocation, clock | `src/compat.c` | - | no state of their own |
| dashboard | `share/webinterface/server.py`, `api.php`, `dashboard.js` | - | not modelled |
| DHCP lease hook, packaging, containers | `scripts/`, `debian/`, `openwrt/`, `docker/` | - | not modelled |

(Paths are relative to the root of the repository.) `main` calls `provision_packet` for
each captured packet, `provision_delall` on SIGUSR1 and at the end, and `service_dispatch`
in each round. `provision.c` calls `iface_gre`, `iface_bridge` and `iface_ebtables`; those
change the kernel through `link_send` and `helper_exec`. The tables of `provision.c` are
hash tables of `hashmap.c`.

## Modules

**`Kernel`** is the state outside the process: which interface has each name
(`link`), the VLAN ports that joined a bridge (`bridged`), jump rules, ACCEPT rules, the
default rules and the chains. Each netlink request or ebtables run is one action with an
outcome: `"ok"`, `"refused"` (by the kernel), `"failed"` (not executed), `"late"`
(executed, but reported as an error because a deadline or a signal cut it off), or, for the
deletion of a link, `"missed"`: `if_nametoindex` failed for a reason of its own, its 0 is
reported as `ENODEV`, and the caller takes the link for gone. `missed` remembers the links
to which that has happened and which are still there. `AcceptsFrom` and `AcceptsTo` say
what the bridge does with a frame in that state.

**`Provision`** extends it by `provision.c`. A handler is cut at its commands: `pc` names
the next one, `"idle"` is the main loop. The fields of `struct tunnel_context` are
functions on the remotes.

| Code | Actions |
| --- | --- |
| `provision_packet` | `Packet` (with `Eligible`), `Reject`, `SecondPasses` (clock) |
| `provision_add` | `Scan`, `ScanOverlooks`, `AddLink`, `AddHook`, `AttachVlan`, `AttachMaster` |
| `provision_tunnel_allow_mac`, `iface_ebtables_allow` | `AllowCheck`, `AllowIn`, `AllowOut`, `AllowUndo` |
| `provision_del`, `iface_ebtables_del_tunnel` | `DelLink`, `Unhook`, `UnhookSkip`, `DelDone` |
| `provision_delall`, `iface_ebtables_reset` | `Sigusr1`, `DelallNext`, `DelallLink`, `DelallUnhooked`, `DelallVisited`, `FlushIn`, `FlushOut`, `Defaults` |

Packets that are only counted change no modelled state and are no action. The revocation
loop of `provision_del` is a step without successor; `RevokeUnreachable`, a part of
`InductiveInv`, says that it is never reached. errno keeps what the code tells apart: `ENOSPC` or not.

**`Daemon`** extends `Provision` by the life of the process: `iface_ebtables_init`
(`NewIn`, `NewOut`, `NewUndo`, `InitDefaults`), shutdown (`Stop`, `ProvisionEnd`,
`EndTables`, `EndFlush`, `EndDelete`), a crash at any step and the administrator's repair.

**`PidFile`** has several processes around one path, system call by system call, with
files that live on after they are unlinked. The chains are one object there; `Daemon` has
them in detail.

**`HashMap`** is the table of `hashmap.c`, slot by slot: probing, tombstones, rehashing,
iteration with removal. **`Dictionary`** is what it promises: a function from keys to
values. `ImplementsDictionary` is the refinement, with `hashmap_lookup` as the mapping.

**`Service`** is the status API's client slots in the poll loop. The results of `recv` and
`send` are free; lengths stand for requests and responses. **`Query`** extends `Provision`
by what `service_command` answers: `LMIP`, `GTMC` and `STUN` on the tables as they are.

**`Main`** is `main`, and composes the parts it drives itself:

| Module | Code | Actions |
| --- | --- | --- |
| `Config` | `softgred_config_load_cli`, `ini_load`, `softgred_config_load_conf` | `Cli`, `Open`, `ReadLine`, `Load` |
| `Payload` | `payload_loop_init`, the filter program, `payload_receive`, `payload_parse` | `Socket`, `Configure`, `Arrive`, `Filter`, `Receive`, `ParseEther`, `ParseTag`, `ParseIp`, `ParseGre`, `ParseInner`, `Discard` |
| `Helper` | `helper_exec` and the process it forks | `Call`, `Wait`, `Clock`, `Kill`, `Reap`; `Child`, `Expire` |
| `Log` | `log_open`, `log_close`, logrotate | `LogOpen`, `LogCheck`, `log_close`; `Rotate` |
| `Main` | start | `StartLog`, `local_address`, `Daemonize`, `TakePid`, `payload_loop_init`, `Acquire`, `Notify`; `Parent` |
| `Main` | loop | `Poll`, `ReadSignal`, `Reopen`, `CleanupDone`, `SignalsDone`, `ReceiveOne`, `provision_packet`, `Handled`, `PacketsDone`, `service_dispatch` |
| `Main` | the label `end` | `End`, `Ended`, `Report` |

`stage` is where `main` is, `round` where its loop is, `held` what it has set up. A handler
of `provision.c` is here only the commands it may run (`Provision` has them in detail), and
`service_dispatch` is one step (`Service` has it in detail). The modules meet in two places.
A packet `Main` calls eligible is one of a `Provisionable` remote in `Provision`. A command
of `Kernel` is one call of `helper_exec`, and `CommandIsOver` is why it may be one step with
an outcome: when the call returns nobody is left to change the rules, 0 means that they are
changed, and -1 that they are not, unless the deadline is past or somebody else's signal has
killed ebtables (`"late"`).

In `Config` a name is its length and whether its characters are allowed, a number its
value, a list its entries. In `Payload` frames are bytes, and `high` remembers the last one
read. **`GreFrame`** is the peers' side: it puts a frame together from its fields, so that
`AdmissionExact` compares what was meant with what the daemon made of it.

**`MC...`** modules give the constants model values; `MCMain` has the command lines, files
and frames. The proofs are in `ProvisionInductive` and `ProvisionProofs` (`Provision`,
`Query`, `Daemon`), `HashMapProofs`, `InputProofs` (the steps of `Config` and `Payload`),
`AdmissionProofs` (what they make of `Main`), `MainProofs` (the rest of `Main`),
`PidFileProofs` and `ServiceProofs`. An operator whose comment begins with "Mutant of" is a
deliberately wrong variant of the definition after it: put in its place it makes the
property named in `PROJECT.json` fail. No specification uses it.

## Runs

Passing runs:

| Run | Instance | What it shows |
| --- | --- | --- |
| `provision_safety` | 2 remotes that may provision and 1 that may not, 3 MACs, 2 slots, 2 VLANs, 2 clients per tunnel, 1 fault of any kind, 2 changes by the administrator | filter, tables and errno stay right through setup, rollback, capacity limits and cleanup; the inductive invariant of the proofs holds; the answers of the API agree |
| `provision_liveness` | 2 remotes, 1 MAC, 2 faults, 1 change | cleanup retries succeed, and peers are learned again |
| `daemon` | 2 remotes, 1 MAC, 1 fault, 1 change | crashes, restarts, refused starts, repair; a client is accepted on one tunnel, the API shows what is left; start and stop end |
| `hashmap` | 4 keys that all collide at first, 2 values, minimum capacity 4 | dictionary, counters, growth, ownership, iteration |
| `pid_file` | 3 processes, 4 files | at most one process serves |
| `service` | 3 connections, 2 slots, requests of up to 2 and responses of up to 2 bytes | no descriptor leaks, events reach their client, connections end |
| `main` | 65 inputs: command lines, files with one mistake each, 7 allow lists; about 110 frames; batches of 2 frames; up to 3 signals, rotations, crashes or killed parents; 1 command per handler | what is configured is what is admitted, the parser stays in its frame, the filter loses nothing, a command is over when it returns, the log is kept and follows rotations, the parent hears the truth, rounds end and SIGTERM stops |

Runs that show where the code departs from what its comments, tests or documents say:

| Run | Property | What happens |
| --- | --- | --- |
| `two_faults` | `OneTunnelPerSource` | the outbound permission fails, then the undo of the inbound one, which is not looked at: the MAC is later learned elsewhere and accepted from two tunnels |
| `late_cleanup` | `CleanupRecovers` | ebtables removes a jump but is killed at the deadline: its bit stays, every later removal fails, and SIGUSR1 never completes |
| `reused_name` | `ForeignUntouched` | a partial cleanup keeps the record of a deleted link; an unrelated interface takes the name and the retry deletes it |
| `shutdown` | `FilterBeforeBridge` | a link cannot be deleted at exit, but the chains are flushed: the tunnel stays bridged without DROP rules |
| `masked_delete` | `BridgedIsFiltered` | the look-up before a deletion fails, which is taken for a link that is gone: its jumps and its record go, the link stays bridged without a filter |

`masked_delete` is the reason why `FilterBeforeBridge`, `OneTunnelPerMac`,
`LeftoversVisible`, `FilterSurvivesCrash` and `NothingInherited` speak of the links outside
`missed`: of a link the daemon wrongly takes for gone none of them holds, until it is
deleted. The other links have to be right beside it, and so have the tables, the answers
and the liveness of the rest; `LearnsEventually` exempts only that all names are taken by
such links or by foreign ones, or that such a link is left for every peer.

Two more behaviours of the models deserve a reader's attention. A setup that fails after
more than a second arms a backoff that is already over, because `retry_after` is computed
from the time before the work (`provision.c:186` and `:203`, `Reject`). A link whose
creation is executed but reported as failed is not recorded, and the next attempt for that
remote is refused until somebody deletes the link (`AddLink` with `"late"`). That
link has no port, so nothing passes through it.

The lock of the PID file does not exclude a second process as `configuration.md` says ("an
exclusive advisory lock held for the daemon's lifetime"): the file is unlinked before it is
closed, and nobody compares the locked file with the path after `F_SETLK`, so a process
that has opened the old file locks the orphan while a third one serves with the new
(`PidFile` has these behaviours). The chains stop it: `OneServes` does not need the lock.

Two more follow from the code and its documents and are worth knowing. Keys that are
unknown, misspelt or in another group are ignored, so `allow-remote=` leaves a daemon open
(`NeverFallsOpen` speaks of lines that are malformed and values that are refused). And the
capture socket collects frames of all interfaces before it is bound and filtered; they are
parsed later like any other, and the parser does not rely on the filter (`ParserExact`).

### Bounds

`MaxFaults` and `MaxAdmin` bound how often commands fail and the administrator interferes;
`NSlots`, `NVlans`, `MaxClients`, `Room`, `MaxResponse`, `Batch`, `MinCap` are the code's
limits made small; `MaxFiles` bounds the PID files ever created. Two slots and two remotes
let names be taken, tunnels compete and all slots be full; one or two clients per tunnel
make the client limit bite; two faults reach a failed rollback of a failed setup. The single-fault
bound of `daemon` is needed: with two faults `OneTunnelPerSource` does not hold
(`two_faults`). Nor may its fault be `"late"`: the bit of a jump that was removed too late
stays set, and a permission whose insertion was cut off stays without a record. With four keys, three in one bucket, the table rehashes at the same size, doubles
and wraps around. Remotes and MACs are interchangeable, so `provision_safety` uses
symmetry; runs with liveness properties do not. Among the passing runs `provision_safety` has
`"late"` outcomes (`Ambiguous`), and all have `"missed"` ones; the proofs have both.

In `main`, `MaxAttach`, `MaxAllow` and `Burst` are 2 where the code has 10, 64 and 64, so
that two files and a flood of frames reach them; `MaxSlots` is 4096 as in the code, since
`NamesFit` counts its digits. `Budget` bounds signals, rotations, crashes and killed
parents, `Commands` the commands of a handler; both depend on the input, so that long
histories are explored with a plain configuration and one kind of frame, and every file and
every frame with a quiet outside. Frames are cut off at every field border and next to it,
each header field takes its limits and their neighbours, and each claimed length is too
short, exact and too long.

### Fairness

`Provision!FairSpec`: the process takes its next step (weak fairness of `Work`), time
passes, every peer keeps sending and is not ignored for ever (strong fairness per peer:
every round of the loop polls the capture socket), and the operator sends SIGUSR1 again
while a cleanup is incomplete, as the log message asks. `DaemonFairSpec`: the process takes
its steps, and signals are not sent faster than they are handled. `Service!FairSpec`: the
loop goes round, since poll returns after 250 ms, and deadlines pass. `MainFairSpec`: the
daemon and its parent get the processor, the kernel filters what has arrived, and the clock
passes the deadline of a command. The last one is needed: ebtables may hang for ever. No
fairness is assumed of commands, peers, crashes or the administrator. Signals are bounded
in `main`, and have to be: the loop reads them until there are none, so an administrator
who sends them faster than they are handled would keep it there.

The `pid_file`, `service` and `main` runs do not look for deadlock: files run
out at the bound, and a daemon that has ended does nothing more.

## What is proved

Every safety property of a passing run is proved for all values of the constants. (Four
theorems have hypotheses on the faults; see below.)

### Provisioning

For any sets of remotes and MACs, any number of slots, VLANs, clients and faults, and with
ambiguous outcomes (`KernelAssumption` and `ProvisionAssumption` say only what the
constants are), `ProvisionProofs` proves of `Provision!Spec`:

- `TypeCorrect`: the type invariant;
- `FilterAlways`: a bridged tunnel is behind its jumps and DROP rules, unless its deletion
  was `"missed"`;
- `SlotsAlwaysExact`, `IndexAlwaysExact`: the tables agree;
- `RevokeNeverReached`: the revocation loop is dead code;
- `CapacityNeverFailure`: errno tells a capacity limit from a failure;
- `RecordedAlwaysPermitted`: recorded clients have both permissions;
- `CleanupAlwaysPauses`: nothing is created from the begin of a cleanup to its success;
- `AnswersAlwaysAgree`: `LMIP`, `GTMC` and `STUN` never contradict each other;
- `AlwaysInductiveInv`: the invariant all this rests on.

The inductive invariant `IInv` adds to the properties what the handlers rely on between
commands: `ControlInv` (which tunnel a step is about and in what condition), `ClientsInv`
(only a cleanup takes `ready` from a tunnel with clients), `BridgeInv` (jumps before ports,
link gone before jumps) and `CleanupInv` (DROP rules are missing only when no port is
bridged). `FilterBeforeBridge` alone is not inductive: that a tunnel being unhooked has no
bridged port has to be carried along. `ErrnoInv` and `PermitInv` are inductive relative to
`IInv`. `ProvisionInductive` proves that steps keep `IInv`: first the types, then the
agreement of the tables and the control facts, then the order of commands. Each lemma says
which changes leave its conjunct alone and goes through the handlers, with a step for each
action that disturbs it. The run `provision_safety` checks the same `InductiveInv`, and with
it its conjuncts. That the answers agree follows from the agreement of the tables
(`AnswersFromTables`).

Three theorems suppose that a command that fails has had no effect (`~Ambiguous`):

- `BitsAlwaysExact`: the bits of `firewall_hooks` and the jumps agree, whatever the number
  of faults (`HooksInv`);
- `OneTunnelAlways`, `LeftoversAlwaysVisible`: with at most one fault (`MaxFaults <= 1`),
  the bridge accepts a client on one tunnel only, and the status API shows whatever is left
  in the kernel, but for a tunnel whose deletion was `"missed"` (`LinksInv`: a tunnel interface is that of a recorded tunnel; `RulesInv`:
  an ACCEPT rule is that of a recorded client, or the one at hand, whose undo cannot fail
  because the failure it answers was the only one).

The hypotheses are not for convenience: `two_faults` has two faults that break
`OneTunnelPerSource`, and `late_cleanup` shows a bit without its jump after one ambiguous
one.

### The life of the daemon

`ProvisionProofs` also proves of `Daemon!DaemonSpec`, for any number of crashes, restarts,
refused starts and repairs:

- `DaemonInvariant`: the inductive invariant;
- `FilterAlwaysSurvives`: what a crash leaves behind stays filtered, through later starts,
  with any number of faults, ambiguous or not, but for links whose deletion was `"missed"`;
- `OnlyOwnChainsAlways`: nobody flushes or deletes a chain it has not created;
- `NothingEverInherited`: a daemon in its loop owns all the interfaces and jumps there are
  (again but for those links), if at most two commands fail, without effect. With three it does not hold, and TLC finds
  the behaviour: a jump that could not be inserted, then twice a link that could not be
  deleted, leave a tunnel without one of its jumps, which may outlive both chains.

In the loop `IInv` holds. Around it `DaemonInv` says which chains exist, whose they are, and
what may be left at each step of start and shutdown. A rule can only jump to a chain that
exists, so a start that could create `SOFTGRE_IN` finds no jump, and no bridged tunnel
without one. `OwnedInv` adds, for `NothingEverInherited`, that an interface outlives its
process only behind its three jumps or with a chain: jumps keep the chains from being
deleted, and a chain that is there stops the next start.

### The hash table

`HashMapProofs` proves of `HashMap!Spec`, for any keys, any hash function and any minimal
capacity (a power of two): `CountersAlwaysExact`, `HeldAlwaysExact`, `Bounded`
(`CapacityBounded`), `VisitedOnce` (`IterationExact`) and `Refines`, the refinement
`ImplementsDictionary`. The invariant says that every entry is where a search for its key
ends: no slot between the home of a key and its entry is empty. A tombstone keeps that, an
empty slot in its place would not. Its first section proves what the operators compute:
`find` by induction on the distance it has gone, `resize` by induction on the number of
slots it has copied. Induction is done by hand: the numbers for which a claim fails have a
least one, which the library's well-foundedness theorem gives without an operator parameter.

### Input

`AdmissionProofs` proves of `Main!MainSpec`, with what `InputProofs` says about the steps:

- `NoReadBehindFrame`: the parser never reads behind a frame of any length and content;
- `AcceptsExactly`: it accepts exactly the frames `WellFormed` describes;
- `FilterIsHarmless`: the filter program passes all of those;
- `NeverOpenByMistake`, `CommandLineAlwaysWins`, `NamesAlwaysFit`: the three properties of
  the configuration, for every command line and every file;
- `AdmitsExactly` (`AdmissionExact`), which joins the two: for every file the daemon accepts
  and every frame, a packet may provision exactly if the frame is well formed and addressed
  to this host, its VLAN is in the bridge map, and its sender is another unicast host in a
  network the file lists; and what it provisions is the client the sender put into it.

`ParseInv` says for each step of the parser what has been established about the frame and
how far it has been read. `WellFormed` is stated by positions, the parser works by running
offsets: the lemmas in between say that the number of outer tags and the header length of a
well-formed frame are the ones the parser has found. For the filter, `Passing` says in which
state a well-formed frame may be before each instruction; no jump goes back, and so the
number of instructions bounds the steps.

`ConfigInv` says what is known while the input is read: `cfg` holds the last of each option
among the arguments seen, `group` is the group of the next line, and `ini_get` finds what
the lines so far say. The properties read the same off the whole command line and the whole
file, with the group of a line looked up behind it. At the end of the file the two meet
(`AllRead`).

`AdmissionExact` follows from `AdmitInv`, which adds four parts to those two invariants.
`AllowInv`: the allow list in use is the one of the file, entry by entry. `OutInv`: what
`payload_parse` hands on is what the sender put into the frame, however many tags and IPv4
options come before it (`Placed`). `LocalInv`: the address of the interface is known before
there is a capture. `Decided`: the decision is the right one as long as the packet is being
handled. What remains is arithmetic. The property compares the first `bits` bits of two
addresses, the code (`payload.c` gives octets, `softgred_config.c` masks) compares octets
after a mask: `MaskAgrees` shows for every octet and every prefix length that the two agree.

Assumed are: a frame consists of bytes (`FramesAssumption`) and those that arrive are frames
(`WireAssumption`); command lines and files have a length (`ConfigAssumption`); a list has
an entry (`ListAssumption`: `str_split_next` gives one for an empty value); a slot number
has four digits at most (`BoundAssumption`); `NULL` is no text (`NullAssumption`). For
`AdmitsExactly` also: `inet_pton` gives four octets or refuses (`AddressAssumption`); the
fields a frame was made from are at the bytes where IPv4, Ethernet and 802.1Q put them
(`WireFormat`, which TLC evaluates on all frames of `GreFrame`).

### main

`MainProofs` proves, for any configuration, any number of signals, rotations, commands and
frames:

- `CommandsAreOver` (`HelperInv`: what is known of the child at each step of the wait, and
  that only a signal from outside or the deadline ends one that has changed the rules with -1);
- `LogIsKept` (`LogInv`: a log from `StartLog` on, a second descriptor only in `log_open`);
- `RotationsAreFollowed` (`FollowInv`: a rotation that was announced is pending, being
  dealt with, or has been; between `open` and `fstat` the path may change once more);
- `ParentHearsTruth` (`StartInv`: what `main` holds at each stage and what the parent can
  know; it needs `HelperInv`, since a failure is reported only when no command runs). What
  may be left of a start that failed are its bridges, and chains it could not remove.

### PID file and status API

`PidFileProofs` proves, for any number of processes and files, `AlwaysOwns` and from it
`OneAlwaysServes`. The argument never uses the lock: a serving process owns the chains.
`PidAlwaysOfOwner` and `RefusedAlwaysKeepsFile` do use it; their invariant `HoldInv` says
what a process has locked and written at each of its steps.

`ServiceProofs` proves of `Service!Spec`, for any number of connections, slots, buffer and
batch sizes (`ServiceAssumption`): `DescriptorsAreExact`, `EventsAreApplied`, `RecvHasRoom`
and `AnswersOnce`. The invariant `SInv` adds to the properties that a connection waits in
the listener or has a descriptor, not both, and that the slots of a poll are distinct, so
that closing one client does not disturb the ones poll has still to be applied to.

### Only model-checked

Liveness under fairness is out of the prover's reach: `CleanupRecovers`, `LearnsEventually`,
`StartAndStopComplete`, `ConnectionsEnd`, `ParentAnswered`, `RoundsEnd` and `TermStops`. All
other properties of the passing runs are stated by a theorem.

## What is not modelled

- The bytes of netlink messages and the socket of `link_send`: a request is one step with
  an outcome. Nor the two ways of `iface_bridge_prepare`: bridges stay when the daemon ends
  and nothing in it depends on who created them, so `Main` only knows whether it succeeded.
- `log_message`, counters and `provision_stats`, `helper_print_payload`: output, no
  decision depends on it.
- `compat.c`: string buffers, trimming, splitting. Memory that runs out aborts the process,
  which is a crash of `Main` and `Daemon`.
- Hash functions (a parameter of `HashMap`), and characters: names, paths and numbers of
  the configuration are what their readers tell apart. MACs and addresses are bytes in
  `Payload` and `Main`, model values in `Provision` and `Query`; the text in between
  (`snprintf`, `inet_pton`, `valid_mac`) is not covered.
- The dashboard and the DHCP hook. They are clients of the API that keep no state between
  requests and change none in the daemon; `Service` allows its peers everything, and
  `RoundsEnd` says that the daemon gets back to them. The deadline in `server.py` decides
  only what a page shows while the daemon is busy.
- Packaging, containers and the build.

Assumed of the outside: SIGCHLD is not ignored, so `waitpid` finds the child; the exit
status of ebtables is truthful; ebtables changes the rules in one go. In `Daemon` an
ebtables that outlives the daemon counts as one that ended just before the crash: the chain
it works on stops every new process until the administrator's repair, which is assumed to
wait for it. In `Main` it goes on alone.
