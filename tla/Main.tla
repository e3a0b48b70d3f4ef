-------------------------------- MODULE Main --------------------------------
(***************************************************************************)
(* main of softgred.c, from its arguments to its exit status, with the     *)
(* components it drives itself: the configuration (Config), the log (Log), *)
(* the capture (Payload) and the commands of the handlers (Helper), and    *)
(* with the parent process that waits for a background start.              *)
(*                                                                         *)
(* A handler of provision.c is here the number of its commands (Provision  *)
(* has the commands), service_dispatch one step (Service has the clients). *)
(* A packet that becomes "eligible" is one of a Provisionable remote with  *)
(* a VLAN of the map in Provision.                                         *)
(***************************************************************************)
EXTENDS Config, Payload, Helper, Log

CONSTANTS Address,      \* the first IPv4 address of the capture interface
          Wire(_),      \* frames peers send, given the input
          Budget(_),    \* signals, rotations, crashes and killed parents, given the input
          Commands(_),  \* most commands of one handler, given the input
          Burst         \* frames per round (64)

ASSUME WireAssumption == \A i \in Inputs : Wire(i) \subseteq Frames

\* A frame is known by the fields its sender gave it.  These are the ones of a
\* well-formed frame that say who may provision: IPv4, Ethernet and 802.1Q put them at
\* these bytes, for any number of outer tags and of IPv4 options.
ASSUME WireFormat ==
  \A x \in Frames : \A t \in 0 .. 2, words \in 5 .. 15 :
    LET ip == 14 + 4 * t
        ether == ip + 4 * words + 4
    IN  Carries(x, t, words) =>
          /\ x.src = Slice(x, ip + 12, 4) /\ x.dst = Slice(x, ip + 16, 4)
          /\ x.mac = Slice(x, ether + 6, 6) /\ x.tci % 4096 = Vid(x, ether)

Signals == {"HUP", "USR1", "USR2", "TERM"}
Resources == <<"api", "bridges", "firewall">>

VARIABLES
  local,    \* cfg->local
  held,     \* what main has set up, besides the capture: "pid" and the Resources; and
            \* "chains", those a failed iface_ebtables_init could not remove
  notify,   \* notify_fd: "none", "open", or what the parent finds: "success", "failure", "eof"
  parent,   \* the process that was started: "none", "waiting", "ok", "failed" or "gone"
  round,    \* the loop: "poll", "signals", "log", "cleanup", "packets" or "service"
  sigs,     \* pending signals
  seen,     \* POLLIN of the signal and the capture descriptor in this round
  running,
  count,    \* frames received in this round
  left,     \* commands the handler at work may still run
  spent,    \* history: of the budget
  due       \* history: a SIGHUP was sent after the last rotation, and no reopen has failed since

roundVars == <<round, seen, running, count>>
mainVars == <<local, held, notify, parent, roundVars, sigs, left>>
history == <<spent, due>>
vars == <<configVars, payloadVars, helperVars, logVars, mainVars, history>>

Quiet == [sig |-> FALSE, cap |-> FALSE]

MainInit ==
  /\ ConfigInit /\ PayloadInit /\ HelperInit /\ LogInit
  /\ local = <<>> /\ held = {} /\ notify = "none" /\ parent = "none"
  /\ round = "poll" /\ sigs = {} /\ seen = Quiet
  /\ running = TRUE /\ count = 0 /\ left = 0
  /\ spent = 0 /\ due = FALSE

Go(s) == stage' = s /\ UNCHANGED <<input, n, group, ini, cfg>>

-----------------------------------------------------------------------------
(* Start.                                                                  *)

\* geteuid and log_open.
StartLog ==
  /\ stage = "loaded"
  /\ \E ok \in BOOLEAN :
       \/ LogOpen(ok) /\ Go(IF ok THEN stage ELSE "end")
       \/ LogCheck(ok) /\ Go(IF ok THEN "logged" ELSE "end")
  /\ UNCHANGED <<payloadVars, helperVars, mainVars, history>>

local_address ==
  /\ stage = "logged"
  /\ \/ local' = Address /\ Go("addressed")
     \/ Go("end") /\ UNCHANGED local
  /\ UNCHANGED <<payloadVars, helperVars, logVars, held, notify, parent, roundVars, sigs, left, history>>

\* pipe2 and fork; the child goes on, with setsid and /dev/null.
Daemonize ==
  /\ stage = "addressed"
  /\ \/ cfg.is_foreground /\ Go("forked") /\ UNCHANGED <<notify, parent>>
     \/ ~cfg.is_foreground /\ Go("end") /\ UNCHANGED <<notify, parent>>
     \/ ~cfg.is_foreground /\ notify' = "open" /\ parent' = "waiting"
        /\ (Go("forked") \/ Go("end"))
  /\ UNCHANGED <<payloadVars, helperVars, logVars, local, held, roundVars, sigs, left, history>>

\* The PID file (PidFile), and the signals: from here on they are blocked.
TakePid ==
  /\ stage = "forked"
  /\ \/ held' = {"pid"} /\ Go("up")
     \/ held' \in {{}, {"pid"}} /\ Go("end")
  /\ UNCHANGED <<payloadVars, helperVars, logVars, local, notify, parent, roundVars, sigs, left, history>>

\* payload_loop_init; its failure ends main.
payload_loop_init ==
  /\ stage = "up"
  /\ Socket \/ Configure
  /\ Go(IF capture' = "closed" THEN "end" ELSE stage)
  /\ UNCHANGED <<helperVars, logVars, mainVars, history>>

\* service_init, the bridges, iface_ebtables_init (Daemon has its commands).
Acquire ==
  /\ stage = "up" /\ capture = "filtered"
  /\ \E k \in 1 .. 3 :
       /\ Resources[k] \notin held /\ \A j \in 1 .. k - 1 : Resources[j] \in held
       /\ \/ held' = held \cup {Resources[k]} /\ Go(stage)
          \/ Go("end") /\ UNCHANGED held
          \/ k = 3 /\ Go("end") /\ held' = held \cup {"chains"}
  /\ UNCHANGED <<payloadVars, helperVars, logVars, local, notify, parent, roundVars, sigs, left, history>>

\* Mutant of Ready: the parent is told before the firewall is there.
ReadyEarly == {"api", "bridges"} \subseteq held

Ready == {Resources[k] : k \in 1 .. 3} \subseteq held

\* The parent is told, unless it is gone (SIGPIPE is ignored); then the loop.
Notify ==
  /\ stage = "up" /\ Ready
  /\ \/ notify = "none" /\ Go("loop") /\ UNCHANGED notify
     \/ notify = "open" /\ parent # "gone" /\ notify' = "success" /\ Go("loop")
     \/ notify = "open" /\ parent = "gone" /\ Go("end") /\ UNCHANGED notify
  /\ UNCHANGED <<payloadVars, helperVars, logVars, local, held, parent, roundVars, sigs, left, history>>

Start == StartLog \/ local_address \/ Daemonize \/ TakePid \/ payload_loop_init \/ Acquire \/ Notify

-----------------------------------------------------------------------------
(* The loop.                                                               *)

\* poll returns after 250 ms at the latest, or fails.
Poll ==
  /\ stage = "loop" /\ round = "poll"
  /\ \/ /\ round' = "signals"
        /\ seen' = [sig |-> sigs # {}, cap |-> pc = "queued"]
        /\ UNCHANGED configVars
     \/ Go("end") /\ UNCHANGED <<round, seen>>
  /\ UNCHANGED <<payloadVars, helperVars, logVars, local, held, notify, parent, running, count, sigs,
                 left, history>>

\* One read of signal_fd and what the signal asks for.
ReadSignal ==
  /\ stage = "loop" /\ round = "signals" /\ seen.sig
  /\ \E s \in sigs :
       /\ sigs' = sigs \ {s}
       /\ round' = CASE s = "HUP" -> "log" [] s = "USR1" -> "cleanup" [] OTHER -> round
       /\ running' = (running /\ s # "TERM")
       /\ IF s = "USR1" THEN left' \in 0 .. Commands(input) ELSE UNCHANGED left
  /\ UNCHANGED <<configVars, payloadVars, helperVars, logVars, local, held, notify, parent, seen, count, history>>

\* log_open for SIGHUP.
Reopen ==
  /\ stage = "loop" /\ round = "log"
  /\ \E ok \in BOOLEAN :
       /\ \/ LogOpen(ok) /\ round' = IF ok THEN round ELSE "signals"
          \/ LogCheck(ok) /\ round' = "signals"
       /\ due' = IF ok THEN due ELSE "HUP" \in sigs
  /\ UNCHANGED <<configVars, payloadVars, helperVars, local, held, notify, parent, seen, running, count,
                 sigs, left, spent>>

\* A handler runs a command; whatever becomes of it, it may or may not go on.
Command ==
  /\ left > 0
  /\ Call
  /\ left' \in 0 .. left - 1
  /\ UNCHANGED <<configVars, payloadVars, logVars, local, held, notify, parent, roundVars, sigs, history>>

Idle == left = 0 /\ helper = "idle"

CleanupDone ==
  /\ stage = "loop" /\ round = "cleanup" /\ Idle
  /\ round' = "signals"
  /\ UNCHANGED <<configVars, payloadVars, helperVars, logVars, local, held, notify, parent, seen, running,
                 count, sigs, left, history>>

\* No signal is left: stop, or go on with packets.  The capture socket may report an
\* error instead.
SignalsDone ==
  /\ stage = "loop" /\ round = "signals" /\ (~seen.sig \/ sigs = {})
  /\ \/ /\ running
        /\ round' = IF seen.cap THEN "packets" ELSE "service"
        /\ UNCHANGED configVars
     \/ Go("end") /\ UNCHANGED round
  /\ UNCHANGED <<payloadVars, helperVars, logVars, local, held, notify, parent, seen, running, count, sigs,
                 left, history>>

\* Mutant of More: packets are read as long as there are any.
MoreUnbounded == pc = "queued"

\* Another round of payload_receive.
More == pc = "queued" /\ count < Burst

ReceiveOne ==
  /\ stage = "loop" /\ round = "packets" /\ More
  /\ Receive
  /\ count' = IF count < Burst THEN count + 1 ELSE count
  /\ UNCHANGED <<configVars, helperVars, logVars, local, held, notify, parent, round, seen, running, sigs,
                 left, history>>

Unicast(host) == host[1] \notin {0, 127} /\ host[1] \div 16 < 14

\* The address, allow-remotes and VLAN checks of provision_packet.
Admitted(packet) ==
  /\ packet.local = local /\ packet.remote # local
  /\ Unicast(packet.remote)
  /\ config_remote_allowed(packet.remote)
  /\ \E k \in 1 .. Len(cfg.bridge) : cfg.bridge[k].vlan_id = packet.vlan

\* An eligible packet runs commands, or none: cleanup_pending, the tables and the
\* backoff, which may stop it as well, are in Provision (Eligible).
provision_packet ==
  /\ pc = "accepted"
  /\ pc' = IF Admitted(out) THEN "eligible" ELSE "ignored"
  /\ IF Admitted(out) THEN left' \in 0 .. Commands(input) ELSE UNCHANGED left
  /\ UNCHANGED <<configVars, capture, frame, parseVars, helperVars, logVars, local, held, notify,
                 parent, roundVars, sigs, history>>

Handled ==
  /\ pc \in {"eligible", "ignored"} /\ Idle
  /\ Forgotten
  /\ UNCHANGED <<configVars, capture, helperVars, logVars, mainVars, history>>

\* The batch is full or recvfrom finds nothing; or recvfrom fails.
PacketsDone ==
  /\ stage = "loop" /\ round = "packets" /\ pc \in {"idle", "filter", "dropped", "queued"}
  /\ \/ ~More /\ round' = "service" /\ count' = 0 /\ UNCHANGED configVars
     \/ count < Burst /\ Go("end") /\ UNCHANGED <<round, count>>
  /\ UNCHANGED <<payloadVars, helperVars, logVars, local, held, notify, parent, seen, running, sigs, left,
                 history>>

service_dispatch ==
  /\ stage = "loop" /\ round = "service"
  /\ round' = "poll" /\ seen' = Quiet
  /\ UNCHANGED <<configVars, payloadVars, helperVars, logVars, local, held, notify, parent, running, count,
                 sigs, left, history>>

Packets == ReceiveOne \/ provision_packet \/ Handled \/ PacketsDone
Parsing == (Parse \/ Discard) /\ UNCHANGED <<configVars, helperVars, logVars, mainVars, history>>
Executing == HelperStep /\ UNCHANGED <<configVars, payloadVars, logVars, mainVars, history>>

Loop ==
  Poll \/ ReadSignal \/ Reopen \/ CleanupDone \/ SignalsDone \/ Packets \/ service_dispatch

-----------------------------------------------------------------------------
(* The label end of main.                                                  *)

\* The variables of the loop mean nothing any more.
LoopLeft == round' = "poll" /\ seen' = Quiet /\ running' = FALSE /\ count' = 0

\* service_end, payload_loop_end, and the commands of provision_end and
\* iface_ebtables_end.
End ==
  /\ stage = "end"
  /\ Go("ending")
  /\ capture' = "closed" /\ Forgotten
  /\ held' = held \ {"api"}
  /\ left' \in IF "firewall" \in held THEN 0 .. Commands(input) ELSE {0}
  /\ LoopLeft
  /\ UNCHANGED <<helperVars, logVars, local, notify, parent, sigs, history>>

\* The commands are done, perhaps in vain; softgred_config_remove_pid_file.  Bridges stay.
Ended ==
  /\ stage = "ending" /\ Idle
  /\ Go("report")
  /\ held' \in {held \cap {"bridges", "chains"}, held \cap {"bridges", "chains", "firewall"}}
  /\ UNCHANGED <<payloadVars, helperVars, logVars, local, notify, parent, roundVars, sigs, left, history>>

\* A parent that still waits is told of the failure.
Told(status) == IF status = "open" THEN "failure" ELSE status

Report ==
  /\ stage = "report"
  /\ notify' = Told(notify)
  /\ log_close
  /\ stage' = "exit" /\ cfg' = Fresh /\ UNCHANGED <<input, n, group, ini>>
  /\ UNCHANGED <<payloadVars, helperVars, local, held, parent, roundVars, sigs, left, history>>

-----------------------------------------------------------------------------
(* The rest of the world.                                                  *)

Spend == spent < Budget(input) /\ spent' = spent + 1

\* A signal that is pending already is not sent twice.
Send(s) ==
  /\ stage \in {"up", "loop"} /\ Spend
  /\ sigs' = sigs \cup {s}
  /\ due' = (due \/ s = "HUP")
  /\ UNCHANGED <<configVars, payloadVars, helperVars, logVars, local, held, notify, parent, roundVars, left>>

Rotates ==
  /\ Loaded /\ Spend
  /\ Rotate
  /\ due' = FALSE
  /\ UNCHANGED <<configVars, payloadVars, helperVars, mainVars>>

\* Mutant of HungUp: the parent keeps the end of the pipe it does not use.
HungUpNever(status) == status

\* What the parent finds when the daemon is gone: nobody else has the other end.
HungUp(status) == IF status = "open" THEN "eof" ELSE status

\* SIGKILL, abort, or a signal before they are blocked: the kernel closes the
\* descriptors, and a command that runs goes on.
Crash ==
  /\ Loaded /\ Spend
  /\ stage' = "dead" /\ cfg' = Fresh
  /\ notify' = HungUp(notify)
  /\ capture' = "closed" /\ Forgotten
  /\ LoopLeft /\ left' = 0 /\ sigs' = {}
  /\ log_fd' = NoFile /\ opened' = NoFile
  /\ UNCHANGED <<input, n, group, ini, helperVars, atPath, files, local, held, parent, due>>

ParentKilled ==
  /\ parent = "waiting" /\ Spend
  /\ parent' = "gone"
  /\ UNCHANGED <<configVars, payloadVars, helperVars, logVars, local, held, notify, roundVars, sigs, left, due>>

\* The read in the parent, and its exit.
Parent ==
  /\ parent = "waiting" /\ notify # "open"
  /\ parent' = IF notify = "success" THEN "ok" ELSE "failed"
  /\ UNCHANGED <<configVars, payloadVars, helperVars, logVars, local, held, notify, roundVars, sigs, left,
                 history>>

Peer ==
  /\ \E f \in Wire(input) : Arrive(f)
  /\ UNCHANGED <<configVars, helperVars, logVars, mainVars, history>>

Filtering == (Filter \/ Drop) /\ UNCHANGED <<configVars, helperVars, logVars, mainVars, history>>

\* ebtables, and the clock.
Outside == (Child \/ Expire) /\ UNCHANGED <<configVars, payloadVars, logVars, mainVars, history>>

-----------------------------------------------------------------------------
Configuring == ConfigNext /\ UNCHANGED <<payloadVars, helperVars, logVars, mainVars, history>>

\* What the daemon does when it gets the processor.
Daemon ==
  stage # "dead" /\ (Configuring \/ Start \/ Loop \/ Command \/ Parsing \/ Executing \/ End \/ Ended \/ Report)

MainNext ==
  \/ Daemon
  \/ Filtering \/ Peer \/ Parent \/ Outside
  \/ \E s \in Signals : Send(s)
  \/ Rotates \/ Crash \/ ParentKilled

MainSpec == MainInit /\ [][MainNext]_vars

\* The processes run and time passes; peers may keep quiet or send without end, a
\* command may hang for ever.  Signals are few (Budget): main reads them until there
\* are none.
MainFairSpec ==
  /\ MainSpec
  /\ WF_vars(Daemon) /\ WF_vars(Parent)
  /\ WF_vars(Filtering)
  /\ WF_vars(Expire /\ UNCHANGED <<configVars, payloadVars, logVars, mainVars, history>>)

-----------------------------------------------------------------------------
(* Properties.                                                             *)

BitOf(a, k) == (a[(k - 1) \div 8 + 1] \div 2 ^ (7 - ((k - 1) % 8))) % 2

\* Address a lies in the network an entry of the file names.
InNetwork(a, e) == \A k \in 1 .. e.bits : BitOf(a, k) = BitOf(e.addr, k)

\* What the sender put into the frame, and what the administrator wrote, make this
\* packet one that may provision.
Entitled(x) ==
  LET list == Given("global", "allow-remotes")
      map == Given("global", "bridge-map")
  IN  /\ x.dst = Address /\ x.src # Address
      /\ x.src[1] \notin {0, 127} \cup 224 .. 255
      /\ list # Null => \E k \in 1 .. Len(list) : InNetwork(x.src, list[k])
      /\ \E k \in 1 .. Len(map) : map[k].vlan = x.tci % 4096

\* Provisioning is open to exactly the packets the configuration file admits: every
\* offset, prefix mask and comparison between the text of the file and the
\* frame on the wire is right together.
AdmissionExact ==
  /\ pc = "eligible" =>
       /\ WellFormed(frame) /\ Entitled(frame)
       /\ out = [remote |-> frame.src, local |-> frame.dst,
                 mac |-> frame.mac, vlan |-> frame.tci % 4096]
  /\ pc \in {"ignored", "rejected"} => ~(WellFormed(frame) /\ Entitled(frame))

\* "Background startup reports success only after capture, API, bridges and firewall
\* are ready" (configuration.md), and failure only of a daemon that will not serve and
\* holds nothing but its bridges, and chains without jumps that a failed start could
\* not remove again, unless it died.
ParentToldTruth ==
  /\ parent = "ok" /\ stage # "dead" => stage \in {"loop", "end", "ending", "report", "exit"}
  /\ notify = "success" /\ stage = "loop" => capture = "filtered" /\ held = {"pid", "api", "bridges", "firewall"}
  /\ parent = "failed" => stage \in {"exit", "dead"}
  /\ notify = "failure" => /\ "pid" \notin held /\ "api" \notin held /\ capture = "closed"
                           /\ child = "none" /\ ("firewall" \in held => parent = "gone")

\* The command that starts the daemon comes back, however the start ends.
ParentAnswered == parent = "waiting" ~> parent # "waiting"

\* "A failed reopen keeps the previous descriptor" (configuration.md): a running daemon
\* always has a log, and between two rounds no other descriptor.
LogKept == stage = "loop" => log_fd > 0 /\ (round = "poll" => opened = NoFile)

\* A rotation followed by SIGHUP is not lost, though signals merge and the file may be
\* rotated again while it is reopened: once no SIGHUP is pending, the log is the file at
\* the path, or that one could not be used.
LogFollows == stage = "loop" /\ round = "poll" /\ due /\ "HUP" \notin sigs => log_fd = atPath

\* "Bounded batches keep the status API and signal handling responsive" (payload.c:131):
\* every round comes back to poll although commands hang and peers never stop sending.
RoundsEnd == stage = "loop" /\ round # "poll" ~> round = "poll" \/ stage # "loop"

\* SIGTERM ends the daemon, whatever else it is asked to do.
TermStops == stage = "loop" /\ "TERM" \in sigs ~> stage \in {"exit", "dead"}

=============================================================================
