------------------------------- MODULE Daemon -------------------------------
(***************************************************************************)
(* The life of the daemon around Provision: main of softgred.c with        *)
(* iface_ebtables_init and iface_ebtables_end, a crash at any instant, the *)
(* restart by systemd and the administrator's repair after a crash.        *)
(*                                                                         *)
(* phase is where main is: "down" (no process), "starting", "running" (the *)
(* loop), "stopping" (the loop is left, signals read together with the     *)
(* stopping one are still handled), "ending" (the cleanup at label end).   *)
(***************************************************************************)
EXTENDS Provision

VARIABLES
  left,    \* the chains the current line of iface_ebtables_end has not visited
  mine,    \* history: the chains this process has created
  ended    \* history: iface_ebtables_end has begun on chains that remain

allVars == <<vars, left, mine, ended>>
ghosts == <<left, mine, ended>>

\* A clean host, no process.
DaemonInit ==
  /\ KernelInit
  /\ chains = {}
  /\ defaults = {}
  /\ TablesInit
  /\ phase = "down"
  /\ pc = "down"
  /\ left = {}
  /\ mine = {}
  /\ ended = FALSE

\* Memory of a process that is gone, or of one that has just begun.
Forget ==
  /\ tunnels' = {} /\ slots' = {}
  /\ id' = [r \in Remotes |-> 0]
  /\ ready' = [r \in Remotes |-> FALSE]
  /\ hooks' = [r \in Remotes |-> {}]
  /\ macs' = [r \in Remotes |-> {}]
  /\ macIndex' = [m \in Macs |-> None]
  /\ cleanupPending' = FALSE /\ backoff' = FALSE
  /\ errno' = "0" /\ i' = 0
  /\ again' = FALSE /\ slow' = FALSE /\ failed' = FALSE
  /\ ok' = TRUE /\ todo' = {}
  /\ UNCHANGED <<cur, mac>>

Exit == phase' = "down" /\ pc' = "down" /\ mine' = {}

-----------------------------------------------------------------------------
(* Start: main up to the loop, from iface_ebtables_init on.                *)

Start ==
  /\ phase = "down"
  /\ phase' = "starting"
  /\ pc' = "new_in"
  /\ UNCHANGED <<kernelVars, tableVars, backoff, errno, i, packetVars, cleanVars, ghosts>>

\* Mutant of NewIn: a refused start cleans up.
NewInCleansUp(o) ==
  /\ pc = "new_in"
  /\ ChainNew("IN", o)
  /\ IF Ok(o)
     THEN pc' = "new_out" /\ mine' = mine \cup {"IN"} /\ UNCHANGED left
     ELSE pc' = "end_flush" /\ left' = Chains /\ UNCHANGED mine
  /\ UNCHANGED <<tableVars, backoff, errno, phase, i, packetVars, cleanVars, ended>>

\* The first chain: if it exists, or cannot be made, the start is given up.
NewIn(o) ==
  /\ pc = "new_in"
  /\ ChainNew("IN", o)
  /\ IF Ok(o)
     THEN pc' = "new_out" /\ mine' = mine \cup {"IN"} /\ UNCHANGED phase
     ELSE Exit
  /\ UNCHANGED <<tableVars, backoff, errno, i, packetVars, cleanVars, left, ended>>

NewOut(o) ==
  /\ pc = "new_out"
  /\ ChainNew("OUT", o)
  /\ IF Ok(o)
     THEN pc' = "defaults" /\ i' = 1 /\ mine' = mine \cup {"OUT"}
     ELSE pc' = "new_undo" /\ UNCHANGED <<i, mine>>
  /\ UNCHANGED <<tableVars, backoff, errno, phase, packetVars, cleanVars, left, ended>>

NewUndo(o) ==
  /\ pc = "new_undo"
  /\ ChainDelete("IN", o)
  /\ Exit
  /\ UNCHANGED <<tableVars, backoff, errno, i, packetVars, cleanVars, left, ended>>

\* chain_defaults of iface_ebtables_init.  After it the loop is entered, unless
\* the parent cannot be told (write to notify_fd fails).
InitDefaults(o) ==
  /\ pc = "defaults" /\ phase = "starting"
  /\ DefaultAppend(i, o)
  /\ IF ~Ok(o)
     THEN /\ pc' = "end_flush" /\ left' = Chains /\ i' = 0
          /\ ended' = TRUE
          /\ UNCHANGED phase
     ELSE IF i < 3
     THEN i' = i + 1 /\ UNCHANGED <<phase, pc, left, ended>>
     ELSE /\ phase' \in {"running", "stopping"}
          /\ pc' = "idle" /\ i' = 0 /\ ended' = FALSE
          /\ UNCHANGED left
  /\ UNCHANGED <<tableVars, backoff, errno, packetVars, cleanVars, mine>>

-----------------------------------------------------------------------------
(* Stop: the label end of main.                                            *)

\* SIGINT, SIGTERM, or the capture socket or poll fails.
Stop ==
  /\ phase = "running" /\ pc = "idle"
  /\ phase' = "stopping"
  /\ UNCHANGED <<kernelVars, tableVars, backoff, errno, pc, i, packetVars, cleanVars, ghosts>>

\* provision_end calls provision_delall a last time.
ProvisionEnd ==
  /\ phase = "stopping" /\ pc = "idle"
  /\ phase' = "ending"
  /\ cleanupPending' = TRUE
  /\ ok' = TRUE
  /\ todo' = tunnels
  /\ pc' = "delall"
  /\ UNCHANGED <<kernelVars, tunnels, id, ready, hooks, macs, macIndex, slots, backoff, errno, i,
                 packetVars, ghosts>>

\* ... and frees the tables, complete or not; then iface_ebtables_end.
EndTables ==
  /\ pc = "end"
  /\ Forget
  /\ pc' = "end_flush"
  /\ left' = Chains
  /\ ended' = TRUE
  /\ UNCHANGED <<kernelVars, phase, mine>>

\* Both chains are flushed whatever happens, in the order the compiler chose for
\* the operands of |.
EndFlush(o) ==
  /\ pc = "end_flush"
  /\ \E c \in left :
       /\ ChainFlush(c, o)
       /\ left' = IF left = {c} THEN Chains ELSE left \ {c}
       /\ pc' = IF left = {c} THEN "end_del" ELSE pc
  /\ UNCHANGED <<tableVars, backoff, errno, phase, i, packetVars, cleanVars, mine, ended>>

\* Mutant of EndDelete: a chain that cannot be deleted is tried again.
EndDeleteRetries(o) ==
  /\ pc = "end_del"
  /\ \E c \in left :
       /\ ChainDelete(c, o)
       /\ left' = IF Ok(o) THEN left \ {c} ELSE left
       /\ IF left' = {} THEN Exit ELSE UNCHANGED <<phase, pc, mine>>
  /\ UNCHANGED <<tableVars, backoff, errno, i, packetVars, cleanVars, ended>>

\* Both chains are deleted, as far as that is possible.
EndDelete(o) ==
  /\ pc = "end_del"
  /\ \E c \in left :
       /\ ChainDelete(c, o)
       /\ left' = left \ {c}
       /\ IF left = {c} THEN Exit ELSE UNCHANGED <<phase, pc, mine>>
  /\ UNCHANGED <<tableVars, backoff, errno, i, packetVars, cleanVars, ended>>

-----------------------------------------------------------------------------
(* Crash and repair.                                                       *)

\* SIGKILL, or abort() when memory is exhausted: the kernel state stays.  An ebtables
\* the daemon has started goes on; that is the same as its command just before the
\* crash, since until the repair, which waits for it, the chain it works on is there and
\* a new process is refused.
Crash ==
  /\ phase # "down"
  /\ Exit
  /\ Forget
  /\ left' = {}
  /\ UNCHANGED <<kernelVars, ended>>

\* The administrator removes what a dead daemon left behind.
Repair ==
  /\ phase = "down"
  /\ chains # {}
  /\ link' = [s \in Slots |-> IF link[s] = Foreign THEN Foreign ELSE Absent]
  /\ bridged' = [s \in Slots |-> {}]
  /\ jumps' = [s \in Slots |-> [h \in Hooks |-> 0]]
  /\ acceptIn' = NoAccepts /\ acceptOut' = NoAccepts
  /\ defaults' = {} /\ chains' = {} /\ missed' = {}
  /\ ended' = FALSE
  /\ UNCHANGED <<faults, admin, daemonVars, left, mine>>

-----------------------------------------------------------------------------
StartCommand(o) == NewIn(o) \/ NewOut(o) \/ NewUndo(o) \/ InitDefaults(o)
EndCommand(o) == EndFlush(o) \/ EndDelete(o)

\* main goes on outside its loop.
MainStep == EndTables \/ \E o \in Outcome : StartCommand(o) \/ EndCommand(o)

DaemonNext ==
  \/ Next /\ UNCHANGED ghosts
  \/ Start \/ Stop \/ ProvisionEnd
  \/ MainStep
  \/ Crash \/ Repair

DaemonSpec == DaemonInit /\ [][DaemonNext]_allVars

\* The process runs when it can, and reads its signals to the end: SIGUSR1 is not
\* sent faster than it is handled.
DaemonFairSpec ==
  /\ DaemonSpec
  /\ WF_allVars(Work /\ UNCHANGED ghosts)
  /\ WF_allVars(MainStep)
  /\ SF_allVars(ProvisionEnd)

-----------------------------------------------------------------------------
(* Properties.                                                             *)

\* A crash at any instant, even in the middle of provisioning or cleanup, leaves
\* every bridged tunnel behind its jumps and DROP rules, and so it stays until the
\* administrator's repair: a later start cannot open it.  (Shutdown may: see
\* FilterBeforeBridge under this specification; but even a failed one takes no jump
\* away from a tunnel that is still bridged.  A tunnel whose deletion failed unnoticed
\* has lost its jumps before: see BridgedIsFiltered.)
FilterSurvivesCrash ==
  /\ ended \/ FilterBeforeBridge
  /\ \A s \in Slots \ missed : bridged[s] # {} => \A h \in Hooks : jumps[s][h] > 0

\* A daemon that has reached its loop owns everything of softgred's in the kernel:
\* links and jumps left by an earlier process, crashed or badly shut down, keep it
\* from starting.  Only a link whose deletion failed unnoticed is nobody's.
NothingInherited ==
  phase \in {"running", "stopping"} =>
     /\ chains = Chains
     /\ HookBitsExact
     /\ \A s \in Slots \ missed : link[s] \in Remotes => link[s] \in tunnels /\ id[link[s]] = s

\* A process never flushes or deletes a chain it did not create ("Startup refuses
\* preexisting owned chain names", architecture.md): a refused second start leaves
\* the rules as they are.
OnlyOwnChains ==
  [][phase # "down" =>
       \A c \in chains \ mine :
          /\ c \in chains'
          /\ defaults \cap RulesOf(c) \subseteq defaults'
          /\ IF c = "IN" THEN acceptIn' = acceptIn ELSE acceptOut' = acceptOut]_allVars

\* A stopping daemon exits, and a starting one gets to its loop or exits: no step
\* of the startup or of the cleanup waits for something that may not come.
StartAndStopComplete ==
  /\ phase = "stopping" ~> phase = "down"
  /\ phase = "starting" ~> phase \in {"running", "stopping", "down"}

=============================================================================
