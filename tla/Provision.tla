------------------------------ MODULE Provision ------------------------------
(***************************************************************************)
(* provision.c with the tunnel operations of iface_ebtables.c: what one    *)
(* captured packet, and one SIGUSR1, make the daemon do.                   *)
(*                                                                         *)
(* The daemon is single threaded, but each of its commands is seen by the  *)
(* bridge, and the administrator and the clock move between any two of     *)
(* them; so each handler is cut at its commands.  pc is the next command,  *)
(* "idle" the main loop.  The fields of struct tunnel_context are          *)
(* functions on Remotes, meaningful for the remotes in tunnels.            *)
(***************************************************************************)
EXTENDS Kernel

CONSTANTS Provisionable,  \* remotes that pass the address checks and allow= list
          MaxClients,     \* PROVISION_MAX_CLIENTS
          None            \* no owner

ASSUME ProvisionAssumption ==
  /\ Provisionable \subseteq Remotes
  /\ MaxClients \in Nat
  /\ None \notin Remotes

VARIABLES
  tunnels,         \* keys of the table tunnels
  id, ready, hooks, macs,   \* tun->id, ->ready, ->firewall_hooks, ->macs
  macIndex,        \* mac_index
  slots,           \* the ids with slots[id]
  cleanupPending,  \* cleanup_pending
  backoff,         \* now < retry_after
  errno,           \* "0", "ENOSPC" or "other"
  phase,           \* where main is: see Daemon; "running" here
  pc,
  cur, mac,        \* remote and MAC address being worked on
  i,               \* loop counter of slots, hooks[], bridges or default rules
  again,           \* provision_del was called to start over (line 73)
  ok, todo,        \* provision_delall: result so far, tunnels not visited yet
  slow,            \* a second has passed since now was read (line 186)
  failed           \* history: a command failed while handling this packet

tableVars == <<tunnels, id, ready, hooks, macs, macIndex, slots, cleanupPending>>
packetVars == <<cur, mac, again, slow, failed>>
cleanVars == <<ok, todo>>
daemonVars == <<tableVars, backoff, errno, phase, pc, i, packetVars, cleanVars>>
vars == <<kernelVars, daemonVars>>

Steps == {"idle", "scan", "gre_add", "hook", "vlan_add", "vlan_master", "allow",
          "allow_in", "allow_out", "allow_undo", "del", "revoke", "unhook", "reject",
          "delall", "delall_del", "flush_in", "flush_out", "defaults"}

TablesTypeOK ==
  /\ tunnels \in SUBSET Remotes
  /\ id \in [Remotes -> Slots]
  /\ ready \in [Remotes -> BOOLEAN]
  /\ hooks \in [Remotes -> SUBSET Hooks]
  /\ macs \in [Remotes -> SUBSET Macs]
  /\ macIndex \in [Macs -> Remotes \cup {None}]
  /\ slots \in SUBSET Slots
  /\ cleanupPending \in BOOLEAN
  /\ backoff \in BOOLEAN
  /\ errno \in {"0", "ENOSPC", "other"}
  /\ cur \in Remotes
  /\ mac \in Macs
  /\ i \in Nat
  /\ again \in BOOLEAN
  /\ ok \in BOOLEAN
  /\ todo \in SUBSET Remotes
  /\ slow \in BOOLEAN
  /\ failed \in BOOLEAN

\* The phases in which the tables are in use: see Daemon.
LoopPhases == {"running", "stopping", "ending"}

TypeOK ==
  /\ KernelTypeOK
  /\ TablesTypeOK
  /\ phase \in LoopPhases
  /\ pc \in Steps \cup {"end"}

\* provision_init, and the values of variables nothing reads yet.
TablesInit ==
  /\ tunnels = {}
  /\ id = [r \in Remotes |-> 0]
  /\ ready = [r \in Remotes |-> FALSE]
  /\ hooks = [r \in Remotes |-> {}]
  /\ macs = [r \in Remotes |-> {}]
  /\ macIndex = [m \in Macs |-> None]
  /\ slots = {}
  /\ cleanupPending = FALSE
  /\ backoff = FALSE
  /\ errno = "0"
  /\ i = 0
  /\ cur \in Remotes
  /\ mac \in Macs
  /\ again = FALSE
  /\ slow = FALSE
  /\ failed = FALSE
  /\ ok = TRUE
  /\ todo = {}

\* The main loop has just been entered: the chains and their defaults exist.
Init ==
  /\ KernelInit
  /\ chains = Chains
  /\ defaults = DefaultRules
  /\ TablesInit
  /\ phase = "running"
  /\ pc = "idle"

-----------------------------------------------------------------------------
(* provision_packet.                                                       *)

\* Mutant of Eligible: discovery goes on after an incomplete cleanup.
EligibleUnpaused(r, m, v) ==
  /\ r \in Provisionable
  /\ v \in Vlans
  /\ ~(r \in tunnels /\ m \in macs[r])
  /\ macIndex[m] = None
  /\ ~backoff

\* The checks before any work.  A packet that fails one is only counted; v = 0 is
\* a VLAN outside the map.
Eligible(r, m, v) ==
  /\ ~cleanupPending
  /\ r \in Provisionable
  /\ v \in Vlans
  /\ ~(r \in tunnels /\ m \in macs[r])
  /\ macIndex[m] = None
  /\ ~backoff

\* Up to the first command or capacity check.
Packet(r, m, v) ==
  /\ phase = "running" /\ pc = "idle"
  /\ Eligible(r, m, v)
  /\ errno' = "0"
  /\ cur' = r /\ mac' = m
  /\ slow' = FALSE /\ failed' = FALSE
  /\ again' = (r \in tunnels /\ ~ready[r])
  /\ pc' = IF r \notin tunnels THEN "scan" ELSE IF ready[r] THEN "allow" ELSE "del"
  /\ i' = 0
  /\ UNCHANGED <<kernelVars, tableVars, backoff, phase, cleanVars>>

\* The packet was not accepted: a capacity limit drops it, anything else arms
\* the backoff, counted from the time read before the work began.
Reject ==
  /\ pc = "reject"
  /\ backoff' = IF errno = "ENOSPC" THEN backoff ELSE ~slow
  /\ pc' = "idle"
  /\ UNCHANGED <<kernelVars, tableVars, errno, phase, i, packetVars, cleanVars>>

\* One second passes: retry_after expires, or the packet at work becomes old.
SecondPasses ==
  /\ phase = "running"
  /\ backoff \/ (~slow /\ pc # "idle" /\ ~cleanupPending)
  /\ backoff' = FALSE
  /\ slow' = (pc # "idle" /\ ~cleanupPending)
  /\ UNCHANGED <<kernelVars, tableVars, errno, phase, pc, i, cur, mac, again, failed, cleanVars>>

-----------------------------------------------------------------------------
(* provision_add.                                                          *)

\* One round of the search for a free slot with a free interface name.
Scan ==
  /\ pc = "scan"
  /\ \/ /\ i = NSlots
        /\ errno' = "ENOSPC"
        /\ pc' = "reject"
        /\ UNCHANGED i
     \/ /\ i < NSlots
        /\ i \in slots \/ link[i] # Absent
        /\ i' = i + 1
        /\ UNCHANGED <<errno, pc>>
     \/ /\ i < NSlots
        /\ i \notin slots /\ link[i] = Absent
        /\ pc' = "gre_add"
        /\ UNCHANGED <<errno, i>>
  /\ UNCHANGED <<kernelVars, tableVars, backoff, phase, packetVars, cleanVars>>

\* The same when if_nametoindex fails: a name in use is taken for a free one.
ScanOverlooks ==
  /\ pc = "scan" /\ i < NSlots /\ i \notin slots
  /\ Overlooked(i)
  /\ pc' = "gre_add"
  /\ UNCHANGED <<link, bridged, jumps, acceptIn, acceptOut, defaults, chains, missed, admin>>
  /\ UNCHANGED <<tableVars, backoff, errno, phase, i, packetVars, cleanVars>>

\* What a failed command leaves in errno: link_send always sets it, helper_exec
\* only when fork or waitpid fails.
ErrnoLink(o) == errno' = IF Ok(o) THEN errno ELSE "other"
ErrnoHelper(o) == IF Ok(o) THEN errno' = errno ELSE errno' \in {errno, "other"}
Failed(o) == failed' = (failed \/ ~Ok(o))

\* The new tunnel is tracked.
Track(s) ==
  /\ tunnels' = tunnels \cup {cur}
  /\ slots' = slots \cup {s}
  /\ id' = [id EXCEPT ![cur] = s]
  /\ ready' = [ready EXCEPT ![cur] = FALSE]
  /\ hooks' = [hooks EXCEPT ![cur] = {}]
  /\ macs' = [macs EXCEPT ![cur] = {}]

\* iface_gre_add; the tunnel is tracked at once, before the rest of its setup.
AddLink(o) ==
  /\ pc = "gre_add"
  /\ GreAdd(i, cur, o)
  /\ ErrnoLink(o) /\ Failed(o)
  /\ IF Ok(o)
     THEN Track(i) /\ pc' = "hook" /\ i' = 1
     ELSE pc' = "reject" /\ UNCHANGED <<tunnels, slots, id, ready, hooks, macs, i>>
  /\ UNCHANGED <<macIndex, cleanupPending, backoff, phase, cur, mac, again, slow, cleanVars>>

\* The bit of firewall_hooks for hook h.
Bit(h) == {h}

\* One round of iface_ebtables_add_tunnel; a failure rolls back.
AddHook(o) ==
  /\ pc = "hook"
  /\ JumpInsert(id[cur], i, o)
  /\ ErrnoHelper(o) /\ Failed(o)
  /\ hooks' = IF Ok(o) THEN [hooks EXCEPT ![cur] = @ \cup Bit(i)] ELSE hooks
  /\ pc' = IF ~Ok(o) THEN "del" ELSE IF i = 3 THEN "vlan_add" ELSE "hook"
  /\ i' = IF ~Ok(o) THEN i ELSE IF i = 3 THEN 1 ELSE i + 1
  /\ again' = FALSE
  /\ UNCHANGED <<tunnels, id, ready, macs, macIndex, slots, cleanupPending, backoff, phase,
                 cur, mac, slow, cleanVars>>

\* iface_bridge_attach, first request.
AttachVlan(o) ==
  /\ pc = "vlan_add"
  /\ VlanAdd(id[cur], o)
  /\ ErrnoLink(o) /\ Failed(o)
  /\ pc' = IF Ok(o) THEN "vlan_master" ELSE "del"
  /\ UNCHANGED <<tableVars, backoff, phase, i, cur, mac, again, slow, cleanVars>>

\* iface_bridge_attach, second request; after the last VLAN the tunnel is ready.
AttachMaster(o) ==
  /\ pc = "vlan_master"
  /\ VlanMaster(id[cur], i, o)
  /\ ErrnoLink(o) /\ Failed(o)
  /\ ready' = IF Ok(o) /\ i = NVlans THEN [ready EXCEPT ![cur] = TRUE] ELSE ready
  /\ pc' = IF ~Ok(o) THEN "del" ELSE IF i = NVlans THEN "allow" ELSE "vlan_add"
  /\ i' = IF Ok(o) /\ i # NVlans THEN i + 1 ELSE i
  /\ UNCHANGED <<tunnels, id, hooks, macs, macIndex, slots, cleanupPending, backoff, phase,
                 cur, mac, again, slow, cleanVars>>

-----------------------------------------------------------------------------
(* provision_tunnel_allow_mac and iface_ebtables_allow.                    *)

\* Mutant of AllowCheck: a full tunnel is reported without ENOSPC.
AllowCheckNoErrno ==
  /\ pc = "allow"
  /\ pc' = IF Cardinality(macs[cur]) >= MaxClients \/ macIndex[mac] # None
           THEN "reject" ELSE "allow_in"
  /\ UNCHANGED <<kernelVars, tableVars, backoff, errno, phase, i, packetVars, cleanVars>>

\* PROVISION_MAX_CLIENTS and the owner of the MAC are looked at first.
AllowCheck ==
  /\ pc = "allow"
  /\ IF Cardinality(macs[cur]) >= MaxClients
     THEN errno' = "ENOSPC" /\ pc' = "reject"
     ELSE /\ pc' = IF macIndex[mac] # None THEN "reject" ELSE "allow_in"
          /\ UNCHANGED errno
  /\ UNCHANGED <<kernelVars, tableVars, backoff, phase, i, packetVars, cleanVars>>

\* Mutant of AllowIn: a failure goes unnoticed.
AllowInUnchecked(o) ==
  /\ pc = "allow_in"
  /\ AcceptInInsert(id[cur], mac, o)
  /\ ErrnoHelper(o) /\ Failed(o)
  /\ pc' = "allow_out"
  /\ UNCHANGED <<tableVars, backoff, phase, i, cur, mac, again, slow, cleanVars>>

\* iface_ebtables_allow, inbound rule.
AllowIn(o) ==
  /\ pc = "allow_in"
  /\ AcceptInInsert(id[cur], mac, o)
  /\ ErrnoHelper(o) /\ Failed(o)
  /\ pc' = IF Ok(o) THEN "allow_out" ELSE "reject"
  /\ UNCHANGED <<tableVars, backoff, phase, i, cur, mac, again, slow, cleanVars>>

\* Mutant of AllowOut: the client is not entered in mac_index.
AllowOutUnindexed(o) ==
  /\ pc = "allow_out"
  /\ AcceptOutInsert(id[cur], mac, o)
  /\ ErrnoHelper(o) /\ Failed(o)
  /\ pc' = IF Ok(o) THEN "idle" ELSE "allow_undo"
  /\ macs' = IF Ok(o) THEN [macs EXCEPT ![cur] = @ \cup {mac}] ELSE macs
  /\ UNCHANGED <<tunnels, id, ready, hooks, macIndex, slots, cleanupPending, backoff, phase, i,
                 cur, mac, again, slow, cleanVars>>

\* The MAC is recorded only when both permissions are in place.
AllowOut(o) ==
  /\ pc = "allow_out"
  /\ AcceptOutInsert(id[cur], mac, o)
  /\ ErrnoHelper(o) /\ Failed(o)
  /\ pc' = IF Ok(o) THEN "idle" ELSE "allow_undo"
  /\ macs' = IF Ok(o) THEN [macs EXCEPT ![cur] = @ \cup {mac}] ELSE macs
  /\ macIndex' = IF Ok(o) THEN [macIndex EXCEPT ![mac] = cur] ELSE macIndex
  /\ UNCHANGED <<tunnels, id, ready, hooks, slots, cleanupPending, backoff, phase, i,
                 cur, mac, again, slow, cleanVars>>

\* Mutant of AllowUndo: the inbound permission stays.
AllowUndoSkipped(o) ==
  /\ pc = "allow_undo" /\ Ok(o)
  /\ pc' = "reject"
  /\ UNCHANGED <<kernelVars, tableVars, backoff, errno, phase, i, packetVars, cleanVars>>

\* The inbound permission is taken back; the outcome is not looked at.
AllowUndo(o) ==
  /\ pc = "allow_undo"
  /\ AcceptInDelete(id[cur], mac, o)
  /\ ErrnoHelper(o) /\ Failed(o)
  /\ pc' = "reject"
  /\ UNCHANGED <<tableVars, backoff, phase, i, cur, mac, again, slow, cleanVars>>

-----------------------------------------------------------------------------
(* provision_del.                                                          *)

\* The link goes first; ENODEV, "refused" or "missed", is as good.  What follows
\* a non-empty tun->macs is the revocation loop, which RevokeUnreachable shows
\* is never entered: "revoke" has no successor.
DelLink(o) ==
  /\ pc = "del"
  /\ GreDel(id[cur], o)
  /\ ErrnoLink(o)
  /\ failed' = (failed \/ Fault(o))
  /\ pc' = IF Fault(o) THEN "reject"
           ELSE IF macs[cur] # {} THEN "revoke" ELSE "unhook"
  /\ i' = 1
  /\ UNCHANGED <<tableVars, backoff, phase, cur, mac, again, slow, cleanVars>>

\* Mutant of Unhook: the bit stays set although the jump is gone.
UnhookKeepsBit(o) ==
  /\ pc = "unhook" /\ i \in hooks[cur]
  /\ JumpDelete(id[cur], i, o)
  /\ ErrnoHelper(o) /\ Failed(o)
  /\ i' = i + 1
  /\ UNCHANGED <<tableVars, backoff, phase, pc, cur, mac, again, slow, cleanVars>>

\* One round of iface_ebtables_del_tunnel, for provision_del and
\* provision_delall: a bit is cleared when its jump is known to be gone.
Unhook(o) ==
  /\ pc = "unhook" /\ i \in hooks[cur]
  /\ JumpDelete(id[cur], i, o)
  /\ ErrnoHelper(o) /\ Failed(o)
  /\ hooks' = IF Ok(o) THEN [hooks EXCEPT ![cur] = @ \ Bit(i)] ELSE hooks
  /\ i' = i + 1
  /\ UNCHANGED <<tunnels, id, ready, macs, macIndex, slots, cleanupPending, backoff, phase, pc,
                 cur, mac, again, slow, cleanVars>>

\* ... and for a jump that was never installed.
UnhookSkip ==
  /\ pc = "unhook" /\ i \in Hooks \ hooks[cur]
  /\ i' = i + 1
  /\ UNCHANGED <<kernelVars, tableVars, backoff, errno, phase, pc, packetVars, cleanVars>>

\* Mutant of Release: the slot is not given back.
ReleaseLeaks(r) ==
  /\ tunnels' = tunnels \ {r}
  /\ id' = [id EXCEPT ![r] = 0]
  /\ UNCHANGED slots

\* The slot is free again and the tunnel forgotten.
Release(r) ==
  /\ slots' = slots \ {id[r]}
  /\ tunnels' = tunnels \ {r}
  /\ id' = [id EXCEPT ![r] = 0]

\* Mutant of DelDone: the tunnel is forgotten although jumps are left.
DelDoneForgets ==
  /\ pc = "unhook" /\ i \notin Hooks /\ ~cleanupPending
  /\ Release(cur) /\ pc' = IF again THEN "scan" ELSE "reject"
  /\ i' = 0
  /\ UNCHANGED <<kernelVars, ready, hooks, macs, macIndex, cleanupPending, backoff, errno,
                 phase, packetVars, cleanVars>>

\* The end of provision_del: the record goes only when every jump is gone.
DelDone ==
  /\ pc = "unhook" /\ i \notin Hooks /\ ~cleanupPending
  /\ IF hooks[cur] = {}
     THEN Release(cur) /\ pc' = IF again THEN "scan" ELSE "reject"
     ELSE pc' = "reject" /\ UNCHANGED <<tunnels, slots, id>>
  /\ i' = 0
  /\ UNCHANGED <<kernelVars, ready, hooks, macs, macIndex, cleanupPending, backoff, errno,
                 phase, packetVars, cleanVars>>

-----------------------------------------------------------------------------
(* provision_delall.                                                       *)

\* SIGUSR1; signals that arrive with the one that stops the daemon count too.
Sigusr1 ==
  /\ phase \in {"running", "stopping"} /\ pc = "idle"
  /\ cleanupPending' = TRUE
  /\ ok' = TRUE
  /\ todo' = tunnels
  /\ pc' = "delall"
  /\ UNCHANGED <<kernelVars, tunnels, id, ready, hooks, macs, macIndex, slots, backoff, errno,
                 phase, i, packetVars>>

\* Where provision_delall returns to.
Return == IF phase = "ending" THEN "end" ELSE "idle"

\* The next tunnel of the table, in any order.
DelallNext ==
  /\ pc = "delall"
  /\ \E r \in todo :
       /\ cur' = r
       /\ todo' = todo \ {r}
       /\ ready' = [ready EXCEPT ![r] = FALSE]
       /\ pc' = "delall_del"
  /\ UNCHANGED <<kernelVars, tunnels, id, hooks, macs, macIndex, slots, cleanupPending, backoff,
                 errno, phase, i, mac, again, slow, failed, ok>>

\* Mutant of DelallLink: the jumps go even if the link could not be deleted.
DelallLinkIgnored(o) ==
  /\ pc = "delall_del"
  /\ GreDel(id[cur], o)
  /\ ErrnoLink(o)
  /\ ok' = (ok /\ ~Fault(o))
  /\ pc' = "unhook"
  /\ i' = 1
  /\ UNCHANGED <<tableVars, backoff, phase, packetVars, todo>>

\* Its link goes; a tunnel whose link stays is left alone.
DelallLink(o) ==
  /\ pc = "delall_del"
  /\ GreDel(id[cur], o)
  /\ ErrnoLink(o)
  /\ ok' = (ok /\ ~Fault(o))
  /\ pc' = IF Fault(o) THEN "delall" ELSE "unhook"
  /\ i' = 1
  /\ UNCHANGED <<tableVars, backoff, phase, packetVars, todo>>

DelallUnhooked ==
  /\ pc = "unhook" /\ i \notin Hooks /\ cleanupPending
  /\ ok' = (ok /\ hooks[cur] = {})
  /\ pc' = "delall"
  /\ UNCHANGED <<kernelVars, tableVars, backoff, errno, phase, i, packetVars, todo>>

\* Every tunnel was visited: reset the chains, or give up.
DelallVisited ==
  /\ pc = "delall" /\ todo = {}
  /\ pc' = IF ok THEN "flush_in" ELSE Return
  /\ UNCHANGED <<kernelVars, tableVars, backoff, errno, phase, i, packetVars, cleanVars>>

\* iface_ebtables_reset
FlushIn(o) ==
  /\ pc = "flush_in"
  /\ ChainFlush("IN", o)
  /\ ErrnoHelper(o)
  /\ pc' = IF Ok(o) THEN "flush_out" ELSE Return
  /\ UNCHANGED <<tableVars, backoff, phase, i, packetVars, cleanVars>>

FlushOut(o) ==
  /\ pc = "flush_out"
  /\ ChainFlush("OUT", o)
  /\ ErrnoHelper(o)
  /\ pc' = IF Ok(o) THEN "defaults" ELSE Return
  /\ i' = 1
  /\ UNCHANGED <<tableVars, backoff, phase, packetVars, cleanVars>>

\* One append of chain_defaults; after the last one everything is forgotten.
Defaults(o) ==
  /\ pc = "defaults" /\ phase # "starting"
  /\ DefaultAppend(i, o)
  /\ ErrnoHelper(o)
  /\ pc' = IF Ok(o) /\ i < 3 THEN "defaults" ELSE Return
  /\ i' = i + 1
  /\ IF Ok(o) /\ i = 3
     THEN /\ macIndex' = [m \in Macs |-> None]
          /\ tunnels' = {}
          /\ id' = [r \in Remotes |-> 0]
          /\ macs' = [r \in Remotes |-> {}]
          /\ slots' = {}
          /\ cleanupPending' = FALSE
          /\ backoff' = FALSE
     ELSE UNCHANGED <<macIndex, tunnels, id, macs, slots, cleanupPending, backoff>>
  /\ UNCHANGED <<ready, hooks, phase, packetVars, cleanVars>>

-----------------------------------------------------------------------------
Administrator ==
  /\ \E s \in Slots : AdminAddLink(s) \/ AdminDelLink(s)
  /\ UNCHANGED daemonVars

\* The handlers, each a step of its own or a command: provision_add, ...
Adding ==
  \/ Scan \/ ScanOverlooks
  \/ \E o \in Outcome : AddLink(o) \/ AddHook(o) \/ AttachVlan(o) \/ AttachMaster(o)

\* ... provision_tunnel_allow_mac, ...
Allowing == AllowCheck \/ \E o \in Outcome : AllowIn(o) \/ AllowOut(o) \/ AllowUndo(o)

\* ... provision_del, ...
Deleting == UnhookSkip \/ DelDone \/ \E o \in Outcome : DelLink(o) \/ Unhook(o)

\* ... provision_delall ...
DeletingAll ==
  DelallNext \/ DelallUnhooked \/ DelallVisited \/ \E o \in Outcome : DelallLink(o)

\* ... and iface_ebtables_reset.
Resetting == \E o \in Outcome : FlushIn(o) \/ FlushOut(o) \/ Defaults(o)

\* The daemon goes on with the handler it is in.
Work == Adding \/ Allowing \/ Deleting \/ DeletingAll \/ Resetting \/ Reject

Next ==
  \/ \E r \in Remotes, m \in Macs, v \in 0 .. NVlans : Packet(r, m, v)
  \/ Sigusr1
  \/ Work
  \/ SecondPasses
  \/ Administrator

Spec == Init /\ [][Next]_vars

\* The main loop runs, time passes, every peer keeps sending, and the operator
\* sends SIGUSR1 again while a cleanup is incomplete.  The packets of a peer may
\* lose against other events at any one moment, but not for ever: poll reports the
\* capture socket in every round of the loop.
FairSpec ==
  /\ Spec
  /\ WF_vars(Work)
  /\ WF_vars(SecondPasses)
  /\ WF_vars(Sigusr1 /\ cleanupPending)
  /\ \A r \in Provisionable : SF_vars(\E m \in Macs, v \in Vlans : Packet(r, m, v))

-----------------------------------------------------------------------------
(* Properties.                                                             *)

\* Tunnel s is behind its three jumps and the final DROP rules.
Filtered(s) ==
  /\ \A h \in Hooks : jumps[s][h] > 0
  /\ {"dropIn", "dropOut"} \subseteq defaults

\* "Other traffic on tunnel ports is dropped" (index.md:25): a tunnel with a VLAN
\* port in a bridge is filtered.
BridgedIsFiltered == \A s \in Slots : bridged[s] # {} => Filtered(s)

\* The same, but for the tunnels whose deletion failed unnoticed: the order of
\* provision_add (jumps before ports), of provision_del (link before jumps) and of
\* provision_delall (chains last) keeps unlearned traffic out at every instant,
\* whatever command fails or is cut off, and a failure that is taken for ENODEV
\* (iface_gre.c:145) opens that one tunnel and no other.
FilterBeforeBridge == \A s \in Slots \ missed : bridged[s] # {} => Filtered(s)

\* slots[] is exactly the ids of the recorded tunnels, and no two tunnels share
\* one: no slot leaks when a rollback or a cleanup is only partly done.
SlotsExact ==
  /\ slots = {id[r] : r \in tunnels}
  /\ \A r, q \in tunnels : id[r] = id[q] => r = q

\* mac_index and the macs tables of the tunnels say the same: no entry points to
\* a freed tunnel, no MAC is in two tunnels.
IndexExact ==
  \A m \in Macs, r \in Remotes : (macIndex[m] = r) <=> (r \in tunnels /\ m \in macs[r])

\* provision_del is only reached for tunnels without clients: its revocation loop
\* (lines 218-224) never has anything to revoke.
RevokeUnreachable == pc # "revoke"

\* A recorded client has both permissions in the kernel until the chains are
\* flushed by a full cleanup.
RecordedIsPermitted ==
  \A r \in tunnels : \A m \in macs[r] :
     cleanupPending \/ (acceptIn[id[r]][m] > 0 /\ acceptOut[id[r]][m] > 0)

\* A MAC belongs to one remote (provision.c:133): the bridge never accepts the
\* same source from two tunnels, not counting those whose deletion failed unnoticed
\* (BridgedIsFiltered).
OneTunnelPerSource ==
  \A m \in Macs, s, t \in Slots \ missed : AcceptsFrom(s, m) /\ AcceptsFrom(t, m) => s = t

\* The same for source and destination: a frame of a client, or for it, passes
\* through one tunnel only.
OneTunnelPerMac ==
  /\ OneTunnelPerSource
  /\ \A m \in Macs, s, t \in Slots \ missed : AcceptsTo(s, m) /\ AcceptsTo(t, m) => s = t

\* Each bit of firewall_hooks records one installed jump (iface_ebtables.c:85),
\* and no jump is left without a record.
HookBitsExact ==
  \A s \in Slots, h \in Hooks :
     jumps[s][h] = IF \E r \in tunnels : id[r] = s /\ h \in hooks[r] THEN 1 ELSE 0

\* The shared backoff is for kernel and firewall errors only: a packet turned
\* away by a capacity limit never arms it, one turned away by an error is never
\* taken for a capacity limit (a stale errno would do that).
CapacityIsNotFailure == pc = "reject" => ((errno = "ENOSPC") <=> ~failed)

\* "Existing interfaces are never adopted or removed" (tests/integration.py:171):
\* only the administrator removes an interface the daemon did not create.
ForeignUntouched ==
  [][\A s \in Slots : link[s] = Foreign => link'[s] = Foreign \/ admin' # admin]_vars

\* A step taken during or after an incomplete cleanup creates nothing.
CreatesNothing ==
  cleanupPending =>
    /\ tunnels' \subseteq tunnels
    /\ \A s \in Slots : /\ link'[s] = link[s] \/ link'[s] \in {Absent, Foreign}
                        /\ bridged'[s] \subseteq bridged[s]
    /\ \A s \in Slots, m \in Macs : acceptIn'[s][m] <= acceptIn[s][m]

\* "Incomplete full cleanup pauses discovery until a successful SIGUSR1 retry"
\* (architecture.md:79): from the first step of provision_delall to the end of a
\* complete one, no handler adds a tunnel, a link, a port or a permission.
CleanupPausesDiscovery == [][CreatesNothing]_vars

\* "Cleanup incomplete; send SIGUSR1 to retry before learning new peers"
\* (provision.c:268): retries of an incomplete cleanup succeed in the end.
CleanupRecovers == cleanupPending ~> ~cleanupPending

\* Interfaces that are not the daemon's, or that it has lost sight of, have all the
\* names or are the tunnels of all the remotes.
NothingLeft ==
  \/ \A s \in Slots : s \in missed \/ link[s] = Foreign
  \/ \A r \in Provisionable : \E s \in missed : link[s] = r

\* A client that keeps sending is learned, again and again if its state is
\* cleared: no failed setup, rollback or cleanup leaves slots, records or rules that
\* block the next attempt for ever.  Deletions that failed unnoticed do, but only
\* when there are so many that nothing is left.
LearnsEventually == \A m \in Macs : []<>(macIndex[m] # None \/ NothingLeft)

-----------------------------------------------------------------------------
(* The inductive invariant behind the safety properties.                   *)

PacketSteps == {"scan", "gre_add", "hook", "vlan_add", "vlan_master", "allow", "allow_in",
                "allow_out", "allow_undo", "del", "reject"}
AddSteps == {"hook", "vlan_add", "vlan_master"}
AllowSteps == {"allow", "allow_in", "allow_out", "allow_undo"}
ResetSteps == {"flush_in", "flush_out", "defaults"}
DelallSteps == {"delall", "delall_del"} \cup ResetSteps

\* Which tunnel the handler at work is about, and in what condition it is.
ControlInv ==
  /\ pc \in PacketSteps => ~cleanupPending
  /\ pc \in PacketSteps \ {"reject"} \/ (pc = "unhook" /\ ~cleanupPending) => macIndex[mac] = None
  /\ pc \in DelallSteps => cleanupPending
  /\ cleanupPending => todo \subseteq tunnels
  /\ pc \in {"scan", "gre_add"} => cur \notin tunnels
  /\ pc = "scan" => i <= NSlots
  /\ pc = "gre_add" => i \in Slots \ slots
  /\ pc \in AddSteps \cup {"del", "unhook", "delall_del"} => cur \in tunnels /\ ~ready[cur]
  /\ pc = "hook" => i \in Hooks
  /\ pc \in {"vlan_add", "vlan_master"} => i \in Vlans
  /\ pc \in AllowSteps => cur \in tunnels /\ ready[cur]
  /\ pc = "unhook" => i \in 1 .. 4
  /\ pc = "defaults" => i \in 1 .. 3

\* No port of tunnel s is in a bridge, as far as the daemon can know.
Gone(s) == bridged[s] = {} \/ s \in missed

\* Only a full cleanup, which pauses discovery, takes ready from a tunnel that has
\* clients.
ClientsInv == \A r \in tunnels : ~ready[r] /\ ~cleanupPending => macs[r] = {}

\* The jumps of a tunnel that is being built are there before a port joins a
\* bridge, and are only removed once the link is gone, or taken for gone.
BridgeInv ==
  /\ \A s \in Slots : link[s] = Absent => bridged[s] = {} /\ s \notin missed
  /\ \A s \in Slots : Gone(s) \/ (s \in slots /\ \A h \in Hooks : jumps[s][h] > 0)
  /\ pc \in AddSteps => \A h \in hooks[cur] : jumps[id[cur]][h] > 0
  /\ pc = "hook" => \A h \in Hooks : h < i => h \in hooks[cur]
  /\ pc \in {"vlan_add", "vlan_master"} => hooks[cur] = Hooks
  /\ pc = "unhook" => Gone(id[cur])

\* The DROP rules are only absent in a cleanup that has removed every link, or
\* takes it for gone.
CleanupInv ==
  /\ \/ {"dropIn", "dropOut"} \subseteq defaults
     \/ cleanupPending /\ \A s \in Slots : Gone(s)
  /\ pc \in {"delall", "delall_del", "unhook"} /\ cleanupPending /\ ok =>
        \A r \in tunnels \ todo : (pc = "delall_del" /\ r = cur) \/ Gone(id[r])
  /\ pc \in ResetSteps => \A s \in Slots : Gone(s)
  /\ pc = "defaults" /\ i = 3 => "dropIn" \in defaults

IInv ==
  /\ TypeOK
  /\ SlotsExact
  /\ IndexExact
  /\ ControlInv
  /\ ClientsInv
  /\ BridgeInv
  /\ CleanupInv
  /\ RevokeUnreachable

\* errno can be told apart at the end because nothing sets ENOSPC on the way, and
\* a failed command always leads to the end without passing a capacity check.
ErrnoInv ==
  /\ CapacityIsNotFailure
  /\ pc \in (PacketSteps \ {"reject"}) \/ (pc = "unhook" /\ ~cleanupPending) => errno # "ENOSPC"
  /\ pc \in {"scan", "gre_add", "hook", "vlan_add", "vlan_master", "allow", "allow_in", "allow_out"}
        => ~failed
  /\ pc = "allow_undo" => failed
  /\ pc \in {"vlan_add", "vlan_master"} => ~again
  /\ pc = "del" => (again <=> ~failed)
  /\ pc = "unhook" /\ ~cleanupPending =>
        /\ ~again => failed
        /\ again => (failed <=> \E h \in hooks[cur] : h < i)

\* While the outbound permission is being installed the inbound one is there.
PermitInv ==
  /\ RecordedIsPermitted
  /\ pc = "allow_out" => acceptIn[id[cur]][mac] > 0

\* Everything the proofs take to be invariant: the order of the commands, the
\* agreement of the tables and the meaning of errno, at every step.
InductiveInv == IInv /\ ErrnoInv /\ PermitInv

=============================================================================
