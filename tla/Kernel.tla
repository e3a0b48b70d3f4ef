------------------------------- MODULE Kernel -------------------------------
(***************************************************************************)
(* The network state that softgred changes from outside the kernel: the    *)
(* GRE links, their VLAN ports and the ebtables chains SOFTGRE_IN (table   *)
(* nat) and SOFTGRE_OUT (table filter).  Frames are forwarded while the    *)
(* daemon works, so every command is one step and every intermediate state *)
(* matters.                                                                *)
(*                                                                         *)
(* A command is one netlink request (link_send, iface_gre.c) or one run of *)
(* ebtables (helper_exec, helper.c).  It ends in one of these outcomes:    *)
(*   "ok"       executed and reported as executed;                         *)
(*   "refused"  the kernel or ebtables rejects it (no such link, no such   *)
(*              rule, name taken);                                         *)
(*   "failed"   not executed and reported as an error (fork or socket      *)
(*              failure, no memory, ebtables lock, ...);                   *)
(*   "late"     executed although reported as an error: the child is       *)
(*              killed at the three-second deadline of helper_exec, or by  *)
(*              another signal, or link_send gives up waiting for the      *)
(*              acknowledgement;                                           *)
(*   "missed"   only of iface_gre_del: not executed and reported as        *)
(*              ENODEV, because if_nametoindex failed (it needs a socket   *)
(*              of its own) and its 0 is taken for a name not in use.      *)
(* "failed", "late" and "missed" draw on a budget of faults.               *)
(***************************************************************************)
EXTENDS Naturals, FiniteSets

CONSTANTS Remotes,     \* addresses of possible GRE peers
          Macs,        \* client MAC addresses
          NSlots,      \* SOFTGRED_MAX_SLOTS, the interface names prefix<id>
          NVlans,      \* cfg->bridge_slot, the configured VLAN/bridge pairs
          MaxFaults,   \* bound: how many commands may fail in a behaviour
          MaxAdmin,    \* bound: how many changes the administrator makes
          Ambiguous,   \* whether the "late" outcome is possible
          Absent,      \* no interface has this name
          Foreign      \* an interface the daemon did not create

ASSUME KernelAssumption ==
  /\ NSlots \in Nat \ {0}
  /\ NVlans \in Nat \ {0}
  /\ MaxFaults \in Nat
  /\ MaxAdmin \in Nat
  /\ Ambiguous \in BOOLEAN
  /\ Absent \notin Remotes
  /\ Foreign \notin Remotes
  /\ Absent # Foreign

Slots == 0 .. NSlots - 1

Vlans == 1 .. NVlans

\* hooks[]: nat PREROUTING -i, filter FORWARD -o, filter OUTPUT -o.
Hooks == 1 .. 3

Chains == {"IN", "OUT"}

\* The chain hook h jumps to.
HookTarget(h) == IF h = 1 THEN "IN" ELSE "OUT"

\* The rules chain_defaults appends, in its order.
DefaultRule(n) == IF n = 1 THEN "multicast" ELSE IF n = 2 THEN "dropIn" ELSE "dropOut"

DefaultRules == {DefaultRule(n) : n \in 1 .. 3}

VARIABLES link,       \* link[s]: what the interface named prefix<s> is
          bridged,    \* bridged[s]: VLAN ports of that link that joined a bridge
          jumps,      \* jumps[s][h]: jump rules for prefix<s>.+ in hook h
          acceptIn,   \* acceptIn[s][m]: ACCEPT rules for source m in SOFTGRE_IN
          acceptOut,  \* acceptOut[s][m]: ACCEPT rules for destination m in SOFTGRE_OUT
          defaults,   \* the rules of chain_defaults that are in place
          chains,     \* which of the two owned chains exist
          missed,     \* history: interfaces iface_gre_del took for gone, and which are not
          faults,     \* remaining fault budget
          admin       \* remaining administrator budget

kernelVars == <<link, bridged, jumps, acceptIn, acceptOut, defaults, chains, missed, faults, admin>>

KernelTypeOK ==
  /\ link \in [Slots -> Remotes \cup {Absent, Foreign}]
  /\ bridged \in [Slots -> SUBSET Vlans]
  /\ jumps \in [Slots -> [Hooks -> Nat]]
  /\ acceptIn \in [Slots -> [Macs -> Nat]]
  /\ acceptOut \in [Slots -> [Macs -> Nat]]
  /\ defaults \in SUBSET DefaultRules
  /\ chains \in SUBSET Chains
  /\ missed \in SUBSET Slots
  /\ faults \in Nat
  /\ admin \in Nat

\* A host on which softgred has never run.
KernelInit ==
  /\ link = [s \in Slots |-> Absent]
  /\ bridged = [s \in Slots |-> {}]
  /\ jumps = [s \in Slots |-> [h \in Hooks |-> 0]]
  /\ acceptIn = [s \in Slots |-> [m \in Macs |-> 0]]
  /\ acceptOut = [s \in Slots |-> [m \in Macs |-> 0]]
  /\ missed = {}
  /\ faults = MaxFaults
  /\ admin = MaxAdmin

-----------------------------------------------------------------------------
(* Outcomes of a command.                                                  *)

Outcome == {"ok", "refused", "failed", "late", "missed"}

\* The caller sees success.
Ok(o) == o = "ok"

\* The command took effect.
Done(o) == o \in {"ok", "late"}

\* It went wrong although the kernel would have accepted it, and the caller knows.
Fault(o) == o \in {"failed", "late"}

\* A command that the kernel accepts exactly if can holds ends with outcome o.
Ends(o, can) ==
  /\ o # "missed"
  /\ (o = "refused") <=> ~can
  /\ Fault(o) => faults > 0
  /\ o = "late" => Ambiguous
  /\ faults' = IF Fault(o) THEN faults - 1 ELSE faults

\* if_nametoindex fails although there is an interface s.
Overlooked(s) == link[s] # Absent /\ faults > 0 /\ faults' = faults - 1

-----------------------------------------------------------------------------
(* Links: requests of iface_gre.c and iface_bridge.c.                      *)

\* iface_gre_add: NLM_F_EXCL refuses a name in use, the GRE driver a second
\* tunnel between the same two addresses.
GreAdd(s, r, o) ==
  /\ Ends(o, link[s] = Absent /\ \A t \in Slots : link[t] # r)
  /\ link' = IF Done(o) THEN [link EXCEPT ![s] = r] ELSE link
  /\ UNCHANGED <<bridged, jumps, acceptIn, acceptOut, defaults, chains, missed, admin>>

\* iface_gre_del: whatever has the name goes, with its VLAN ports; a name not
\* in use is refused (ENODEV), and so is one that could not be looked up.
GreDel(s, o) ==
  /\ IF o = "missed" THEN Overlooked(s) ELSE Ends(o, link[s] # Absent)
  /\ link' = IF Done(o) THEN [link EXCEPT ![s] = Absent] ELSE link
  /\ bridged' = IF Done(o) THEN [bridged EXCEPT ![s] = {}] ELSE bridged
  /\ missed' = IF o = "missed" THEN missed \cup {s} ELSE IF Done(o) THEN missed \ {s} ELSE missed
  /\ UNCHANGED <<jumps, acceptIn, acceptOut, defaults, chains, admin>>

\* First request of iface_bridge_attach: create the VLAN port.  A port outside
\* any bridge carries nothing and goes with its link, so it is not recorded.
VlanAdd(s, o) ==
  /\ Ends(o, link[s] # Absent)
  /\ UNCHANGED <<link, bridged, jumps, acceptIn, acceptOut, defaults, chains, missed, admin>>

\* Second request of iface_bridge_attach, set_master: from here on frames of
\* VLAN v pass between the tunnel and the bridge.
VlanMaster(s, v, o) ==
  /\ Ends(o, link[s] # Absent)
  /\ bridged' = IF Done(o) THEN [bridged EXCEPT ![s] = @ \cup {v}] ELSE bridged
  /\ UNCHANGED <<link, jumps, acceptIn, acceptOut, defaults, chains, missed, admin>>

-----------------------------------------------------------------------------
(* Rules and chains: runs of ebtables, iface_ebtables.c.                   *)

\* -I hook -j chain
JumpInsert(s, h, o) ==
  /\ Ends(o, HookTarget(h) \in chains)
  /\ jumps' = IF Done(o) THEN [jumps EXCEPT ![s][h] = @ + 1] ELSE jumps
  /\ UNCHANGED <<link, bridged, acceptIn, acceptOut, defaults, chains, missed, admin>>

\* -D hook -j chain: one matching rule goes; none is an error.
JumpDelete(s, h, o) ==
  /\ Ends(o, jumps[s][h] > 0)
  /\ jumps' = IF Done(o) THEN [jumps EXCEPT ![s][h] = @ - 1] ELSE jumps
  /\ UNCHANGED <<link, bridged, acceptIn, acceptOut, defaults, chains, missed, admin>>

\* -t nat -I SOFTGRE_IN -i prefix<s>.+ -s m -j ACCEPT
AcceptInInsert(s, m, o) ==
  /\ Ends(o, "IN" \in chains)
  /\ acceptIn' = IF Done(o) THEN [acceptIn EXCEPT ![s][m] = @ + 1] ELSE acceptIn
  /\ UNCHANGED <<link, bridged, jumps, acceptOut, defaults, chains, missed, admin>>

\* The same rule with -D.
AcceptInDelete(s, m, o) ==
  /\ Ends(o, acceptIn[s][m] > 0)
  /\ acceptIn' = IF Done(o) THEN [acceptIn EXCEPT ![s][m] = @ - 1] ELSE acceptIn
  /\ UNCHANGED <<link, bridged, jumps, acceptOut, defaults, chains, missed, admin>>

\* -I SOFTGRE_OUT -o prefix<s>.+ -d m -j ACCEPT
AcceptOutInsert(s, m, o) ==
  /\ Ends(o, "OUT" \in chains)
  /\ acceptOut' = IF Done(o) THEN [acceptOut EXCEPT ![s][m] = @ + 1] ELSE acceptOut
  /\ UNCHANGED <<link, bridged, jumps, acceptIn, defaults, chains, missed, admin>>

\* One append of chain_defaults.
DefaultAppend(n, o) ==
  /\ Ends(o, (IF n = 2 THEN "IN" ELSE "OUT") \in chains)
  /\ defaults' = IF Done(o) THEN defaults \cup {DefaultRule(n)} ELSE defaults
  /\ UNCHANGED <<link, bridged, jumps, acceptIn, acceptOut, chains, missed, admin>>

\* The default rules that are in chain c.
RulesOf(c) == IF c = "IN" THEN {"dropIn"} ELSE {"multicast", "dropOut"}

NoAccepts == [s \in Slots |-> [m \in Macs |-> 0]]

\* -F c
ChainFlush(c, o) ==
  /\ Ends(o, c \in chains)
  /\ acceptIn' = IF Done(o) /\ c = "IN" THEN NoAccepts ELSE acceptIn
  /\ acceptOut' = IF Done(o) /\ c = "OUT" THEN NoAccepts ELSE acceptOut
  /\ defaults' = IF Done(o) THEN defaults \ RulesOf(c) ELSE defaults
  /\ UNCHANGED <<link, bridged, jumps, chains, missed, admin>>

\* Mutant of ChainNew: an existing chain is taken over.
ChainNewAdopts(c, o) ==
  /\ Ends(o, TRUE)
  /\ chains' = IF Done(o) THEN chains \cup {c} ELSE chains
  /\ UNCHANGED <<link, bridged, jumps, acceptIn, acceptOut, defaults, missed, admin>>

\* -N c: an existing chain is an error.
ChainNew(c, o) ==
  /\ Ends(o, c \notin chains)
  /\ chains' = IF Done(o) THEN chains \cup {c} ELSE chains
  /\ UNCHANGED <<link, bridged, jumps, acceptIn, acceptOut, defaults, missed, admin>>

\* No rule jumps to c.
Unreferenced(c) == \A s \in Slots, h \in Hooks : HookTarget(h) = c => jumps[s][h] = 0

\* -X c: refused while a rule jumps to c; the rules of c go with it.
ChainDelete(c, o) ==
  /\ Ends(o, c \in chains /\ Unreferenced(c))
  /\ chains' = IF Done(o) THEN chains \ {c} ELSE chains
  /\ acceptIn' = IF Done(o) /\ c = "IN" THEN NoAccepts ELSE acceptIn
  /\ acceptOut' = IF Done(o) /\ c = "OUT" THEN NoAccepts ELSE acceptOut
  /\ defaults' = IF Done(o) THEN defaults \ RulesOf(c) ELSE defaults
  /\ UNCHANGED <<link, bridged, jumps, missed, admin>>

-----------------------------------------------------------------------------
(* The administrator creates and deletes interfaces meanwhile.             *)

\* An unrelated interface takes a free name of the daemon's prefix.
AdminAddLink(s) ==
  /\ admin > 0
  /\ link[s] = Absent
  /\ admin' = admin - 1
  /\ link' = [link EXCEPT ![s] = Foreign]
  /\ UNCHANGED <<bridged, jumps, acceptIn, acceptOut, defaults, chains, missed, faults>>

\* An interface goes away behind the daemon's back.
AdminDelLink(s) ==
  /\ admin > 0
  /\ link[s] # Absent
  /\ admin' = admin - 1
  /\ link' = [link EXCEPT ![s] = Absent]
  /\ bridged' = [bridged EXCEPT ![s] = {}]
  /\ missed' = missed \ {s}
  /\ UNCHANGED <<jumps, acceptIn, acceptOut, defaults, chains, faults>>

-----------------------------------------------------------------------------
(* What the bridge does with a frame.                                      *)

\* A frame from source m that arrives on tunnel s reaches the bridge.
AcceptsFrom(s, m) ==
  /\ bridged[s] # {}
  /\ jumps[s][1] = 0 \/ acceptIn[s][m] > 0 \/ "dropIn" \notin defaults

\* A unicast frame to m leaves through tunnel s.
AcceptsTo(s, m) ==
  /\ bridged[s] # {}
  /\ jumps[s][2] = 0 \/ jumps[s][3] = 0 \/ acceptOut[s][m] > 0 \/ "dropOut" \notin defaults

=============================================================================
