--------------------------- MODULE ProvisionInductive ---------------------------
(***************************************************************************)
(* IInv of Provision is inductive: one lemma for each of its conjuncts, in *)
(* it one case for each handler and each action.  The lemmas hold in every *)
(* phase of main in which the tables are in use, so DaemonProofs takes them *)
(* over.                                                                   *)
(***************************************************************************)
EXTENDS Provision, TLAPS

USE KernelAssumption, ProvisionAssumption
    DEF kernelVars, tableVars, packetVars, cleanVars, daemonVars, Ok, Done, Fault,
        Eligible, Track, Bit, Release, Overlooked

-----------------------------------------------------------------------------
(* Types.                                                                   *)


\* Every command and every change by the administrator keeps the kernel state typed.
LEMMA KernelTypeStep == IInv /\ [Next]_vars => KernelTypeOK'
<1> SUFFICES ASSUME IInv, [Next]_vars PROVE KernelTypeOK'
  BY Zenon
<1>0. UNCHANGED kernelVars => KernelTypeOK'
  BY Zenon DEF IInv, TypeOK, KernelTypeOK
<1>1. CASE Adding
  <2>1. CASE Scan
    BY <2>1, <1>0, Zenon DEF Scan
  <2>6. CASE ScanOverlooks
    BY <2>6, SMTT(60) DEF ScanOverlooks, IInv, TypeOK, KernelTypeOK
  <2>2. ASSUME NEW o \in Outcome, AddLink(o)
        PROVE  KernelTypeOK'
    BY <2>2, SMTT(60) DEF AddLink, GreAdd, Ends, IInv, TypeOK, KernelTypeOK, TablesTypeOK, ControlInv
  <2>3. ASSUME NEW o \in Outcome, AddHook(o)
        PROVE  KernelTypeOK'
    BY <2>3 DEF AddHook, JumpInsert, Ends, IInv, TypeOK, KernelTypeOK, TablesTypeOK, ControlInv
  <2>4. ASSUME NEW o \in Outcome, AttachVlan(o)
        PROVE  KernelTypeOK'
    BY <2>4, SMTT(60) DEF AttachVlan, VlanAdd, Ends, IInv, TypeOK, KernelTypeOK
  <2>5. ASSUME NEW o \in Outcome, AttachMaster(o)
        PROVE  KernelTypeOK'
    BY <2>5 DEF AttachMaster, VlanMaster, Ends, IInv, TypeOK, KernelTypeOK, TablesTypeOK, ControlInv
  <2> QED
    BY <1>1, <2>1, <2>2, <2>3, <2>4, <2>5, <2>6, Zenon DEF Adding
<1>2. CASE Allowing
  <2>1. CASE AllowCheck
    BY <2>1, <1>0, Zenon DEF AllowCheck
  <2>2. ASSUME NEW o \in Outcome, AllowIn(o)
        PROVE  KernelTypeOK'
    BY <2>2 DEF AllowIn, AcceptInInsert, Ends, IInv, TypeOK, KernelTypeOK, TablesTypeOK
  <2>3. ASSUME NEW o \in Outcome, AllowOut(o)
        PROVE  KernelTypeOK'
    BY <2>3 DEF AllowOut, AcceptOutInsert, Ends, IInv, TypeOK, KernelTypeOK, TablesTypeOK
  <2>4. ASSUME NEW o \in Outcome, AllowUndo(o)
        PROVE  KernelTypeOK'
    BY <2>4, SMTT(60) DEF AllowUndo, AcceptInDelete, Ends, IInv, TypeOK, KernelTypeOK, TablesTypeOK
  <2> QED
    BY <1>2, <2>1, <2>2, <2>3, <2>4, Zenon DEF Allowing
<1>3. CASE Deleting
  <2>1. ASSUME NEW o \in Outcome, DelLink(o)
        PROVE  KernelTypeOK'
    BY <2>1 DEF DelLink, GreDel, Ends, IInv, TypeOK, KernelTypeOK, TablesTypeOK
  <2>2. ASSUME NEW o \in Outcome, Unhook(o)
        PROVE  KernelTypeOK'
    BY <2>2 DEF Unhook, JumpDelete, Ends, IInv, TypeOK, KernelTypeOK, TablesTypeOK
  <2>3. CASE UnhookSkip \/ DelDone
    BY <2>3, <1>0, Zenon DEF UnhookSkip, DelDone
  <2> QED
    BY <1>3, <2>1, <2>2, <2>3, Zenon DEF Deleting
<1>4. CASE DeletingAll
  <2>1. CASE DelallNext \/ DelallUnhooked \/ DelallVisited
    BY <2>1, <1>0, Zenon DEF DelallNext, DelallUnhooked, DelallVisited
  <2>2. ASSUME NEW o \in Outcome, DelallLink(o)
        PROVE  KernelTypeOK'
    BY <2>2 DEF DelallLink, GreDel, Ends, IInv, TypeOK, KernelTypeOK, TablesTypeOK
  <2> QED
    BY <1>4, <2>1, <2>2, Zenon DEF DeletingAll
<1>5. CASE Resetting
  <2>1. ASSUME NEW o \in Outcome, FlushIn(o)
        PROVE  KernelTypeOK'
    BY <2>1 DEF FlushIn, ChainFlush, Ends, IInv, TypeOK, KernelTypeOK, NoAccepts
  <2>2. ASSUME NEW o \in Outcome, FlushOut(o)
        PROVE  KernelTypeOK'
    BY <2>2 DEF FlushOut, ChainFlush, Ends, IInv, TypeOK, KernelTypeOK, NoAccepts
  <2>3. ASSUME NEW o \in Outcome, Defaults(o)
        PROVE  KernelTypeOK'
    <3>1. DefaultRule(i) \in DefaultRules
      BY <2>3, Zenon DEF Defaults, IInv, ControlInv, DefaultRules
    <3> QED
      BY <3>1, <2>3 DEF Defaults, DefaultAppend, Ends, IInv, TypeOK, KernelTypeOK
  <2> QED
    BY <1>5, <2>1, <2>2, <2>3, Zenon DEF Resetting
<1>6. ASSUME NEW r \in Remotes, NEW m \in Macs, NEW v \in 0 .. NVlans, Packet(r, m, v)
      PROVE  KernelTypeOK'
  BY <1>6, <1>0, Zenon DEF Packet
<1>7. CASE Reject \/ Sigusr1 \/ SecondPasses \/ UNCHANGED vars
  BY <1>7, <1>0, Zenon DEF Reject, Sigusr1, SecondPasses, vars
<1>8. CASE Administrator
  <2>1. PICK s \in Slots : AdminAddLink(s) \/ AdminDelLink(s)
    BY <1>8, Zenon DEF Administrator
  <2>2. CASE AdminAddLink(s)
    BY <2>2 DEF AdminAddLink, IInv, TypeOK, KernelTypeOK
  <2>3. CASE AdminDelLink(s)
    BY <2>3 DEF AdminDelLink, IInv, TypeOK, KernelTypeOK
  <2> QED
    BY <2>1, <2>2, <2>3, Zenon
<1> QED
  BY <1>1, <1>2, <1>3, <1>4, <1>5, <1>6, <1>7, <1>8, Zenon DEF Next, Work

\* Every handler step keeps the daemon's tables and registers typed.
LEMMA TablesTypeStep == IInv /\ [Next]_vars => TablesTypeOK'
<1> SUFFICES ASSUME IInv, [Next]_vars PROVE TablesTypeOK'
  BY Zenon
<1>0. UNCHANGED daemonVars => TablesTypeOK'
  BY Zenon DEF IInv, TypeOK, TablesTypeOK
<1>1. CASE Adding
  <2>1. CASE Scan \/ ScanOverlooks
    BY <2>1 DEF Scan, ScanOverlooks, IInv, TypeOK, TablesTypeOK
  <2>2. ASSUME NEW o \in Outcome, AddLink(o)
        PROVE  TablesTypeOK'
    <3>1. i \in Slots /\ cur \in Remotes /\ 1 \in Nat
      BY <2>2, Zenon DEF AddLink, IInv, TypeOK, TablesTypeOK, ControlInv
    <3>2. CASE o = "ok"
      <4>1. /\ tunnels' = tunnels \cup {cur}
            /\ slots' = slots \cup {i}
            /\ id' = [id EXCEPT ![cur] = i]
            /\ ready' = [ready EXCEPT ![cur] = FALSE]
            /\ hooks' = [hooks EXCEPT ![cur] = {}]
            /\ macs' = [macs EXCEPT ![cur] = {}]
            /\ i' = 1
        BY <3>2, <2>2, Zenon DEF AddLink
      <4>2. /\ tunnels' \in SUBSET Remotes
            /\ slots' \in SUBSET Slots
            /\ id' \in [Remotes -> Slots]
        BY <3>1, <4>1, Zenon DEF IInv, TypeOK, TablesTypeOK
      <4>3. ready' \in [Remotes -> BOOLEAN]
        BY <3>1, <4>1, Zenon DEF IInv, TypeOK, TablesTypeOK
      <4>4. /\ hooks' \in [Remotes -> SUBSET Hooks]
            /\ macs' \in [Remotes -> SUBSET Macs]
        BY <3>1, <4>1, Zenon DEF IInv, TypeOK, TablesTypeOK
      <4> QED
        BY <3>1, <3>2, <4>1, <4>2, <4>3, <4>4, <2>2, Zenon DEF AddLink, IInv, TypeOK, TablesTypeOK,
           ErrnoLink, Failed
    <3>3. CASE o # "ok"
      BY <3>3, <2>2, Zenon DEF AddLink, IInv, TypeOK, TablesTypeOK, ErrnoLink, Failed
    <3> QED
      BY <3>2, <3>3, Zenon
  <2>3. ASSUME NEW o \in Outcome, AddHook(o)
        PROVE  TablesTypeOK'
    <3>1. i \in Hooks /\ i \in Nat
      BY <2>3, Zenon DEF AddHook, IInv, TypeOK, TablesTypeOK, ControlInv
    <3>2. hooks' \in [Remotes -> SUBSET Hooks] /\ i' \in Nat
      BY <3>1, <2>3 DEF AddHook, IInv, TypeOK, TablesTypeOK
    <3> QED
      BY <3>2, <2>3, Zenon DEF AddHook, IInv, TypeOK, TablesTypeOK, ErrnoHelper, Failed
  <2>4. ASSUME NEW o \in Outcome, AttachVlan(o)
        PROVE  TablesTypeOK'
    BY <2>4, Zenon DEF AttachVlan, ErrnoLink, Failed, IInv, TypeOK, TablesTypeOK
  <2>5. ASSUME NEW o \in Outcome, AttachMaster(o)
        PROVE  TablesTypeOK'
    BY <2>5 DEF AttachMaster, VlanMaster, Ends, IInv, TypeOK, TablesTypeOK, ControlInv, ErrnoLink,
       ErrnoHelper, Failed
  <2> QED
    BY <1>1, <2>1, <2>2, <2>3, <2>4, <2>5, Zenon DEF Adding
<1>2. CASE Allowing
  <2>1. CASE AllowCheck
    BY <2>1, Zenon DEF AllowCheck, IInv, TypeOK, TablesTypeOK
  <2>2. ASSUME NEW o \in Outcome, AllowIn(o)
        PROVE  TablesTypeOK'
    BY <2>2, Zenon DEF AllowIn, ErrnoHelper, Failed, IInv, TypeOK, TablesTypeOK
  <2>3. ASSUME NEW o \in Outcome, AllowOut(o)
        PROVE  TablesTypeOK'
    BY <2>3, Zenon DEF AllowOut, IInv, TypeOK, TablesTypeOK, ErrnoHelper, Failed
  <2>4. ASSUME NEW o \in Outcome, AllowUndo(o)
        PROVE  TablesTypeOK'
    BY <2>4, Zenon DEF AllowUndo, IInv, TypeOK, TablesTypeOK, ErrnoHelper, Failed
  <2> QED
    BY <1>2, <2>1, <2>2, <2>3, <2>4, Zenon DEF Allowing
<1>3. CASE Deleting
  <2>1. ASSUME NEW o \in Outcome, DelLink(o)
        PROVE  TablesTypeOK'
    BY <2>1, Zenon DEF DelLink, ErrnoLink, Failed, IInv, TypeOK, TablesTypeOK
  <2>2. ASSUME NEW o \in Outcome, Unhook(o)
        PROVE  TablesTypeOK'
    BY <2>2 DEF Unhook, IInv, TypeOK, TablesTypeOK, ErrnoHelper, Failed
  <2>3. CASE UnhookSkip
    BY <2>3 DEF UnhookSkip, IInv, TypeOK, TablesTypeOK
  <2>4. CASE DelDone
    <3>1. 0 \in Slots
      BY DEF Slots
    <3>2. id' \in [Remotes -> Slots]
      BY <3>1, <2>4, ZenonT(60) DEF DelDone, IInv, TypeOK, TablesTypeOK
    <3> QED
      BY <3>2, <2>4, Zenon DEF DelDone, IInv, TypeOK, TablesTypeOK
  <2> QED
    BY <1>3, <2>1, <2>2, <2>3, <2>4, Zenon DEF Deleting
<1>4. CASE DeletingAll
  <2>1. CASE DelallNext
    BY <2>1 DEF DelallNext, IInv, TypeOK, TablesTypeOK
  <2>2. ASSUME NEW o \in Outcome, DelallLink(o)
        PROVE  TablesTypeOK'
    BY <2>2, Zenon DEF DelallLink, ErrnoLink, Failed, IInv, TypeOK, TablesTypeOK
  <2>3. CASE DelallUnhooked
    BY <2>3, Zenon DEF DelallUnhooked, TypeOK, IInv, TablesTypeOK
  <2>4. CASE DelallVisited
    BY <2>4, Zenon DEF DelallVisited, IInv, TypeOK, TablesTypeOK
  <2> QED
    BY <1>4, <2>1, <2>2, <2>3, <2>4, Zenon DEF DeletingAll
<1>5. CASE Resetting
  <2>1. ASSUME NEW o \in Outcome, FlushIn(o)
        PROVE  TablesTypeOK'
    BY <2>1, Zenon DEF FlushIn, IInv, TypeOK, ErrnoHelper, TablesTypeOK
  <2>2. ASSUME NEW o \in Outcome, FlushOut(o)
        PROVE  TablesTypeOK'
    BY <2>2, Zenon DEF FlushOut, ErrnoHelper, IInv, TypeOK, TablesTypeOK
  <2>3. ASSUME NEW o \in Outcome, Defaults(o)
        PROVE  TablesTypeOK'
    <3>1. 0 \in Slots
      BY DEF Slots
    <3>2. /\ id' \in [Remotes -> Slots]
          /\ macs' \in [Remotes -> SUBSET Macs]
          /\ macIndex' \in [Macs -> Remotes \cup {None}]
          /\ i' \in Nat
      BY <3>1, <2>3 DEF Defaults, IInv, TypeOK, TablesTypeOK
    <3> QED
      BY <3>2, <2>3, Zenon DEF Defaults, IInv, TypeOK, TablesTypeOK, ErrnoHelper
  <2> QED
    BY <1>5, <2>1, <2>2, <2>3, Zenon DEF Resetting
<1>6. ASSUME NEW r \in Remotes, NEW m \in Macs, NEW v \in 0 .. NVlans, Packet(r, m, v)
      PROVE  TablesTypeOK'
  BY <1>6, Zenon DEF Packet, IInv, TypeOK, TablesTypeOK
<1>7. CASE Reject
  BY <1>7, Zenon DEF Reject, IInv, TypeOK, TablesTypeOK
<1>8. CASE Sigusr1
  BY <1>8, Zenon DEF Sigusr1, IInv, TypeOK, TablesTypeOK
<1>9. CASE SecondPasses
  BY <1>9, Zenon DEF SecondPasses, IInv, TypeOK, TablesTypeOK
<1>10. CASE Administrator \/ UNCHANGED vars
  BY <1>10, <1>0, Zenon DEF Administrator, vars
<1> QED
  BY <1>1, <1>2, <1>3, <1>4, <1>5, <1>6, <1>7, <1>8, <1>9, <1>10, Zenon DEF Next, Work

\* The handlers of the main loop stay among their own steps.
LEMMA PcTypeStep == IInv /\ [Next]_vars => (phase \in LoopPhases /\ pc \in Steps \cup {"end"})'
<1> SUFFICES ASSUME IInv, [Next]_vars PROVE (phase \in LoopPhases /\ pc \in Steps \cup {"end"})'
  BY Zenon
<1>0. phase \in LoopPhases /\ pc \in Steps \cup {"end"}
  BY Zenon DEF IInv, TypeOK
<1>1. CASE Adding
  BY <1>1, <1>0, Zenon DEF Adding, Scan, ScanOverlooks, AddLink, AddHook, AttachVlan, AttachMaster, Steps
<1>2. CASE Allowing
  BY <1>2, <1>0, Zenon DEF Allowing, AllowCheck, AllowIn, AllowOut, AllowUndo, Steps
<1>3. CASE Deleting
  BY <1>3, <1>0, Zenon DEF Deleting, DelLink, Unhook, UnhookSkip, DelDone, Steps
<1>4. CASE DeletingAll
  <2>1. CASE DelallNext \/ DelallUnhooked \/ \E o \in Outcome : DelallLink(o)
    BY <2>1, <1>0, Zenon DEF DelallNext, DelallLink, DelallUnhooked, Steps
  <2>2. CASE DelallVisited
    BY <2>2, <1>0, Zenon DEF DelallVisited, Return, Steps
  <2> QED
    BY <1>4, <2>1, <2>2, Zenon DEF DeletingAll
<1>5. CASE Resetting
  BY <1>5, <1>0, Zenon DEF Resetting, FlushIn, FlushOut, Defaults, Return, Steps
<1>6. ASSUME NEW r \in Remotes, NEW m \in Macs, NEW v \in 0 .. NVlans, Packet(r, m, v)
      PROVE  (phase \in LoopPhases /\ pc \in Steps \cup {"end"})'
  BY <1>6, <1>0, Zenon DEF Packet, Steps
<1>7. CASE Reject \/ Sigusr1 \/ SecondPasses \/ Administrator \/ UNCHANGED vars
  BY <1>7, <1>0, Zenon DEF Reject, Sigusr1, SecondPasses, Administrator, vars, Steps
<1> QED
  BY <1>1, <1>2, <1>3, <1>4, <1>5, <1>6, <1>7, Zenon DEF Next, Work

-----------------------------------------------------------------------------
(* The tables of provision.c agree.                                         *)


\* slots[] and the ids of the tunnels change together (provision.c:100, 230, 261-262).
LEMMA SlotsStep == IInv /\ [Next]_vars => SlotsExact'
<1> SUFFICES ASSUME IInv, [Next]_vars PROVE SlotsExact'
  BY Zenon
<1>0. UNCHANGED <<tunnels, id, slots>> => SlotsExact'
  BY Zenon DEF IInv, SlotsExact
<1>1. CASE Adding
  <2>1. CASE Scan \/ ScanOverlooks \/ \E o \in Outcome : AddHook(o) \/ AttachVlan(o) \/ AttachMaster(o)
    BY <2>1, <1>0, Zenon DEF Scan, ScanOverlooks, AddHook, AttachVlan, AttachMaster
  <2>2. ASSUME NEW o \in Outcome, AddLink(o)
        PROVE  SlotsExact'
    BY <2>2 DEF AddLink, IInv, TypeOK, TablesTypeOK, ControlInv, SlotsExact
  <2> QED
    BY <1>1, <2>1, <2>2, Zenon DEF Adding
<1>2. CASE Allowing
  BY <1>2, <1>0, Zenon DEF Allowing, AllowCheck, AllowIn, AllowOut, AllowUndo
<1>3. CASE Deleting
  <2>1. CASE UnhookSkip \/ \E o \in Outcome : DelLink(o) \/ Unhook(o)
    BY <2>1, <1>0, Zenon DEF DelLink, Unhook, UnhookSkip
  <2>2. CASE DelDone
    BY <2>2 DEF DelDone, IInv, TypeOK, TablesTypeOK, ControlInv, SlotsExact
  <2> QED
    BY <1>3, <2>1, <2>2, Zenon DEF Deleting
<1>4. CASE DeletingAll
  BY <1>4, <1>0, Zenon DEF DeletingAll, DelallNext, DelallLink, DelallUnhooked, DelallVisited
<1>5. CASE Resetting
  <2>1. CASE \E o \in Outcome : FlushIn(o) \/ FlushOut(o)
    BY <2>1, <1>0, Zenon DEF FlushIn, FlushOut
  <2>2. ASSUME NEW o \in Outcome, Defaults(o)
        PROVE  SlotsExact'
    BY <2>2, <1>0, Zenon DEF Defaults, SlotsExact
  <2> QED
    BY <1>5, <2>1, <2>2, Zenon DEF Resetting
<1>6. ASSUME NEW r \in Remotes, NEW m \in Macs, NEW v \in 0 .. NVlans, Packet(r, m, v)
      PROVE  SlotsExact'
  BY <1>6, <1>0, Zenon DEF Packet
<1>7. CASE Reject \/ Sigusr1 \/ SecondPasses \/ Administrator \/ UNCHANGED vars
  BY <1>7, <1>0, Zenon DEF Reject, Sigusr1, SecondPasses, Administrator, vars
<1> QED
  BY <1>1, <1>2, <1>3, <1>4, <1>5, <1>6, <1>7, Zenon DEF Next, Work

\* mac_index and tun->macs change together (provision.c:138-139, 260-261); a tunnel
\* that provision_del frees has no clients.
LEMMA IndexStep == IInv /\ [Next]_vars => IndexExact'
<1> SUFFICES ASSUME IInv, [Next]_vars PROVE IndexExact'
  BY Zenon
<1>0. UNCHANGED <<tunnels, macs, macIndex>> => IndexExact'
  BY Zenon DEF IInv, IndexExact
<1>1. CASE Adding
  <2>1. CASE Scan \/ ScanOverlooks \/ \E o \in Outcome : AddHook(o) \/ AttachVlan(o) \/ AttachMaster(o)
    BY <2>1, <1>0, Zenon DEF Scan, ScanOverlooks, AddHook, AttachVlan, AttachMaster
  <2>2. ASSUME NEW o \in Outcome, AddLink(o)
        PROVE  IndexExact'
    BY <2>2 DEF AddLink, IInv, TypeOK, TablesTypeOK, ControlInv, IndexExact
  <2> QED
    BY <1>1, <2>1, <2>2, Zenon DEF Adding
<1>2. CASE Allowing
  <2>1. CASE AllowCheck \/ \E o \in Outcome : AllowIn(o) \/ AllowUndo(o)
    BY <2>1, <1>0, Zenon DEF AllowCheck, AllowIn, AllowUndo
  <2>2. ASSUME NEW o \in Outcome, AllowOut(o)
        PROVE  IndexExact'
    <3>1. cur \in tunnels /\ cur \in Remotes /\ mac \in Macs /\ macIndex[mac] = None
      BY <2>2, Zenon DEF AllowOut, IInv, TypeOK, TablesTypeOK, ControlInv, PacketSteps, AllowSteps
    <3>2. CASE o = "ok"
      <4> SUFFICES ASSUME NEW m \in Macs, NEW r \in Remotes
                   PROVE  (macIndex'[m] = r) <=> (r \in tunnels' /\ m \in macs'[r])
        BY Zenon DEF IndexExact
      <4>1. macIndex'[m] = IF m = mac THEN cur ELSE macIndex[m]
        BY <3>1, <3>2, <2>2, Zenon DEF AllowOut, IInv, TypeOK, TablesTypeOK
      <4>2. macs'[r] = IF r = cur THEN macs[cur] \cup {mac} ELSE macs[r]
        BY <3>1, <3>2, <2>2, Zenon DEF AllowOut, IInv, TypeOK, TablesTypeOK
      <4> QED
        BY <3>1, <4>1, <4>2, <2>2 DEF AllowOut, IInv, IndexExact
    <3>3. CASE o # "ok"
      BY <3>3, <2>2, Zenon DEF AllowOut, IInv, IndexExact
    <3> QED
      BY <3>2, <3>3, Zenon
  <2> QED
    BY <1>2, <2>1, <2>2, Zenon DEF Allowing
<1>3. CASE Deleting
  <2>1. CASE UnhookSkip \/ \E o \in Outcome : DelLink(o) \/ Unhook(o)
    BY <2>1, <1>0, Zenon DEF DelLink, Unhook, UnhookSkip
  <2>2. CASE DelDone
    <3>1. cur \in tunnels /\ macs[cur] = {}
      BY <2>2, Zenon DEF DelDone, IInv, ControlInv, ClientsInv
    <3>2. /\ UNCHANGED <<macs, macIndex>>
          /\ \A r \in Remotes : r # cur => (r \in tunnels' <=> r \in tunnels)
      BY <2>2, Zenon DEF DelDone, Release
    <3> QED
      BY <3>1, <3>2, Zenon DEF IInv, IndexExact
  <2> QED
    BY <1>3, <2>1, <2>2, Zenon DEF Deleting
<1>4. CASE DeletingAll
  BY <1>4, <1>0, Zenon DEF DeletingAll, DelallNext, DelallLink, DelallUnhooked, DelallVisited
<1>5. CASE Resetting
  <2>1. CASE \E o \in Outcome : FlushIn(o) \/ FlushOut(o)
    BY <2>1, <1>0, Zenon DEF FlushIn, FlushOut
  <2>2. ASSUME NEW o \in Outcome, Defaults(o)
        PROVE  IndexExact'
    BY <2>2, <1>0, Zenon DEF Defaults, IndexExact
  <2> QED
    BY <1>5, <2>1, <2>2, Zenon DEF Resetting
<1>6. ASSUME NEW r \in Remotes, NEW m \in Macs, NEW v \in 0 .. NVlans, Packet(r, m, v)
      PROVE  IndexExact'
  BY <1>6, <1>0, Zenon DEF Packet
<1>7. CASE Reject \/ Sigusr1 \/ SecondPasses \/ Administrator \/ UNCHANGED vars
  BY <1>7, <1>0, Zenon DEF Reject, Sigusr1, SecondPasses, Administrator, vars
<1> QED
  BY <1>1, <1>2, <1>3, <1>4, <1>5, <1>6, <1>7, Zenon DEF Next, Work

\* Every step hands its successor the tunnel in the condition it expects.
LEMMA ControlStep == IInv /\ [Next]_vars => ControlInv'
<1> SUFFICES ASSUME IInv, [Next]_vars PROVE ControlInv'
  BY Zenon
<1>0. UNCHANGED <<tunnels, ready, macIndex, slots, cleanupPending, pc, cur, mac, i, todo>>
         => ControlInv'
  BY DEF IInv, ControlInv
<1>1. CASE Adding
  <2>1. CASE Scan \/ ScanOverlooks
    BY <2>1, SMTT(60) DEF Scan, ScanOverlooks, IInv, TypeOK, TablesTypeOK, ControlInv, PacketSteps, AddSteps, AllowSteps,
       ResetSteps, DelallSteps, Slots
  <2>2. ASSUME NEW o \in Outcome, AddLink(o)
        PROVE  ControlInv'
    BY <2>2, SMTT(60) DEF AddLink, GreAdd, Ends, IInv, TypeOK, TablesTypeOK, ControlInv, PacketSteps,
       AddSteps, AllowSteps, ResetSteps, DelallSteps, Slots, Hooks
  <2>3. ASSUME NEW o \in Outcome, AddHook(o)
        PROVE  ControlInv'
    BY <2>3 DEF AddHook, Ends, IInv, ControlInv, PacketSteps, AddSteps, AllowSteps, ResetSteps,
       DelallSteps, Slots, Hooks, Vlans, Return
  <2>4. ASSUME NEW o \in Outcome, AttachVlan(o)
        PROVE  ControlInv'
    BY <2>4, Zenon DEF AttachVlan, VlanAdd, Ends, IInv, TypeOK, TablesTypeOK, ControlInv, PacketSteps,
       AddSteps, AllowSteps, ResetSteps, DelallSteps
  <2>5. ASSUME NEW o \in Outcome, AttachMaster(o)
        PROVE  ControlInv'
    BY <2>5 DEF AttachMaster, VlanMaster, Ends, IInv, TypeOK, TablesTypeOK, ControlInv,
       PacketSteps, AddSteps, AllowSteps, ResetSteps, DelallSteps, Vlans, Return
  <2> QED
    BY <1>1, <2>1, <2>2, <2>3, <2>4, <2>5, Zenon DEF Adding
<1>2. CASE Allowing
  <2>1. CASE AllowCheck
    BY <2>1, Zenon DEF AllowCheck, IInv, ControlInv, PacketSteps, AddSteps, AllowSteps, ResetSteps,
       DelallSteps, Slots, Hooks
  <2>2. ASSUME NEW o \in Outcome, AllowIn(o)
        PROVE  ControlInv'
    BY <2>2, Zenon DEF AllowIn, AcceptInInsert, Ends, IInv, TypeOK, TablesTypeOK, ControlInv,
       PacketSteps, AddSteps, AllowSteps, ResetSteps, DelallSteps
  <2>3. ASSUME NEW o \in Outcome, AllowOut(o)
        PROVE  ControlInv'
    BY <2>3, Zenon DEF AllowOut, AcceptOutInsert, Ends, IInv, ControlInv, PacketSteps, AddSteps,
       AllowSteps, ResetSteps, DelallSteps
  <2>4. ASSUME NEW o \in Outcome, AllowUndo(o)
        PROVE  ControlInv'
    BY <2>4, Zenon DEF AllowUndo, Ends, IInv, ControlInv, PacketSteps, AddSteps, AllowSteps,
       ResetSteps, DelallSteps
  <2> QED
    BY <1>2, <2>1, <2>2, <2>3, <2>4, Zenon DEF Allowing
<1>3. CASE Deleting
  <2>1. ASSUME NEW o \in Outcome, DelLink(o)
        PROVE  ControlInv'
    BY <2>1, SMTT(60) DEF DelLink, Ends, IInv, ControlInv, PacketSteps, AddSteps, AllowSteps, ResetSteps,
       DelallSteps
  <2>2. ASSUME NEW o \in Outcome, Unhook(o)
        PROVE  ControlInv'
    BY <2>2, SMTT(60) DEF Unhook, JumpDelete, Ends, IInv, TypeOK, TablesTypeOK, ControlInv, PacketSteps,
       Slots, Hooks, Vlans, Return
  <2>3. CASE UnhookSkip
    BY <2>3, SMTT(60) DEF UnhookSkip, IInv, ControlInv, PacketSteps, AddSteps, AllowSteps, ResetSteps,
       DelallSteps, Slots, Hooks
  <2>4. CASE DelDone
    BY <2>4, SMTT(60) DEF DelDone, IInv, TypeOK, TablesTypeOK, ControlInv, PacketSteps, AddSteps, AllowSteps,
       ResetSteps, DelallSteps, Slots, Hooks, Vlans, Return
  <2> QED
    BY <1>3, <2>1, <2>2, <2>3, <2>4, Zenon DEF Deleting
<1>4. CASE DeletingAll
  <2>1. CASE DelallNext
    <3>1. PICK r \in todo : /\ cur' = r
                            /\ todo' = todo \ {r}
                            /\ ready' = [ready EXCEPT ![r] = FALSE]
      BY <2>1, Zenon DEF DelallNext
    <3>2. cleanupPending /\ cleanupPending' /\ pc' = "delall_del" /\ tunnels' = tunnels
      BY <2>1, Zenon DEF DelallNext, IInv, ControlInv, DelallSteps
    <3>3. r \in tunnels /\ todo' \subseteq tunnels
      BY <3>1, <3>2, Zenon DEF IInv, ControlInv
    <3>4. ~ready'[cur']
      BY <3>1, <3>3, Zenon DEF IInv, TypeOK, TablesTypeOK
    <3> QED
      BY <3>1, <3>2, <3>3, <3>4, Zenon DEF ControlInv, PacketSteps, AddSteps, AllowSteps
  <2>2. ASSUME NEW o \in Outcome, DelallLink(o)
        PROVE  ControlInv'
    BY <2>2, SMTT(60) DEF DelallLink, IInv, ControlInv, PacketSteps, AddSteps, AllowSteps, ResetSteps,
       DelallSteps
  <2>3. CASE DelallUnhooked
    BY <2>3, Zenon DEF DelallUnhooked, IInv, TypeOK, TablesTypeOK, ControlInv, PacketSteps, AddSteps,
       AllowSteps, ResetSteps, DelallSteps, Slots, Hooks, Vlans, Return
  <2>4. CASE DelallVisited
    BY <2>4, Zenon DEF DelallVisited, IInv, ControlInv, PacketSteps, AddSteps, AllowSteps, ResetSteps,
       DelallSteps, Vlans, Return
  <2> QED
    BY <1>4, <2>1, <2>2, <2>3, <2>4, Zenon DEF DeletingAll
<1>5. CASE Resetting
  <2>1. ASSUME NEW o \in Outcome, FlushIn(o)
        PROVE  ControlInv'
    BY <2>1, Zenon DEF FlushIn, IInv, ControlInv, PacketSteps, AddSteps, AllowSteps, ResetSteps,
       DelallSteps, Vlans, Return
  <2>2. ASSUME NEW o \in Outcome, FlushOut(o)
        PROVE  ControlInv'
    BY <2>2, SMTT(60) DEF FlushOut, ChainFlush, Ends, IInv, TypeOK, TablesTypeOK, ControlInv, PacketSteps,
       AddSteps, AllowSteps, ResetSteps, DelallSteps, Slots, Hooks, Vlans, Return
  <2>3. ASSUME NEW o \in Outcome, Defaults(o)
        PROVE  ControlInv'
    <3>1. cleanupPending /\ i \in 1 .. 3 /\ todo \subseteq tunnels
      BY <2>3, Zenon DEF Defaults, IInv, TypeOK, ControlInv, DelallSteps, ResetSteps
    <3>2. CASE o = "ok" /\ i = 3
      <4>1. pc' \in {"idle", "end"} /\ ~cleanupPending'
        BY <3>1, <3>2, <2>3 DEF Defaults, Return
      <4> QED
        BY <4>1, Zenon DEF ControlInv, PacketSteps, AddSteps, AllowSteps, DelallSteps, ResetSteps
    <3>3. CASE ~(o = "ok" /\ i = 3)
      <4>1. cleanupPending' = cleanupPending /\ todo' = todo /\ tunnels' = tunnels
        BY <3>3, <2>3, Zenon DEF Defaults
      <4>2. pc' \in {"idle", "end"} \/ (pc' = "defaults" /\ i' \in 1 .. 3)
        BY <3>1, <3>3, <2>3, SMTT(60) DEF Defaults, Return
      <4> QED
        BY <3>1, <4>1, <4>2, Zenon DEF ControlInv, PacketSteps, AddSteps, AllowSteps
    <3> QED
      BY <3>2, <3>3, Zenon
  <2> QED
    BY <1>5, <2>1, <2>2, <2>3, Zenon DEF Resetting
<1>6. ASSUME NEW r \in Remotes, NEW m \in Macs, NEW v \in 0 .. NVlans, Packet(r, m, v)
      PROVE  ControlInv'
  BY <1>6, SMTT(60) DEF Packet, IInv, TypeOK, TablesTypeOK, ControlInv, PacketSteps, AddSteps, AllowSteps,
     ResetSteps, DelallSteps, Slots, Hooks
<1>7. CASE Reject
  BY <1>7, Zenon DEF Reject, IInv, ControlInv, PacketSteps, AddSteps, AllowSteps, ResetSteps,
     DelallSteps, Slots, Hooks
<1>8. CASE Sigusr1
  BY <1>8, Zenon DEF Sigusr1, IInv, TypeOK, TablesTypeOK, ControlInv, PacketSteps, AddSteps,
     AllowSteps, Vlans, Return
<1>9. CASE SecondPasses \/ Administrator \/ UNCHANGED vars
  BY <1>9, <1>0, Zenon DEF SecondPasses, Administrator, vars
<1> QED
  BY <1>1, <1>2, <1>3, <1>4, <1>5, <1>6, <1>7, <1>8, <1>9, Zenon DEF Next, Work

\* Clients are only recorded for ready tunnels, and ready is only taken back with
\* cleanup_pending set.
LEMMA ClientsStep == IInv /\ [Next]_vars => ClientsInv'
<1> SUFFICES ASSUME IInv, [Next]_vars PROVE ClientsInv'
  BY Zenon
<1>0. UNCHANGED <<tunnels, ready, macs, cleanupPending>> \/ cleanupPending' => ClientsInv'
  BY DEF IInv, ClientsInv
<1>1. CASE Adding
  <2>1. CASE Scan \/ ScanOverlooks \/ \E o \in Outcome : AddHook(o) \/ AttachVlan(o)
    BY <2>1, <1>0, Zenon DEF Scan, ScanOverlooks, AddHook, AttachVlan
  <2>2. ASSUME NEW o \in Outcome, AddLink(o)
        PROVE  ClientsInv'
    BY <2>2, SMTT(60) DEF AddLink, IInv, TypeOK, TablesTypeOK, ClientsInv
  <2>3. ASSUME NEW o \in Outcome, AttachMaster(o)
        PROVE  ClientsInv'
    BY <2>3, Zenon DEF AttachMaster, IInv, TypeOK, TablesTypeOK, ClientsInv
  <2> QED
    BY <1>1, <2>1, <2>2, <2>3, Zenon DEF Adding
<1>2. CASE Allowing
  <2>1. CASE AllowCheck \/ \E o \in Outcome : AllowIn(o) \/ AllowUndo(o)
    BY <2>1, <1>0, Zenon DEF AllowCheck, AllowIn, AllowUndo
  <2>2. ASSUME NEW o \in Outcome, AllowOut(o)
        PROVE  ClientsInv'
    <3>1. cur \in tunnels /\ ready[cur]
      BY <2>2, Zenon DEF AllowOut, IInv, ControlInv, AllowSteps
    <3>2. \A r \in tunnels : r # cur => macs'[r] = macs[r]
      BY <2>2, Zenon DEF AllowOut, IInv, TypeOK, TablesTypeOK
    <3> QED
      BY <3>1, <3>2, <2>2, Zenon DEF AllowOut, IInv, ClientsInv
  <2> QED
    BY <1>2, <2>1, <2>2, Zenon DEF Allowing
<1>3. CASE Deleting
  <2>1. CASE UnhookSkip \/ \E o \in Outcome : DelLink(o) \/ Unhook(o)
    BY <2>1, <1>0, Zenon DEF DelLink, Unhook, UnhookSkip
  <2>2. CASE DelDone
    BY <2>2, Zenon DEF DelDone, IInv, ClientsInv
  <2> QED
    BY <1>3, <2>1, <2>2, Zenon DEF Deleting
<1>4. CASE DeletingAll
  <2>1. CASE DelallNext
    BY <2>1, <1>0, Zenon DEF DelallNext, IInv, ControlInv, DelallSteps
  <2>2. CASE DelallUnhooked \/ DelallVisited \/ \E o \in Outcome : DelallLink(o)
    BY <2>2, <1>0, Zenon DEF DelallLink, DelallUnhooked, DelallVisited
  <2> QED
    BY <1>4, <2>1, <2>2, Zenon DEF DeletingAll
<1>5. CASE Resetting
  <2>1. CASE \E o \in Outcome : FlushIn(o) \/ FlushOut(o)
    BY <2>1, <1>0, Zenon DEF FlushIn, FlushOut
  <2>2. ASSUME NEW o \in Outcome, Defaults(o)
        PROVE  ClientsInv'
    BY <2>2, <1>0, Zenon DEF Defaults, ClientsInv
  <2> QED
    BY <1>5, <2>1, <2>2, Zenon DEF Resetting
<1>6. ASSUME NEW r \in Remotes, NEW m \in Macs, NEW v \in 0 .. NVlans, Packet(r, m, v)
      PROVE  ClientsInv'
  BY <1>6, <1>0, Zenon DEF Packet
<1>7. CASE Reject \/ Sigusr1 \/ SecondPasses \/ Administrator \/ UNCHANGED vars
  BY <1>7, <1>0, Zenon DEF Reject, Sigusr1, SecondPasses, Administrator, vars
<1> QED
  BY <1>1, <1>2, <1>3, <1>4, <1>5, <1>6, <1>7, Zenon DEF Next, Work

\* provision_del finds no client to revoke.
LEMMA RevokeStep == IInv /\ [Next]_vars => RevokeUnreachable'
<1> SUFFICES ASSUME IInv, [Next]_vars PROVE RevokeUnreachable'
  BY Zenon
<1>0. pc # "revoke"
  BY Zenon DEF IInv, RevokeUnreachable
<1>1. CASE Adding
  <2>1. CASE Scan \/ ScanOverlooks
    BY <2>1, <1>0, Zenon DEF Scan, ScanOverlooks, RevokeUnreachable
  <2>2. CASE \E o \in Outcome : AddLink(o) \/ AddHook(o) \/ AttachVlan(o) \/ AttachMaster(o)
    BY <2>2, Zenon DEF AddLink, AddHook, AttachVlan, AttachMaster, RevokeUnreachable
  <2> QED
    BY <1>1, <2>1, <2>2, Zenon DEF Adding
<1>2. CASE Allowing
  BY <1>2, Zenon DEF Allowing, AllowCheck, AllowIn, AllowOut, AllowUndo, RevokeUnreachable
<1>3. CASE Deleting
  <2>1. ASSUME NEW o \in Outcome, DelLink(o)
        PROVE  RevokeUnreachable'
    <3>1. cur \in tunnels /\ ~ready[cur] /\ ~cleanupPending
      BY <2>1, Zenon DEF DelLink, IInv, ControlInv, PacketSteps
    <3>2. macs[cur] = {}
      BY <3>1, Zenon DEF IInv, ClientsInv
    <3> QED
      BY <3>2, <2>1, Zenon DEF DelLink, RevokeUnreachable
  <2>2. CASE UnhookSkip \/ \E o \in Outcome : Unhook(o)
    BY <2>2, <1>0, Zenon DEF Unhook, UnhookSkip, RevokeUnreachable
  <2>3. CASE DelDone
    BY <2>3, Zenon DEF DelDone, RevokeUnreachable
  <2> QED
    BY <1>3, <2>1, <2>2, <2>3, Zenon DEF Deleting
<1>4. CASE DeletingAll
  <2>1. CASE DelallNext \/ DelallUnhooked \/ \E o \in Outcome : DelallLink(o)
    BY <2>1, Zenon DEF DelallNext, DelallLink, DelallUnhooked, RevokeUnreachable
  <2>2. CASE DelallVisited
    BY <2>2, Zenon DEF DelallVisited, Return, RevokeUnreachable
  <2> QED
    BY <1>4, <2>1, <2>2, Zenon DEF DeletingAll
<1>5. CASE Resetting
  BY <1>5, Zenon DEF Resetting, FlushIn, FlushOut, Defaults, Return, RevokeUnreachable
<1>6. ASSUME NEW r \in Remotes, NEW m \in Macs, NEW v \in 0 .. NVlans, Packet(r, m, v)
      PROVE  RevokeUnreachable'
  BY <1>6, Zenon DEF Packet, RevokeUnreachable
<1>7. CASE Reject \/ Sigusr1
  BY <1>7, Zenon DEF Reject, Sigusr1, RevokeUnreachable
<1>8. CASE SecondPasses \/ Administrator \/ UNCHANGED vars
  BY <1>8, <1>0, Zenon DEF SecondPasses, Administrator, vars, RevokeUnreachable
<1> QED
  BY <1>1, <1>2, <1>3, <1>4, <1>5, <1>6, <1>7, <1>8, Zenon DEF Next, Work

-----------------------------------------------------------------------------
(* No bridged tunnel without filter.                                        *)


\* What iface_gre_del leaves of the link of the tunnel at work, whatever it reports.
LEMMA DelGone ==
  ASSUME IInv, NEW o \in Outcome, GreDel(id[cur], o)
  PROVE  /\ \A s \in Slots : Gone(s) => Gone(s)'
         /\ \A s \in Slots : link'[s] = Absent => bridged'[s] = {} /\ s \notin missed'
         /\ ~Fault(o) => bridged'[id[cur]] = {} \/ id[cur] \in missed'
         /\ jumps' = jumps /\ defaults' = defaults
<1>1. id[cur] \in Slots
  BY Zenon DEF IInv, TypeOK, TablesTypeOK
<1>2. \A s \in Slots : \/ link'[s] = link[s] /\ bridged'[s] = bridged[s]
                       \/ s = id[cur] /\ Done(o) /\ bridged'[s] = {}
  BY <1>1, Zenon DEF GreDel, IInv, TypeOK, KernelTypeOK
<1>3. \/ o = "missed" /\ missed' = missed \cup {id[cur]} /\ link[id[cur]] # Absent /\ link' = link
      \/ Done(o) /\ missed' = missed \ {id[cur]}
      \/ ~Done(o) /\ o # "missed" /\ missed' = missed
  BY Zenon DEF GreDel
<1>4. o = "refused" => link[id[cur]] = Absent /\ bridged' = bridged
  BY Zenon DEF GreDel, Ends
<1>5. Done(o) => bridged'[id[cur]] = {}
  BY <1>1, Zenon DEF GreDel, IInv, TypeOK, KernelTypeOK
<1>6. \A s \in Slots : link[s] = Absent => bridged[s] = {} /\ s \notin missed
  BY Zenon DEF IInv, BridgeInv
<1>7. ~Fault(o) => bridged'[id[cur]] = {} \/ id[cur] \in missed'
  BY <1>1, <1>3, <1>4, <1>5, <1>6, Zenon DEF Outcome
<1>8. jumps' = jumps /\ defaults' = defaults
  BY Zenon DEF GreDel
<1>9. ASSUME NEW s \in Slots PROVE Gone(s) => Gone(s)'
  BY <1>2, <1>3, <1>5, Zenon DEF Gone
<1>10. ASSUME NEW s \in Slots, link'[s] = Absent PROVE bridged'[s] = {} /\ s \notin missed'
  BY <1>2, <1>3, <1>6, <1>10, Zenon
<1> QED
  BY <1>7, <1>8, <1>9, <1>10, Zenon

\* Jumps come before ports, and go after the link.
LEMMA BridgeStep == IInv /\ [Next]_vars => BridgeInv'
<1> SUFFICES ASSUME IInv, [Next]_vars PROVE BridgeInv'
  BY Zenon
<1>a. /\ UNCHANGED <<link, bridged, jumps, missed, slots, hooks, cur, id, pc>>
      /\ i' = i \/ pc = "unhook"
      => BridgeInv'
  BY Zenon DEF IInv, BridgeInv, Gone
<1>b. /\ UNCHANGED <<link, bridged, jumps, missed, slots>>
      /\ pc' \notin AddSteps \cup {"unhook"}
      => BridgeInv'
  BY Zenon DEF IInv, BridgeInv, AddSteps, Gone
<1>1. CASE Adding
  <2>1. CASE Scan \/ ScanOverlooks
    BY <2>1, <1>b, Zenon DEF Scan, ScanOverlooks, AddSteps
  <2>2. ASSUME NEW o \in Outcome, AddLink(o)
        PROVE  BridgeInv'
    <3>1. i \in Slots /\ cur \in Remotes
      BY <2>2, Zenon DEF AddLink, IInv, TypeOK, TablesTypeOK, ControlInv
    <3>2. /\ \A s \in Slots : link'[s] = Absent => link[s] = Absent
          /\ bridged' = bridged /\ jumps' = jumps /\ missed' = missed /\ slots \subseteq slots'
      BY <3>1, <2>2, Zenon DEF AddLink, GreAdd, IInv, TypeOK, KernelTypeOK
    <3>3. pc' = "reject" \/ (pc' = "hook" /\ i' = 1 /\ hooks'[cur'] = {})
      BY <3>1, <2>2, ZenonT(60), ZenonT(60), ZenonT(60) DEF AddLink, IInv, TypeOK, TablesTypeOK
    <3> QED
      BY <3>2, <3>3 DEF IInv, BridgeInv, AddSteps, Hooks, Gone
  <2>3. ASSUME NEW o \in Outcome, AddHook(o)
        PROVE  BridgeInv'
    <3>1. i \in Hooks /\ cur \in Remotes /\ id[cur] \in Slots /\ hooks[cur] \subseteq Hooks
      BY <2>3, Zenon DEF AddHook, IInv, TypeOK, TablesTypeOK, ControlInv
    <3>2. /\ \A h \in Hooks : h < i => h \in hooks[cur]
          /\ \A h \in hooks[cur] : jumps[id[cur]][h] > 0
      BY <2>3, Zenon DEF AddHook, IInv, BridgeInv, AddSteps
    <3>3. \A s \in Slots, h \in Hooks : jumps[s][h] \in Nat
      BY SMT DEF IInv, TypeOK, KernelTypeOK
    <3>4. /\ \A s \in Slots, h \in Hooks : jumps[s][h] > 0 => jumps'[s][h] > 0
          /\ o = "ok" => jumps'[id[cur]][i] > 0
      BY <3>1, <3>3, <2>3, SMTT(60) DEF AddHook, JumpInsert, IInv, TypeOK, KernelTypeOK
    <3>5. /\ link' = link /\ bridged' = bridged /\ missed' = missed
          /\ slots' = slots /\ id' = id /\ cur' = cur
          /\ hooks'[cur] = IF o = "ok" THEN hooks[cur] \cup {i} ELSE hooks[cur]
      BY <3>1, <2>3, Zenon DEF AddHook, JumpInsert, IInv, TypeOK, TablesTypeOK
    <3>6. CASE o # "ok"
      BY <3>1, <3>4, <3>5, <3>6, <2>3, Zenon DEF AddHook, IInv, BridgeInv, AddSteps, Gone
    <3>7. CASE o = "ok"
      <4>1. \A h \in hooks'[cur] : jumps'[id[cur]][h] > 0
        BY <3>1, <3>2, <3>4, <3>5, <3>7, Zenon
      <4>2. /\ pc' = "hook" => \A h \in Hooks : h < i' => h \in hooks'[cur]
            /\ pc' = "vlan_add" => hooks'[cur] = Hooks
            /\ pc' \in {"hook", "vlan_add"}
        BY <3>1, <3>2, <3>5, <3>7, <2>3, SMTT(60) DEF AddHook, Hooks
      <4> QED
        BY <3>4, <3>5, <4>1, <4>2, Zenon DEF IInv, BridgeInv, Gone
    <3> QED
      BY <3>6, <3>7, Zenon
  <2>4. ASSUME NEW o \in Outcome, AttachVlan(o)
        PROVE  BridgeInv'
    BY <2>4, Zenon DEF AttachVlan, VlanAdd, Ends, IInv, TypeOK, KernelTypeOK, BridgeInv, AddSteps,
       Return, Gone
  <2>5. ASSUME NEW o \in Outcome, AttachMaster(o)
        PROVE  BridgeInv'
    <3>1. cur \in tunnels /\ id[cur] \in Slots
      BY <2>5, Zenon DEF AttachMaster, IInv, TypeOK, TablesTypeOK, ControlInv, AddSteps
    <3>2. id[cur] \in slots /\ \A h \in Hooks : jumps[id[cur]][h] > 0
      BY <3>1, <2>5 DEF AttachMaster, IInv, SlotsExact, BridgeInv, AddSteps
    <3>3. /\ \A s \in Slots : s # id[cur] => bridged'[s] = bridged[s]
          /\ bridged'[id[cur]] = bridged[id[cur]] \/ link[id[cur]] # Absent
      BY <3>1, <2>5, Zenon DEF AttachMaster, VlanMaster, Ends, IInv, TypeOK, KernelTypeOK
    <3>4. UNCHANGED <<link, jumps, missed, slots, id, cur, hooks>>
      BY <2>5, Zenon DEF AttachMaster, VlanMaster
    <3> QED
      BY <3>2, <3>3, <3>4, <2>5, Zenon DEF AttachMaster, IInv, BridgeInv, AddSteps, Gone
  <2> QED
    BY <1>1, <2>1, <2>2, <2>3, <2>4, <2>5, Zenon DEF Adding
<1>2. CASE Allowing
  BY <1>2, <1>b, Zenon DEF Allowing, AllowCheck, AllowIn, AcceptInInsert, AllowOut, AcceptOutInsert,
     AllowUndo, AcceptInDelete, AddSteps
<1>3. CASE Deleting
  <2>1. ASSUME NEW o \in Outcome, DelLink(o)
        PROVE  BridgeInv'
    <3>1. cur \in tunnels /\ id[cur] \in Slots
      BY <2>1, Zenon DEF DelLink, IInv, TypeOK, TablesTypeOK, ControlInv
    <3>2. GreDel(id[cur], o)
      BY <2>1, Zenon DEF DelLink
    <3>4. pc' \in {"reject", "unhook", "revoke"} /\ (pc' = "unhook" => ~Fault(o))
      BY <2>1, Zenon DEF DelLink
    <3>5. slots' = slots /\ id' = id /\ cur' = cur
      BY <2>1, Zenon DEF DelLink
    <3> QED
      BY <3>1, <3>2, <3>4, <3>5, DelGone, Zenon DEF IInv, BridgeInv, AddSteps, Gone
  <2>2. ASSUME NEW o \in Outcome, Unhook(o)
        PROVE  BridgeInv'
    BY <2>2, Zenon DEF Unhook, JumpDelete, Ends, IInv, TypeOK, KernelTypeOK, BridgeInv, AddSteps, Gone
  <2>3. CASE UnhookSkip
    BY <2>3, <1>a, Zenon DEF UnhookSkip
  <2>4. CASE DelDone
    <3>1. Gone(id[cur]) /\ pc' \in {"scan", "reject"}
      BY <2>4, Zenon DEF DelDone, IInv, BridgeInv
    <3>2. /\ link' = link /\ bridged' = bridged /\ jumps' = jumps /\ missed' = missed
          /\ slots' = slots \/ slots' = slots \ {id[cur]}
      BY <2>4, Zenon DEF DelDone
    <3> QED
      BY <3>1, <3>2, Zenon DEF IInv, BridgeInv, AddSteps, Gone
  <2> QED
    BY <1>3, <2>1, <2>2, <2>3, <2>4, Zenon DEF Deleting
<1>4. CASE DeletingAll
  <2>1. CASE DelallNext \/ DelallUnhooked
    BY <2>1, <1>b, Zenon DEF DelallNext, DelallUnhooked, AddSteps
  <2>2. ASSUME NEW o \in Outcome, DelallLink(o)
        PROVE  BridgeInv'
    <3>1. cur \in tunnels /\ id[cur] \in Slots
      BY <2>2, Zenon DEF DelallLink, IInv, TypeOK, TablesTypeOK, ControlInv
    <3>2. GreDel(id[cur], o)
      BY <2>2, Zenon DEF DelallLink
    <3>4. pc' \in {"delall", "unhook"} /\ (pc' = "unhook" => ~Fault(o))
      BY <2>2, Zenon DEF DelallLink
    <3>5. slots' = slots /\ id' = id /\ cur' = cur
      BY <2>2, Zenon DEF DelallLink
    <3> QED
      BY <3>1, <3>2, <3>4, <3>5, DelGone, Zenon DEF IInv, BridgeInv, AddSteps, Gone
  <2>3. CASE DelallVisited
    BY <2>3, <1>b, Zenon DEF DelallVisited, AddSteps, Return
  <2> QED
    BY <1>4, <2>1, <2>2, <2>3, Zenon DEF DeletingAll
<1>5. CASE Resetting
  <2>1. CASE \E o \in Outcome : FlushIn(o) \/ FlushOut(o)
    BY <2>1, <1>b, Zenon DEF FlushIn, ChainFlush, FlushOut, AddSteps, Return
  <2>2. ASSUME NEW o \in Outcome, Defaults(o)
        PROVE  BridgeInv'
    <3>1. /\ \A s \in Slots : Gone(s)
          /\ UNCHANGED <<link, bridged, missed>> /\ pc' \in {"defaults", "idle", "end"}
      BY <2>2, Zenon DEF Defaults, DefaultAppend, IInv, TypeOK, CleanupInv, ResetSteps, Return
    <3> QED
      BY <3>1, Zenon DEF IInv, BridgeInv, AddSteps, Gone
  <2> QED
    BY <1>5, <2>1, <2>2, Zenon DEF Resetting
<1>6. ASSUME NEW r \in Remotes, NEW m \in Macs, NEW v \in 0 .. NVlans, Packet(r, m, v)
      PROVE  BridgeInv'
  BY <1>6, <1>b, Zenon DEF Packet, AddSteps
<1>7. CASE Reject \/ Sigusr1
  BY <1>7, <1>b, Zenon DEF Reject, Sigusr1, AddSteps
<1>8. CASE SecondPasses \/ UNCHANGED vars
  BY <1>8, <1>a, Zenon DEF SecondPasses, vars
<1>9. CASE Administrator
  <2>1. /\ \A s \in Slots : Gone(s) => Gone(s)'
        /\ \A s \in Slots : link'[s] = Absent => bridged'[s] = {} /\ s \notin missed'
        /\ jumps' = jumps
    <3>1. PICK s \in Slots : AdminAddLink(s) \/ AdminDelLink(s)
      BY <1>9, Zenon DEF Administrator
    <3>2. CASE AdminAddLink(s)
      BY <3>2, Zenon DEF AdminAddLink, IInv, TypeOK, KernelTypeOK, BridgeInv, Gone
    <3>3. CASE AdminDelLink(s)
      BY <3>3, Zenon DEF AdminDelLink, IInv, TypeOK, KernelTypeOK, BridgeInv, Gone
    <3> QED
      BY <3>1, <3>2, <3>3, Zenon
  <2>2. pc = "unhook" => id[cur] \in Slots
    BY Zenon DEF IInv, TypeOK, TablesTypeOK
  <2> QED
    BY <2>1, <2>2, <1>9, Zenon DEF Administrator, IInv, BridgeInv
<1> QED
  BY <1>1, <1>2, <1>3, <1>4, <1>5, <1>6, <1>7, <1>8, <1>9, Zenon DEF Next, Work

\* The chains are only flushed when no tunnel has a port in a bridge.
LEMMA CleanupStep == IInv /\ [Next]_vars => CleanupInv'
<1> SUFFICES ASSUME IInv, [Next]_vars PROVE CleanupInv'
  BY Zenon
<1>a. ~cleanupPending /\ UNCHANGED <<defaults, cleanupPending>> /\ pc' \notin ResetSteps => CleanupInv'
  BY SMTT(60) DEF IInv, CleanupInv, ResetSteps
<1>b. /\ UNCHANGED <<defaults, cleanupPending, bridged, missed, pc, ok, tunnels, todo, cur, id>>
      /\ i' = i \/ pc = "unhook"
      => CleanupInv'
  BY DEF IInv, CleanupInv, Gone
<1>c. pc \in PacketSteps => ~cleanupPending
  BY ZenonT(60), ZenonT(60), ZenonT(60) DEF IInv, ControlInv
<1>1. CASE Adding
  BY <1>1, <1>a, <1>c DEF Adding, Scan, ScanOverlooks, AddLink, GreAdd, AddHook, JumpInsert, AttachVlan, VlanAdd,
     AttachMaster, VlanMaster, PacketSteps, ResetSteps
<1>2. CASE Allowing
  BY <1>2, <1>a, <1>c, Zenon DEF Allowing, AllowCheck, AllowIn, AcceptInInsert, AllowOut,
     AcceptOutInsert, AllowUndo, AcceptInDelete, PacketSteps, ResetSteps
<1>3. CASE Deleting
  <2>1. ASSUME NEW o \in Outcome, DelLink(o)
        PROVE  CleanupInv'
    BY <2>1, <1>a, <1>c, Zenon DEF DelLink, GreDel, PacketSteps, ResetSteps
  <2>2. CASE UnhookSkip \/ \E o \in Outcome : Unhook(o)
    BY <2>2, <1>b, Zenon DEF Unhook, JumpDelete, UnhookSkip
  <2>3. CASE DelDone
    BY <2>3, <1>a, Zenon DEF DelDone, ResetSteps
  <2> QED
    BY <1>3, <2>1, <2>2, <2>3, Zenon DEF Deleting
<1>4. CASE DeletingAll
  <2>1. CASE DelallNext
    BY <2>1, Zenon DEF DelallNext, IInv, BridgeInv, CleanupInv, ResetSteps, AddSteps, Gone
  <2>2. ASSUME NEW o \in Outcome, DelallLink(o)
        PROVE  CleanupInv'
    <3>1. cur \in tunnels /\ id[cur] \in Slots
      BY <2>2, Zenon DEF DelallLink, IInv, TypeOK, TablesTypeOK, ControlInv
    <3>2. GreDel(id[cur], o)
      BY <2>2, Zenon DEF DelallLink
    <3>3. /\ \A s \in Slots : Gone(s) => Gone(s)'
          /\ ~Fault(o) => bridged'[id[cur]] = {} \/ id[cur] \in missed'
          /\ defaults' = defaults
      BY <3>2, DelGone, Zenon
    <3>4. /\ pc' \in {"delall", "unhook"}
          /\ tunnels' = tunnels /\ id' = id /\ todo' = todo /\ cur' = cur
          /\ ok' => ok /\ ~Fault(o)
          /\ cleanupPending' = cleanupPending
      BY <2>2, Zenon DEF DelallLink
    <3>5. \A r \in tunnels : id[r] \in Slots
      BY Zenon DEF IInv, TypeOK, TablesTypeOK
    <3>6. pc = "delall_del" /\ cleanupPending
      BY <2>2, Zenon DEF DelallLink, IInv, ControlInv, DelallSteps
    <3>7. ok' => \A r \in tunnels \ todo : Gone(id[r])'
      BY <3>3, <3>4, <3>5, <3>6, Zenon DEF IInv, CleanupInv, Gone
    <3> QED
      BY <3>3, <3>4, <3>5, <3>7, Zenon DEF IInv, CleanupInv, ResetSteps, Gone
  <2>3. CASE DelallUnhooked
    BY <2>3, Zenon DEF DelallUnhooked, IInv, TypeOK, TablesTypeOK, CleanupInv, ResetSteps, Gone
  <2>4. CASE DelallVisited
    <3>1. ok => \A s \in Slots : Gone(s)
      <4> SUFFICES ASSUME ok, NEW s \in Slots, ~Gone(s) PROVE FALSE
        BY Zenon
      <4>1. PICK r \in tunnels : id[r] = s
        BY DEF IInv, BridgeInv, SlotsExact
      <4> QED
        BY <4>1, <2>4, Zenon DEF DelallVisited, IInv, ControlInv, CleanupInv, DelallSteps
    <3>2. pc' \in {"idle", "end"} \/ (pc' = "flush_in" /\ ok)
      BY <2>4, Zenon DEF DelallVisited, Return, IInv, TypeOK
    <3> QED
      BY <3>1, <3>2, <2>4, Zenon DEF DelallVisited, IInv, CleanupInv, ResetSteps, Gone
  <2> QED
    BY <1>4, <2>1, <2>2, <2>3, <2>4, Zenon DEF DeletingAll
<1>5. CASE Resetting
  <2>1. ASSUME NEW o \in Outcome, FlushIn(o)
        PROVE  CleanupInv'
    <3>1. cleanupPending' /\ \A s \in Slots : Gone(s)'
      BY <2>1, Zenon DEF FlushIn, ChainFlush, IInv, ControlInv, CleanupInv, DelallSteps, ResetSteps, Gone
    <3>2. pc' \in {"idle", "end", "flush_out", "defaults"} /\ (pc' = "defaults" => i' = 1)
      BY <2>1, Zenon DEF FlushIn, Return, IInv, TypeOK
    <3> QED
      BY <3>1, <3>2 DEF CleanupInv, Gone
  <2>2. ASSUME NEW o \in Outcome, FlushOut(o)
        PROVE  CleanupInv'
    <3>1. cleanupPending' /\ \A s \in Slots : Gone(s)'
      BY <2>2, Zenon DEF FlushOut, ChainFlush, IInv, ControlInv, CleanupInv, DelallSteps, ResetSteps, Gone
    <3>2. pc' \in {"idle", "end", "flush_out", "defaults"} /\ (pc' = "defaults" => i' = 1)
      BY <2>2, Zenon DEF FlushOut, Return, IInv, TypeOK
    <3> QED
      BY <3>1, <3>2 DEF CleanupInv, Gone
  <2>3. ASSUME NEW o \in Outcome, Defaults(o)
        PROVE  CleanupInv'
    <3>1. /\ i \in 1 .. 3 /\ cleanupPending
          /\ \A s \in Slots : Gone(s)'
          /\ i = 3 => "dropIn" \in defaults
      BY <2>3, Zenon DEF Defaults, DefaultAppend, IInv, ControlInv, CleanupInv, DelallSteps, ResetSteps,
         Gone
    <3>2. pc' \in {"idle", "end"} \/ (pc' = "defaults" /\ o = "ok" /\ i < 3 /\ i' = i + 1)
      BY <2>3, Zenon DEF Defaults, Return, IInv, TypeOK
    <3>3. CASE o = "ok" /\ i = 3
      <4>1. pc' \in {"idle", "end"}
        BY <3>2, <3>3
      <4>2. defaults' = defaults \cup {"dropOut"}
        BY <3>3, <2>3 DEF Defaults, DefaultAppend, DefaultRule
      <4> QED
        BY <3>1, <3>3, <4>1, <4>2, Zenon DEF CleanupInv, ResetSteps, Gone
    <3>4. CASE ~(o = "ok" /\ i = 3)
      <4>1. cleanupPending'
        BY <3>1, <3>4, <2>3, Zenon DEF Defaults
      <4>2. pc' = "defaults" /\ i' = 3 => "dropIn" \in defaults'
        <5>1. pc' = "defaults" /\ i' = 3 => o = "ok" /\ i' = i + 1
          BY <3>2, Zenon
        <5>2. i \in 1 .. 3
          BY <2>3, Zenon DEF Defaults, IInv, ControlInv
        <5>3. i' = 3 /\ i' = i + 1 => i = 2
          BY <5>2
        <5>4. i = 2 => DefaultRule(i) = "dropIn"
          BY DEF DefaultRule
        <5>5. o = "ok" => DefaultRule(i) \in defaults'
          BY <2>3, Zenon DEF Defaults, DefaultAppend
        <5> QED
          BY <5>1, <5>3, <5>4, <5>5, Zenon
      <4> QED
        BY <3>1, <3>2, <4>1, <4>2, Zenon DEF CleanupInv, Gone
    <3> QED
      BY <3>3, <3>4, Zenon
  <2> QED
    BY <1>5, <2>1, <2>2, <2>3, Zenon DEF Resetting
<1>6. ASSUME NEW r \in Remotes, NEW m \in Macs, NEW v \in 0 .. NVlans, Packet(r, m, v)
      PROVE  CleanupInv'
  BY <1>6, <1>a, Zenon DEF Packet, ResetSteps
<1>7. CASE Reject
  BY <1>7, <1>a, <1>c, Zenon DEF Reject, PacketSteps, ResetSteps
<1>8. CASE Sigusr1
  BY <1>8, Zenon DEF Sigusr1, IInv, TypeOK, KernelTypeOK, TablesTypeOK, ControlInv, SlotsExact,
     BridgeInv, CleanupInv, ResetSteps, AddSteps, Return, Gone
<1>9. CASE SecondPasses \/ UNCHANGED vars
  BY <1>9, <1>b, Zenon DEF SecondPasses, vars
<1>10. CASE Administrator
  <2>1. /\ \A s \in Slots : Gone(s) => Gone(s)'
        /\ defaults' = defaults
    <3>1. PICK s \in Slots : AdminAddLink(s) \/ AdminDelLink(s)
      BY <1>10, Zenon DEF Administrator
    <3>2. CASE AdminAddLink(s)
      BY <3>2, Zenon DEF AdminAddLink, Gone
    <3>3. CASE AdminDelLink(s)
      BY <3>3, Zenon DEF AdminDelLink, IInv, TypeOK, KernelTypeOK, Gone
    <3> QED
      BY <3>1, <3>2, <3>3, Zenon
  <2>2. \A r \in tunnels : id[r] \in Slots
    BY Zenon DEF IInv, TypeOK, TablesTypeOK
  <2> QED
    BY <2>1, <2>2, <1>10, Zenon DEF Administrator, IInv, CleanupInv, Gone
<1> QED
  BY <1>1, <1>2, <1>3, <1>4, <1>5, <1>6, <1>7, <1>8, <1>9, <1>10, Zenon DEF Next, Work

\* IInv is inductive.
LEMMA NextIInv == IInv /\ [Next]_vars => IInv'
  BY KernelTypeStep, TablesTypeStep, PcTypeStep, SlotsStep, IndexStep, ControlStep, ClientsStep,
     BridgeStep, CleanupStep, RevokeStep, Zenon DEF IInv, TypeOK

-----------------------------------------------------------------------------
(* Records of the kernel's state.  They are exact if a command that fails has *)
(* had no effect, however often commands fail.                             *)

\* Each bit of firewall_hooks records one jump; a cleanup that has gone well so far
\* has left none of the tunnels behind it with a jump.
HooksInv ==
  /\ HookBitsExact
  /\ pc = "hook" => \A h \in hooks[cur] : h < i
  /\ pc \in {"delall", "delall_del", "unhook"} /\ cleanupPending /\ ok =>
        \A r \in tunnels \ todo : (pc # "delall" /\ r = cur) \/ hooks[r] = {}
  /\ pc \in ResetSteps => \A r \in tunnels : hooks[r] = {}

\* Interface s is a tunnel the daemon has not lost sight of.
Known(s) == link[s] \in Remotes /\ s \notin missed

\* Each such interface belongs to the tunnel recorded in its slot.
LinksInv ==
  /\ \A s \in Slots : Known(s) => link[s] \in tunnels /\ id[link[s]] = s
  /\ pc = "unhook" => ~Known(id[cur])
  /\ pc \in {"delall", "delall_del", "unhook"} /\ cleanupPending /\ ok =>
        \A r \in tunnels \ todo : (pc = "delall_del" /\ r = cur) \/ ~Known(id[r])
  /\ pc \in ResetSteps => \A s \in Slots : ~Known(s)

\* Which jumps are recorded for slot s.
LEMMA BitsOf ==
  ASSUME IInv, HookBitsExact
  PROVE  /\ \A r \in tunnels : \A h \in Hooks : jumps[id[r]][h] = IF h \in hooks[r] THEN 1 ELSE 0
         /\ \A s \in Slots \ slots : \A h \in Hooks : jumps[s][h] = 0
<1>1. ASSUME NEW r \in tunnels, NEW h \in Hooks
      PROVE  jumps[id[r]][h] = IF h \in hooks[r] THEN 1 ELSE 0
  <2>1. id[r] \in Slots
    BY Zenon DEF IInv, TypeOK, TablesTypeOK
  <2>2. (\E q \in tunnels : id[q] = id[r] /\ h \in hooks[q]) <=> h \in hooks[r]
    BY Zenon DEF IInv, SlotsExact
  <2> QED
    BY <2>1, <2>2, Zenon DEF HookBitsExact
<1>2. ASSUME NEW s \in Slots \ slots, NEW h \in Hooks PROVE jumps[s][h] = 0
  <2>1. \A q \in tunnels : id[q] # s
    BY DEF IInv, SlotsExact
  <2> QED
    BY <2>1, Zenon DEF HookBitsExact
<1> QED
  BY <1>1, <1>2, Zenon

\* firewall_hooks and the jumps change together (iface_ebtables.c).
LEMMA HooksStep == ASSUME ~Ambiguous, IInv, HooksInv, [Next]_vars PROVE HooksInv'
<1>a. UNCHANGED <<jumps, tunnels, id, hooks>> => HookBitsExact'
  BY DEF HooksInv, HookBitsExact
<1>b. /\ UNCHANGED <<jumps, tunnels, id, hooks>>
      /\ pc' \notin {"hook", "delall", "delall_del", "unhook"} \cup ResetSteps
      => HooksInv'
  BY <1>a, Zenon DEF HooksInv
<1>c. /\ UNCHANGED <<jumps, tunnels, id, hooks, cur, pc, cleanupPending, ok, todo>>
      /\ i' = i \/ pc # "hook"
      => HooksInv'
  BY <1>a, SMTT(30) DEF HooksInv
<1>d. pc \in PacketSteps => ~cleanupPending
  BY Zenon DEF IInv, ControlInv
<1>1. CASE Adding
  <2>1. CASE Scan \/ ScanOverlooks
    BY <2>1, <1>b, Zenon DEF Scan, ScanOverlooks, ResetSteps
  <2>2. ASSUME NEW o \in Outcome, AddLink(o)
        PROVE  HooksInv'
    <3>1. i \in Slots \ slots /\ cur \in Remotes \ tunnels
      BY <2>2, Zenon DEF AddLink, IInv, TypeOK, TablesTypeOK, ControlInv
    <3>2. CASE o # "ok"
      BY <3>2, <2>2, <1>b, Zenon DEF AddLink, GreAdd, ResetSteps
    <3>3. CASE o = "ok"
      <4>1. /\ tunnels' = tunnels \cup {cur} /\ jumps' = jumps /\ pc' = "hook" /\ cur' = cur
            /\ \A r \in Remotes : /\ id'[r] = IF r = cur THEN i ELSE id[r]
                                  /\ hooks'[r] = IF r = cur THEN {} ELSE hooks[r]
        <5>1. /\ tunnels' = tunnels \cup {cur} /\ jumps' = jumps /\ pc' = "hook" /\ cur' = cur
              /\ id' = [id EXCEPT ![cur] = i] /\ hooks' = [hooks EXCEPT ![cur] = {}]
          BY <3>3, <2>2, Zenon DEF AddLink, GreAdd
        <5>2. DOMAIN id = Remotes /\ DOMAIN hooks = Remotes
          BY Zenon DEF IInv, TypeOK, TablesTypeOK
        <5> QED
          BY <5>1, <5>2, Zenon
      <4>2. tunnels \subseteq Remotes
        BY Zenon DEF IInv, TypeOK, TablesTypeOK
      <4>3. ASSUME NEW s \in Slots, NEW h \in Hooks
            PROVE  (\E r \in tunnels' : id'[r] = s /\ h \in hooks'[r])
                      <=> (\E r \in tunnels : id[r] = s /\ h \in hooks[r])
        BY <3>1, <4>1, <4>2, Zenon
      <4>4. HookBitsExact'
        BY <4>1, <4>3 DEF HooksInv, HookBitsExact
      <4>5. hooks'[cur'] = {}
        BY <3>1, <4>1, Zenon
      <4> QED
        BY <4>1, <4>4, <4>5, Zenon DEF HooksInv, ResetSteps
    <3> QED
      BY <3>2, <3>3, Zenon
  <2>3. ASSUME NEW o \in Outcome, AddHook(o)
        PROVE  HooksInv'
    <3>1. cur \in tunnels /\ i \in Hooks /\ tunnels \subseteq Remotes /\ id[cur] \in Slots
      BY <2>3, Zenon DEF AddHook, IInv, TypeOK, TablesTypeOK, ControlInv, AddSteps
    <3>2. CASE o # "ok"
      <4>1. jumps' = jumps
        BY <3>2, <2>3, Zenon DEF AddHook, JumpInsert, Ends
      <4> QED
        BY <3>2, <4>1, <2>3, <1>b, Zenon DEF AddHook, ResetSteps
    <3>3. CASE o = "ok"
      <4>1. \A h \in hooks[cur] : h < i /\ h \in Nat
        BY <3>1, <2>3 DEF AddHook, HooksInv, IInv, TypeOK, TablesTypeOK, Hooks
      <4>2. i \in Nat /\ ~(i < i)
        BY <3>1 DEF Hooks
      <4>3. /\ tunnels' = tunnels /\ id' = id /\ cur' = cur
            /\ pc' \in {"hook", "vlan_add"} /\ (pc' = "hook" => i' = i + 1)
            /\ \A r \in Remotes : hooks'[r] = IF r = cur THEN hooks[cur] \cup {i} ELSE hooks[r]
        BY <3>1, <3>3, <2>3, Zenon DEF AddHook, IInv, TypeOK, TablesTypeOK
      <4>4. \A s \in Slots, h \in Hooks :
               jumps'[s][h] = IF s = id[cur] /\ h = i THEN jumps[s][h] + 1 ELSE jumps[s][h]
        BY <3>1, <3>3, <2>3, Zenon DEF AddHook, JumpInsert, IInv, TypeOK, KernelTypeOK
      <4>5. ASSUME NEW s \in Slots, NEW h \in Hooks
            PROVE  jumps'[s][h] = IF \E r \in tunnels' : id'[r] = s /\ h \in hooks'[r] THEN 1 ELSE 0
        <5>1. CASE s = id[cur] /\ h = i
          <6>1. \E r \in tunnels' : id'[r] = s /\ h \in hooks'[r]
            BY <3>1, <4>3, <5>1, Zenon
          <6>2. jumps[s][h] = 0
            BY <3>1, <4>1, <4>2, <5>1, BitsOf, Zenon DEF HooksInv
          <6>3. jumps'[s][h] = 1
            BY <4>4, <5>1, <6>2, SMTT(60)
          <6> QED
            BY <6>1, <6>3, Zenon
        <5>2. CASE ~(s = id[cur] /\ h = i)
          <6>1. (\E r \in tunnels' : id'[r] = s /\ h \in hooks'[r])
                  <=> (\E r \in tunnels : id[r] = s /\ h \in hooks[r])
            BY <3>1, <4>3, <5>2, Zenon
          <6> QED
            BY <4>4, <5>2, <6>1 DEF HooksInv, HookBitsExact
        <5> QED
          BY <5>1, <5>2, Zenon
      <4>6. HookBitsExact'
        BY <4>5, Zenon DEF HookBitsExact
      <4>7. pc' = "hook" => \A h \in hooks'[cur'] : h < i'
        <5>1. \A h \in hooks'[cur'] : h = i \/ h \in hooks[cur]
          BY <3>1, <4>3, Zenon
        <5> QED
          BY <4>1, <4>2, <4>3, <5>1
      <4> QED
        BY <4>3, <4>6, <4>7, Zenon DEF HooksInv, ResetSteps
    <3> QED
      BY <3>2, <3>3, Zenon
  <2>4. ASSUME NEW o \in Outcome, AttachVlan(o) \/ AttachMaster(o)
        PROVE  HooksInv'
    BY <2>4, <1>b, Zenon DEF AttachVlan, VlanAdd, AttachMaster, VlanMaster, ResetSteps
  <2> QED
    BY <1>1, <2>1, <2>2, <2>3, <2>4, Zenon DEF Adding
<1>2. CASE Allowing
  BY <1>2, <1>b, Zenon DEF Allowing, AllowCheck, AllowIn, AcceptInInsert, AllowOut, AcceptOutInsert,
     AllowUndo, AcceptInDelete, ResetSteps
<1>3. CASE Deleting
  <2>1. ASSUME NEW o \in Outcome, DelLink(o)
        PROVE  HooksInv'
    <3>1. ~cleanupPending' /\ UNCHANGED <<jumps, tunnels, id, hooks>>
          /\ pc' \notin {"hook"} \cup ResetSteps
      BY <2>1, <1>d, Zenon DEF DelLink, GreDel, PacketSteps, ResetSteps
    <3> QED
      BY <3>1, <1>a, Zenon DEF HooksInv
  <2>2. ASSUME NEW o \in Outcome, Unhook(o)
        PROVE  HooksInv'
    <3>1. cur \in tunnels /\ i \in hooks[cur] /\ i \in Hooks /\ tunnels \subseteq Remotes
          /\ id[cur] \in Slots
      BY <2>2, Zenon DEF Unhook, IInv, TypeOK, TablesTypeOK, ControlInv
    <3>2. CASE o # "ok"
      <4>1. jumps' = jumps
        BY <3>2, <2>2, Zenon DEF Unhook, JumpDelete, Ends
      <4> QED
        BY <3>2, <4>1, <2>2, <1>c, Zenon DEF Unhook
    <3>3. CASE o = "ok"
      <4>1. /\ tunnels' = tunnels /\ id' = id /\ cur' = cur /\ pc = "unhook"
            /\ UNCHANGED <<pc, todo, ok, cleanupPending>>
            /\ \A r \in Remotes : hooks'[r] = IF r = cur THEN hooks[cur] \ {i} ELSE hooks[r]
        BY <3>1, <3>3, <2>2, Zenon DEF Unhook, IInv, TypeOK, TablesTypeOK
      <4>2. \A s \in Slots, h \in Hooks :
               jumps'[s][h] = IF s = id[cur] /\ h = i THEN jumps[s][h] - 1 ELSE jumps[s][h]
        BY <3>1, <3>3, <2>2, Zenon DEF Unhook, JumpDelete, IInv, TypeOK, KernelTypeOK
      <4>3. ASSUME NEW s \in Slots, NEW h \in Hooks
            PROVE  jumps'[s][h] = IF \E r \in tunnels' : id'[r] = s /\ h \in hooks'[r] THEN 1 ELSE 0
        <5>1. CASE s = id[cur] /\ h = i
          <6>1. ~\E r \in tunnels' : id'[r] = s /\ h \in hooks'[r]
            BY <3>1, <4>1, <5>1, Zenon DEF IInv, SlotsExact
          <6>2. jumps[s][h] = 1
            BY <3>1, <5>1, BitsOf, Zenon DEF HooksInv
          <6>3. jumps'[s][h] = 0
            BY <4>2, <5>1, <6>2, SMTT(60)
          <6> QED
            BY <6>1, <6>3, Zenon
        <5>2. CASE ~(s = id[cur] /\ h = i)
          <6>1. (\E r \in tunnels' : id'[r] = s /\ h \in hooks'[r])
                  <=> (\E r \in tunnels : id[r] = s /\ h \in hooks[r])
            BY <3>1, <4>1, <5>2, Zenon
          <6> QED
            BY <4>2, <5>2, <6>1 DEF HooksInv, HookBitsExact
        <5> QED
          BY <5>1, <5>2, Zenon
      <4>4. HookBitsExact'
        BY <4>3, Zenon DEF HookBitsExact
      <4>5. pc' \notin {"hook"} \cup ResetSteps
        BY <4>1, Zenon DEF ResetSteps
      <4> QED
        BY <3>1, <4>1, <4>4, <4>5, Zenon DEF HooksInv
    <3> QED
      BY <3>2, <3>3, Zenon
  <2>3. CASE UnhookSkip
    BY <2>3, <1>c, Zenon DEF UnhookSkip
  <2>4. CASE DelDone
    <3>1. pc' \in {"scan", "reject"} /\ jumps' = jumps /\ hooks' = hooks
      BY <2>4, Zenon DEF DelDone
    <3>2. CASE hooks[cur] # {}
      BY <3>1, <3>2, <2>4, <1>b, Zenon DEF DelDone, ResetSteps
    <3>3. CASE hooks[cur] = {}
      <4>1. /\ tunnels' = tunnels \ {cur} /\ tunnels \subseteq Remotes
            /\ \A r \in Remotes : r # cur => id'[r] = id[r]
        BY <3>3, <2>4, Zenon DEF DelDone, IInv, TypeOK, TablesTypeOK
      <4>2. ASSUME NEW s \in Slots, NEW h \in Hooks
            PROVE  (\E r \in tunnels' : id'[r] = s /\ h \in hooks'[r])
                     <=> (\E r \in tunnels : id[r] = s /\ h \in hooks[r])
        BY <3>1, <3>3, <4>1, Zenon
      <4>3. HookBitsExact'
        BY <3>1, <4>2 DEF HooksInv, HookBitsExact
      <4> QED
        BY <3>1, <4>3, Zenon DEF HooksInv, ResetSteps
    <3> QED
      BY <3>2, <3>3, Zenon
  <2> QED
    BY <1>3, <2>1, <2>2, <2>3, <2>4, Zenon DEF Deleting
<1>4. CASE DeletingAll
  <2>1. CASE DelallNext
    <3>1. UNCHANGED <<jumps, tunnels, id, hooks, ok, cleanupPending>> /\ pc = "delall"
      BY <2>1, Zenon DEF DelallNext
    <3>2. pc' = "delall_del" /\ \E r \in todo : cur' = r /\ todo' = todo \ {r}
      BY <2>1, Zenon DEF DelallNext
    <3>3. HookBitsExact'
      BY <3>1, <1>a, Zenon
    <3> QED
      BY <3>1, <3>2, <3>3, Zenon DEF HooksInv, ResetSteps
  <2>2. ASSUME NEW o \in Outcome, DelallLink(o)
        PROVE  HooksInv'
    <3>1. /\ UNCHANGED <<jumps, tunnels, id, hooks, cur, todo, cleanupPending>> /\ pc = "delall_del"
          /\ pc' \in {"delall", "unhook"} /\ (ok' => ok /\ pc' = "unhook")
      BY <2>2, Zenon DEF DelallLink, GreDel
    <3>2. HookBitsExact'
      BY <3>1, <1>a, Zenon
    <3> QED
      BY <3>1, <3>2, Zenon DEF HooksInv, ResetSteps
  <2>3. CASE DelallUnhooked
    <3>1. /\ UNCHANGED <<jumps, tunnels, id, hooks, cur, todo, cleanupPending>> /\ pc = "unhook"
          /\ pc' = "delall" /\ (ok' => ok /\ hooks[cur] = {})
      BY <2>3, Zenon DEF DelallUnhooked
    <3>2. HookBitsExact'
      BY <3>1, <1>a, Zenon
    <3> QED
      BY <3>1, <3>2, Zenon DEF HooksInv, ResetSteps
  <2>4. CASE DelallVisited
    <3>1. /\ UNCHANGED <<jumps, tunnels, id, hooks>> /\ pc = "delall" /\ todo = {}
          /\ pc' \in {"flush_in", "idle", "end"} /\ (pc' = "flush_in" => ok)
      BY <2>4, Zenon DEF DelallVisited, Return
    <3>2. HookBitsExact' /\ cleanupPending
      BY <3>1, <1>a, Zenon DEF IInv, ControlInv, DelallSteps
    <3> QED
      BY <3>1, <3>2, Zenon DEF HooksInv, ResetSteps
  <2> QED
    BY <1>4, <2>1, <2>2, <2>3, <2>4, Zenon DEF DeletingAll
<1>5. CASE Resetting
  <2>1. ASSUME NEW o \in Outcome, FlushIn(o) \/ FlushOut(o)
        PROVE  HooksInv'
    <3>1. /\ UNCHANGED <<jumps, tunnels, id, hooks>> /\ pc \in ResetSteps
          /\ pc' \notin {"hook", "delall", "delall_del", "unhook"}
      BY <2>1, Zenon DEF FlushIn, FlushOut, ChainFlush, Return, ResetSteps
    <3>2. HookBitsExact'
      BY <3>1, <1>a, Zenon
    <3> QED
      BY <3>1, <3>2, Zenon DEF HooksInv
  <2>2. ASSUME NEW o \in Outcome, Defaults(o)
        PROVE  HooksInv'
    <3>1. /\ jumps' = jumps /\ hooks' = hooks /\ pc \in ResetSteps
          /\ pc' \notin {"hook", "delall", "delall_del", "unhook"}
          /\ tunnels' = {} \/ (tunnels' = tunnels /\ id' = id)
      BY <2>2, Zenon DEF Defaults, DefaultAppend, Return, ResetSteps
    <3>2. \A r \in tunnels : hooks[r] = {}
      BY <3>1, Zenon DEF HooksInv
    <3>3. HookBitsExact'
      BY <3>1, <3>2, Zenon DEF HooksInv, HookBitsExact
    <3> QED
      BY <3>1, <3>2, <3>3, Zenon DEF HooksInv
  <2> QED
    BY <1>5, <2>1, <2>2, Zenon DEF Resetting
<1>6. ASSUME NEW r \in Remotes, NEW m \in Macs, NEW v \in 0 .. NVlans, Packet(r, m, v)
      PROVE  HooksInv'
  BY <1>6, <1>b, Zenon DEF Packet, ResetSteps
<1>7. CASE Reject
  BY <1>7, <1>b, Zenon DEF Reject, ResetSteps
<1>8. CASE Sigusr1
  <2>1. UNCHANGED <<jumps, tunnels, id, hooks>> /\ pc' = "delall" /\ todo' = tunnels
    BY <1>8, Zenon DEF Sigusr1
  <2>2. HookBitsExact'
    BY <2>1, <1>a, Zenon
  <2> QED
    BY <2>1, <2>2, Zenon DEF HooksInv, ResetSteps
<1>9. CASE SecondPasses \/ Administrator \/ UNCHANGED vars
  BY <1>9, <1>c, Zenon DEF SecondPasses, Administrator, AdminAddLink, AdminDelLink, vars
<1> QED
  BY <1>1, <1>2, <1>3, <1>4, <1>5, <1>6, <1>7, <1>8, <1>9, ZenonT(40), ZenonT(60) DEF Next, Work

\* The record of a tunnel and its interface come and go together (provision.c:86-101,
\* 213-231, 246-262).
LEMMA LinksStep == ASSUME ~Ambiguous, IInv, LinksInv, [Next]_vars PROVE LinksInv'
<1>a. UNCHANGED <<tunnels, id>> /\ (\A s \in Slots : Known(s)' => Known(s) /\ link'[s] = link[s])
         => \A s \in Slots : Known(s)' => link'[s] \in tunnels' /\ id'[link'[s]] = s
  BY Zenon DEF LinksInv
<1>b. /\ UNCHANGED <<tunnels, id, link, missed>>
      /\ pc' \notin {"delall", "delall_del", "unhook"} \cup ResetSteps
      => LinksInv'
  BY Zenon DEF LinksInv, Known
<1>c. /\ UNCHANGED <<tunnels, id, cur, pc, cleanupPending, ok, todo>>
      /\ \A s \in Slots : Known(s)' => Known(s) /\ link'[s] = link[s]
      => LinksInv'
  <2>1. \A r \in Remotes : id[r] \in Slots
    BY Zenon DEF IInv, TypeOK, TablesTypeOK
  <2>2. cur \in Remotes /\ tunnels \subseteq Remotes
    BY Zenon DEF IInv, TypeOK, TablesTypeOK
  <2>3. (\A s \in Slots : Known(s)' => Known(s) /\ link'[s] = link[s])
        => \A s \in Slots : ~Known(s) => ~Known(s)'
    BY Zenon
  <2> QED
    BY <1>a, <2>1, <2>2, <2>3, SMTT(30) DEF LinksInv, Known
<1>d. pc \in PacketSteps => ~cleanupPending
  BY Zenon DEF IInv, ControlInv
<1>1. CASE Adding
  <2>1. CASE Scan \/ ScanOverlooks
    BY <2>1, <1>b, Zenon DEF Scan, ScanOverlooks, ResetSteps
  <2>2. ASSUME NEW o \in Outcome, AddLink(o)
        PROVE  LinksInv'
    <3>1. i \in Slots \ slots /\ cur \in Remotes \ tunnels
      BY <2>2, Zenon DEF AddLink, IInv, TypeOK, TablesTypeOK, ControlInv
    <3>2. CASE o # "ok"
      <4>1. link' = link
        BY <3>2, <2>2, Zenon DEF AddLink, GreAdd, Ends
      <4> QED
        BY <3>2, <4>1, <2>2, <1>b, Zenon DEF AddLink, GreAdd, ResetSteps
    <3>3. CASE o = "ok"
      <4>1. /\ tunnels' = tunnels \cup {cur} /\ pc' = "hook"
            /\ \A r \in Remotes : id'[r] = IF r = cur THEN i ELSE id[r]
            /\ \A s \in Slots : link'[s] = IF s = i THEN cur ELSE link[s]
            /\ missed' = missed
        BY <3>1, <3>3, <2>2, ZenonT(40), ZenonT(60), ZenonT(60), ZenonT(60) DEF AddLink, GreAdd, IInv, TypeOK, TablesTypeOK, KernelTypeOK
      <4>2. ASSUME NEW s \in Slots, Known(s)'
            PROVE  link'[s] \in tunnels' /\ id'[link'[s]] = s
        <5>1. CASE s = i
          BY <3>1, <4>1, <5>1, Zenon
        <5>2. CASE s # i
          <6>1. link'[s] = link[s] /\ link[s] \in tunnels /\ id[link[s]] = s
            BY <4>1, <4>2, <5>2, Zenon DEF LinksInv, Known
          <6> QED
            BY <3>1, <4>1, <4>2, <6>1, Zenon DEF Known
        <5> QED
          BY <5>1, <5>2, Zenon
      <4> QED
        BY <4>1, <4>2, Zenon DEF LinksInv, ResetSteps
    <3> QED
      BY <3>2, <3>3, Zenon
  <2>3. ASSUME NEW o \in Outcome, AddHook(o) \/ AttachVlan(o) \/ AttachMaster(o)
        PROVE  LinksInv'
    BY <2>3, <1>b, Zenon DEF AddHook, JumpInsert, AttachVlan, VlanAdd, AttachMaster, VlanMaster,
       ResetSteps
  <2> QED
    BY <1>1, <2>1, <2>2, <2>3, Zenon DEF Adding
<1>2. CASE Allowing
  BY <1>2, <1>b, Zenon DEF Allowing, AllowCheck, AllowIn, AcceptInInsert, AllowOut, AcceptOutInsert,
     AllowUndo, AcceptInDelete, ResetSteps
<1>e. ASSUME NEW o \in Outcome, GreDel(id[cur], o)
      PROVE  /\ \A s \in Slots : Known(s)' => Known(s) /\ link'[s] = link[s]
             /\ ~Fault(o) => link'[id[cur]] = Absent \/ id[cur] \in missed'
  <2>1. id[cur] \in Slots
    BY Zenon DEF IInv, TypeOK, TablesTypeOK
  <2>2. o = "refused" => link[id[cur]] = Absent /\ link' = link
    BY <1>e, Zenon DEF GreDel, Ends
  <2>3. Done(o) => link'[id[cur]] = Absent
    BY <2>1, <1>e, Zenon DEF GreDel, IInv, TypeOK, KernelTypeOK
  <2>4. \A s \in Slots : \/ link'[s] = link[s] /\ (s \in missed => s \in missed')
                         \/ link'[s] = Absent
    BY <2>1, <1>e, Zenon DEF GreDel, IInv, TypeOK, KernelTypeOK
  <2>5. o = "missed" => id[cur] \in missed'
    BY <1>e, Zenon DEF GreDel
  <2> QED
    BY <2>2, <2>3, <2>4, <2>5, Zenon DEF Outcome, Known
<1>3. CASE Deleting
  <2>1. ASSUME NEW o \in Outcome, DelLink(o)
        PROVE  LinksInv'
    <3>1. /\ ~cleanupPending' /\ UNCHANGED <<tunnels, id, cur>>
          /\ pc' \notin ResetSteps /\ (pc' = "unhook" => ~Fault(o))
      BY <2>1, <1>d, Zenon DEF DelLink, PacketSteps, ResetSteps
    <3>2. /\ \A s \in Slots : Known(s)' => Known(s) /\ link'[s] = link[s]
          /\ ~Fault(o) => link'[id[cur]] = Absent \/ id[cur] \in missed'
      BY <2>1, <1>e, Zenon DEF DelLink
    <3> QED
      BY <3>1, <3>2, <1>a, ZenonT(60), ZenonT(60) DEF LinksInv, Known
  <2>2. CASE UnhookSkip \/ \E o \in Outcome : Unhook(o)
    BY <2>2, <1>c, Zenon DEF UnhookSkip, Unhook, JumpDelete, Known
  <2>3. CASE DelDone
    <3>1. pc' \in {"scan", "reject"} /\ link' = link /\ missed' = missed /\ ~Known(id[cur])
      BY <2>3, Zenon DEF DelDone, LinksInv
    <3>2. CASE hooks[cur] # {}
      BY <3>1, <3>2, <2>3, <1>b, Zenon DEF DelDone, ResetSteps
    <3>3. CASE hooks[cur] = {}
      <4>1. /\ tunnels' = tunnels \ {cur}
            /\ \A r \in Remotes : r # cur => id'[r] = id[r]
        BY <3>3, <2>3, Zenon DEF DelDone, IInv, TypeOK, TablesTypeOK
      <4>2. ASSUME NEW s \in Slots, Known(s)'
            PROVE  link'[s] \in tunnels' /\ id'[link'[s]] = s
        BY <3>1, <4>1, <4>2, ZenonT(60) DEF LinksInv, Known
      <4> QED
        BY <3>1, <4>2, Zenon DEF LinksInv, ResetSteps
    <3> QED
      BY <3>2, <3>3, Zenon
  <2> QED
    BY <1>3, <2>1, <2>2, <2>3, Zenon DEF Deleting
<1>4. CASE DeletingAll
  <2>1. CASE DelallNext
    <3>1. UNCHANGED <<tunnels, id, link, missed, ok, cleanupPending>> /\ pc = "delall"
      BY <2>1, Zenon DEF DelallNext
    <3>2. pc' = "delall_del" /\ \E r \in todo : cur' = r /\ todo' = todo \ {r}
      BY <2>1, Zenon DEF DelallNext
    <3> QED
      BY <3>1, <3>2, Zenon DEF LinksInv, ResetSteps, Known
  <2>2. ASSUME NEW o \in Outcome, DelallLink(o)
        PROVE  LinksInv'
    <3>1. /\ UNCHANGED <<tunnels, id, cur, todo, cleanupPending>> /\ pc = "delall_del"
          /\ pc' \in {"delall", "unhook"} /\ (pc' = "unhook" => ~Fault(o))
          /\ ok' => ok /\ pc' = "unhook"
      BY <2>2, Zenon DEF DelallLink
    <3>2. /\ \A s \in Slots : Known(s)' => Known(s) /\ link'[s] = link[s]
          /\ ~Fault(o) => link'[id[cur]] = Absent \/ id[cur] \in missed'
      BY <2>2, <1>e, Zenon DEF DelallLink
    <3>3. \A r \in tunnels : id[r] \in Slots
      BY Zenon DEF IInv, TypeOK, TablesTypeOK
    <3>4. ASSUME ok', cleanupPending, NEW r \in tunnels \ todo
          PROVE  ~(link'[id[r]] \in Remotes /\ id[r] \notin missed')
      <4>1. CASE r = cur
        BY <3>1, <3>2, <3>4, <4>1, Zenon
      <4>2. CASE r # cur
        <5>1. ~Known(id[r])
          BY <3>1, <3>4, <4>2, Zenon DEF LinksInv
        <5> QED
          BY <3>2, <3>3, <5>1, Zenon DEF Known
      <4> QED
        BY <4>1, <4>2, Zenon
    <3> QED
      BY <3>1, <3>2, <3>4, <1>a, ZenonT(60), ZenonT(60) DEF LinksInv, ResetSteps, Known
  <2>3. CASE DelallUnhooked
    <3>1. /\ UNCHANGED <<tunnels, id, link, missed, cur, todo, cleanupPending>> /\ pc = "unhook"
          /\ pc' = "delall" /\ (ok' => ok)
      BY <2>3, Zenon DEF DelallUnhooked
    <3> QED
      BY <3>1, Zenon DEF LinksInv, ResetSteps, Known
  <2>4. CASE DelallVisited
    <3>1. /\ UNCHANGED <<tunnels, id, link, missed>> /\ pc = "delall" /\ todo = {}
          /\ pc' \in {"flush_in", "idle", "end"} /\ (pc' = "flush_in" => ok)
      BY <2>4, Zenon DEF DelallVisited, Return
    <3>2. cleanupPending
      BY <3>1, Zenon DEF IInv, ControlInv, DelallSteps
    <3>3. ok => \A s \in Slots : ~Known(s)
      BY <3>1, <3>2, Zenon DEF LinksInv
    <3> QED
      BY <3>1, <3>2, <3>3, Zenon DEF LinksInv, ResetSteps, Known
  <2> QED
    BY <1>4, <2>1, <2>2, <2>3, <2>4, Zenon DEF DeletingAll
<1>5. CASE Resetting
  <2>1. /\ link' = link /\ missed' = missed /\ pc \in ResetSteps
        /\ pc' \notin {"delall", "delall_del", "unhook"}
    BY <1>5, Zenon DEF Resetting, FlushIn, FlushOut, ChainFlush, Defaults, DefaultAppend, Return,
       ResetSteps
  <2> QED
    BY <2>1, Zenon DEF LinksInv, Known
<1>6. ASSUME NEW r \in Remotes, NEW m \in Macs, NEW v \in 0 .. NVlans, Packet(r, m, v)
      PROVE  LinksInv'
  BY <1>6, <1>b, Zenon DEF Packet, ResetSteps
<1>7. CASE Reject
  BY <1>7, <1>b, Zenon DEF Reject, ResetSteps
<1>8. CASE Sigusr1
  <2>1. UNCHANGED <<tunnels, id, link, missed>> /\ pc' = "delall" /\ todo' = tunnels
    BY <1>8, Zenon DEF Sigusr1
  <2> QED
    BY <2>1, Zenon DEF LinksInv, ResetSteps, Known
<1>9. CASE SecondPasses \/ UNCHANGED vars
  BY <1>9, <1>c, Zenon DEF SecondPasses, vars, Known
<1>10. CASE Administrator
  <2>1. \A s \in Slots : Known(s)' => Known(s) /\ link'[s] = link[s]
    <3>1. PICK s \in Slots : AdminAddLink(s) \/ AdminDelLink(s)
      BY <1>10, Zenon DEF Administrator
    <3> QED
      BY <3>1, Zenon DEF AdminAddLink, AdminDelLink, IInv, TypeOK, KernelTypeOK, Known
  <2> QED
    BY <2>1, <1>10, <1>c, Zenon DEF Administrator
<1> QED
  BY <1>1, <1>2, <1>3, <1>4, <1>5, <1>6, <1>7, <1>8, <1>9, <1>10, Zenon DEF Next, Work

=============================================================================
