-------------------------- MODULE ProvisionProofs --------------------------
(***************************************************************************)
(* Safety of Provision and of the life of the daemon around it, for every  *)
(* value of the constants: any number of remotes, MACs, slots and VLANs,   *)
(* crashes at any instant, any number of faults, definite, ambiguous or    *)
(* unnoticed, and any interference by the administrator.  Of a tunnel      *)
(* whose deletion failed unnoticed (missed, iface_gre.c:145) the theorems  *)
(* say nothing; they say that it is the only one to suffer.                *)
(*                                                                         *)
(* IInv is inductive (ProvisionInductive); ErrnoInv and PermitInv are      *)
(* inductive relative to it.                                               *)
(*                                                                         *)
(* In the loop of Daemon IInv of Provision holds.  Around it the argument  *)
(* is about what a process finds: a rule can only jump to a chain that     *)
(* exists, so a start that could create SOFTGRE_IN finds no jump from the  *)
(* nat table, and therefore no bridged tunnel.                             *)
(***************************************************************************)
EXTENDS Daemon, Query, ProvisionInductive

USE KernelAssumption, ProvisionAssumption
    DEF kernelVars, tableVars, packetVars, cleanVars, daemonVars, Ok, Done, Fault,
        Eligible, Track, Bit, Release

\* The state in which main enters its loop satisfies the inductive invariant.
LEMMA InitIInv == Init => IInv
<1> SUFFICES ASSUME Init PROVE IInv
  BY Zenon
<1>1. KernelTypeOK
  BY Zenon DEF Init, KernelInit, KernelTypeOK
<1>2. TablesTypeOK
  <2>1. 0 \in Slots
    BY DEF Slots
  <2>2. /\ id \in [Remotes -> Slots]
        /\ ready \in [Remotes -> BOOLEAN]
        /\ hooks \in [Remotes -> SUBSET Hooks]
        /\ macs \in [Remotes -> SUBSET Macs]
        /\ macIndex \in [Macs -> Remotes \cup {None}]
    BY <2>1, Zenon DEF Init, TablesInit
  <2> QED
    BY <2>2, Zenon DEF Init, TablesInit, TablesTypeOK
<1>3. TypeOK
  BY <1>1, <1>2, Zenon DEF Init, TypeOK, Steps, LoopPhases
<1>4. SlotsExact /\ ClientsInv /\ RevokeUnreachable
  BY Zenon DEF Init, TablesInit, SlotsExact, ClientsInv, RevokeUnreachable
<1>5. IndexExact
  BY Zenon DEF Init, TablesInit, IndexExact
<1>6. ControlInv
  BY Zenon DEF Init, TablesInit, ControlInv, PacketSteps, AddSteps, AllowSteps, DelallSteps,
     ResetSteps
<1>7. BridgeInv
  BY Zenon DEF Init, KernelInit, BridgeInv, Gone, AddSteps
<1>8. CleanupInv
  <2>1. {"dropIn", "dropOut"} \subseteq defaults
    BY DEF Init, DefaultRules, DefaultRule
  <2> QED
    BY <2>1, Zenon DEF Init, CleanupInv, Gone, ResetSteps
<1> QED
  BY <1>3, <1>4, <1>5, <1>6, <1>7, <1>8, Zenon DEF IInv

\* IInv holds throughout.
LEMMA Invariant == Spec => []IInv
  BY InitIInv, NextIInv, PTL DEF Spec

\* No step confuses a capacity limit with a failure.
LEMMA ErrnoStep == IInv /\ ErrnoInv /\ [Next]_vars => ErrnoInv'
<1> SUFFICES ASSUME IInv, ErrnoInv, [Next]_vars PROVE ErrnoInv'
  BY Zenon
<1>a. pc' \notin PacketSteps /\ (pc' # "unhook" \/ cleanupPending') => ErrnoInv'
  BY Zenon DEF ErrnoInv, CapacityIsNotFailure, PacketSteps
<1>b. UNCHANGED <<pc, errno, failed, cleanupPending, again, hooks, cur, i>> => ErrnoInv'
  BY DEF ErrnoInv, CapacityIsNotFailure
<1>c. pc \in DelallSteps => cleanupPending
  BY Zenon DEF IInv, ControlInv
<1>d. cur \in Remotes /\ i \in Nat /\ \A h \in hooks[cur] : h \in 1 .. 3
  BY Zenon DEF IInv, TypeOK, TablesTypeOK, Hooks
<1>1. CASE Adding
  <2>1. CASE Scan \/ ScanOverlooks
    <3>1. CASE Scan
      BY <3>1, ZenonT(60) DEF Scan, ErrnoInv, CapacityIsNotFailure, PacketSteps
    <3>2. CASE ScanOverlooks
      <4>1. /\ UNCHANGED <<errno, failed, cleanupPending, again, hooks, cur, i>>
            /\ pc = "scan" /\ pc' = "gre_add"
        BY <3>2, Zenon DEF ScanOverlooks
      <4> QED
        BY <4>1, ZenonT(60) DEF ErrnoInv, CapacityIsNotFailure, PacketSteps
    <3> QED
      BY <2>1, <3>1, <3>2, Zenon
  <2>2. ASSUME NEW o \in Outcome, AddLink(o)
        PROVE  ErrnoInv'
    BY <2>2, Zenon DEF AddLink, ErrnoInv, CapacityIsNotFailure, PacketSteps, ErrnoLink, Failed
  <2>3. ASSUME NEW o \in Outcome, AddHook(o)
        PROVE  ErrnoInv'
    BY <2>3, Zenon DEF AddHook, IInv, ControlInv, ErrnoInv, CapacityIsNotFailure, PacketSteps,
       ErrnoHelper, Failed
  <2>4. ASSUME NEW o \in Outcome, AttachVlan(o)
        PROVE  ErrnoInv'
    BY <2>4, Zenon DEF AttachVlan, ErrnoInv, CapacityIsNotFailure, PacketSteps, Failed, ErrnoLink
  <2>5. ASSUME NEW o \in Outcome, AttachMaster(o)
        PROVE  ErrnoInv'
    BY <2>5, Zenon DEF AttachMaster, ErrnoInv, CapacityIsNotFailure, ErrnoLink, Failed, PacketSteps
  <2> QED
    BY <1>1, <2>1, <2>2, <2>3, <2>4, <2>5, Zenon DEF Adding
<1>2. CASE Allowing
  <2>1. CASE AllowCheck
    BY <2>1, Zenon DEF AllowCheck, IInv, ControlInv, ErrnoInv, CapacityIsNotFailure, PacketSteps
  <2>2. CASE \E o \in Outcome : AllowIn(o) \/ AllowOut(o) \/ AllowUndo(o)
    BY <2>2, Zenon DEF AllowIn, AllowOut, AllowUndo, IInv, ControlInv, ErrnoInv, CapacityIsNotFailure,
       PacketSteps, ErrnoHelper, Failed
  <2> QED
    BY <1>2, <2>1, <2>2, Zenon DEF Allowing
<1>3. CASE Deleting
  <2>1. ASSUME NEW o \in Outcome, DelLink(o)
        PROVE  ErrnoInv'
    <3>1. /\ errno # "ENOSPC" /\ (again <=> ~failed) /\ ~cleanupPending
          /\ pc' \in {"reject", "unhook", "revoke"} /\ i' = 1
          /\ hooks' = hooks /\ cur' = cur /\ again' = again
      BY <2>1, Zenon DEF DelLink, ErrnoInv, PacketSteps, IInv, ControlInv
    <3>2. ~\E h \in hooks'[cur'] : h < i'
      BY <1>d, <3>1
    <3>3. /\ errno' # "ENOSPC"
          /\ failed' <=> failed \/ Fault(o)
          /\ pc' = "reject" => failed'
          /\ pc' = "unhook" => ~Fault(o)
      BY <3>1, <2>1, Zenon DEF DelLink, ErrnoLink
    <3> QED
      BY <3>1, <3>2, <3>3, Zenon DEF ErrnoInv, CapacityIsNotFailure, PacketSteps
  <2>2. ASSUME NEW o \in Outcome, Unhook(o)
        PROVE  ErrnoInv'
    <3>1. i \in hooks[cur] /\ i' = i + 1 /\ cur' = cur
      BY <2>2, Zenon DEF Unhook
    <3>2. hooks'[cur] = IF o = "ok" THEN hooks[cur] \ {i} ELSE hooks[cur]
      BY <1>d, <2>2, Zenon DEF Unhook, IInv, TypeOK, TablesTypeOK
    <3>3. (\E h \in hooks'[cur] : h < i') <=> o # "ok" \/ (\E h \in hooks[cur] : h < i)
      <4>1. CASE o = "ok"
        BY <1>d, <3>1, <3>2, <4>1
      <4>2. CASE o # "ok"
        BY <1>d, <3>1, <3>2, <4>2
      <4> QED
        BY <4>1, <4>2, Zenon
    <3>4. failed' <=> failed \/ o # "ok"
      BY <2>2, Zenon DEF Unhook, Failed
    <3>5. errno # "ENOSPC" => errno' # "ENOSPC"
      BY <2>2, Zenon DEF Unhook, ErrnoHelper
    <3>6. pc = "unhook" /\ UNCHANGED <<pc, again, cleanupPending>>
      BY <2>2, Zenon DEF Unhook
    <3> QED
      BY <3>1, <3>3, <3>4, <3>5, <3>6, Zenon DEF ErrnoInv, CapacityIsNotFailure, PacketSteps
  <2>3. CASE UnhookSkip
    <3>1. (\E h \in hooks[cur] : h < i) <=> (\E h \in hooks'[cur'] : h < i')
      BY <1>d, <2>3 DEF UnhookSkip
    <3> QED
      BY <3>1, <2>3, Zenon DEF UnhookSkip, ErrnoInv, CapacityIsNotFailure, PacketSteps
  <2>4. CASE DelDone
    <3>1. i = 4
      BY <2>4 DEF DelDone, IInv, ControlInv, Hooks
    <3>2. /\ errno # "ENOSPC"
          /\ ~again => failed
          /\ again => (failed <=> hooks[cur] # {})
      BY <1>d, <3>1, <2>4 DEF DelDone, ErrnoInv
    <3>3. /\ pc' = "reject" \/ (pc' = "scan" /\ again /\ hooks[cur] = {})
          /\ pc' = "reject" => ~again \/ hooks[cur] # {}
          /\ errno' = errno /\ failed' = failed
      BY <2>4, Zenon DEF DelDone
    <3> QED
      BY <3>2, <3>3, Zenon DEF ErrnoInv, CapacityIsNotFailure
  <2> QED
    BY <1>3, <2>1, <2>2, <2>3, <2>4, Zenon DEF Deleting
<1>4. CASE DeletingAll
  <2>1. CASE DelallNext \/ DelallUnhooked
    BY <2>1, <1>a, Zenon DEF DelallNext, DelallUnhooked, PacketSteps
  <2>2. ASSUME NEW o \in Outcome, DelallLink(o)
        PROVE  ErrnoInv'
    BY <2>2, <1>a, <1>c, Zenon DEF DelallLink, PacketSteps, DelallSteps
  <2>3. CASE DelallVisited
    BY <2>3, <1>a, Zenon DEF DelallVisited, Return, PacketSteps
  <2> QED
    BY <1>4, <2>1, <2>2, <2>3, Zenon DEF DeletingAll
<1>5. CASE Resetting
  BY <1>5, <1>a, Zenon DEF Resetting, FlushIn, FlushOut, Defaults, Return, PacketSteps
<1>6. ASSUME NEW r \in Remotes, NEW m \in Macs, NEW v \in 0 .. NVlans, Packet(r, m, v)
      PROVE  ErrnoInv'
  BY <1>6, Zenon DEF Packet, ErrnoInv, CapacityIsNotFailure, PacketSteps
<1>7. CASE Reject \/ Sigusr1
  BY <1>7, <1>a, Zenon DEF Reject, Sigusr1, PacketSteps
<1>8. CASE SecondPasses \/ Administrator \/ UNCHANGED vars
  BY <1>8, <1>b, Zenon DEF SecondPasses, Administrator, vars
<1> QED
  BY <1>1, <1>2, <1>3, <1>4, <1>5, <1>6, <1>7, <1>8, Zenon DEF Next, Work

\* Only a full cleanup takes a permission from a recorded client.
LEMMA PermitStep == IInv /\ PermitInv /\ [Next]_vars => PermitInv'
<1> SUFFICES ASSUME IInv, PermitInv, [Next]_vars PROVE PermitInv'
  BY Zenon
<1>a. /\ UNCHANGED <<tunnels, macs, cleanupPending, acceptIn, acceptOut, id>>
      /\ pc' # "allow_out" \/ UNCHANGED <<pc, cur, mac>>
      => PermitInv'
  BY DEF PermitInv, RecordedIsPermitted
<1>b. cleanupPending' /\ pc' # "allow_out" => PermitInv'
  BY Zenon DEF PermitInv, RecordedIsPermitted
<1>c. pc \in DelallSteps => cleanupPending
  BY Zenon DEF IInv, ControlInv
<1>t. /\ tunnels \subseteq Remotes /\ id \in [Remotes -> Slots] /\ cur \in Remotes /\ mac \in Macs
      /\ macs \in [Remotes -> SUBSET Macs]
      /\ acceptIn \in [Slots -> [Macs -> Nat]] /\ acceptOut \in [Slots -> [Macs -> Nat]]
  BY Zenon DEF IInv, TypeOK, TablesTypeOK, KernelTypeOK
<1>1. CASE Adding
  <2>1. CASE Scan \/ ScanOverlooks \/ \E o \in Outcome : AddHook(o) \/ AttachVlan(o) \/ AttachMaster(o)
    BY <2>1, <1>a, Zenon DEF Scan, ScanOverlooks, AddHook, JumpInsert, AttachVlan, VlanAdd, AttachMaster, VlanMaster
  <2>2. ASSUME NEW o \in Outcome, AddLink(o)
        PROVE  PermitInv'
    <3>1. UNCHANGED <<cleanupPending, acceptIn, acceptOut>> /\ pc' # "allow_out"
      BY <2>2, Zenon DEF AddLink, GreAdd
    <3>2. \A r \in tunnels' : \/ macs'[r] = {}
                              \/ r \in tunnels /\ id'[r] = id[r] /\ macs'[r] = macs[r]
      BY <2>2 DEF AddLink, IInv, TypeOK, TablesTypeOK
    <3> QED
      BY <3>1, <3>2, Zenon DEF PermitInv, RecordedIsPermitted
  <2> QED
    BY <1>1, <2>1, <2>2, Zenon DEF Adding
<1>2. CASE Allowing
  <2>1. CASE AllowCheck
    BY <2>1, <1>a, Zenon DEF AllowCheck
  <2>2. ASSUME NEW o \in Outcome, AllowIn(o)
        PROVE  PermitInv'
    <3>1. /\ UNCHANGED <<tunnels, id, macs, cur, mac, cleanupPending, acceptOut>>
          /\ pc' = "allow_out" => o = "ok"
          /\ acceptIn' = IF Done(o) THEN [acceptIn EXCEPT ![id[cur]][mac] = @ + 1] ELSE acceptIn
      BY <2>2, Zenon DEF AllowIn, AcceptInInsert
    <3>2. /\ \A s \in Slots, m \in Macs : acceptIn[s][m] > 0 => acceptIn'[s][m] > 0
          /\ o = "ok" => acceptIn'[id[cur]][mac] > 0
      BY <3>1, <1>t, SMTT(60)
    <3> QED
      BY <3>1, <3>2, <1>t, Zenon DEF PermitInv, RecordedIsPermitted
  <2>3. ASSUME NEW o \in Outcome, AllowOut(o)
        PROVE  PermitInv'
    <3>1. /\ UNCHANGED <<tunnels, id, cleanupPending, acceptIn>> /\ pc = "allow_out" /\ pc' # "allow_out"
          /\ macs' = IF o = "ok" THEN [macs EXCEPT ![cur] = @ \cup {mac}] ELSE macs
          /\ acceptOut' = IF Done(o) THEN [acceptOut EXCEPT ![id[cur]][mac] = @ + 1] ELSE acceptOut
      BY <2>3, Zenon DEF AllowOut, AcceptOutInsert
    <3>2. /\ \A s \in Slots, m \in Macs : acceptOut[s][m] > 0 => acceptOut'[s][m] > 0
          /\ o = "ok" => acceptOut'[id[cur]][mac] > 0
      BY <3>1, <1>t, SMTT(60)
    <3>3. \A r \in Remotes : \A m \in macs'[r] : m \in macs[r] \/ (o = "ok" /\ r = cur /\ m = mac)
      BY <3>1, <1>t, SMTT(60)
    <3> QED
      BY <3>1, <3>2, <3>3, <1>t, Zenon DEF PermitInv, RecordedIsPermitted
  <2>4. ASSUME NEW o \in Outcome, AllowUndo(o)
        PROVE  PermitInv'
    <3>1. /\ cur \in tunnels /\ cur \in Remotes /\ mac \in Macs
          /\ macIndex[mac] = None /\ id[cur] \in Slots
      BY <2>4, Zenon DEF AllowUndo, IInv, TypeOK, TablesTypeOK, ControlInv, PacketSteps, AllowSteps
    <3>2. \A r \in tunnels : mac \notin macs[r]
      BY <3>1 DEF IInv, TypeOK, TablesTypeOK, IndexExact
    <3>3. \A s \in Slots, m \in Macs : m # mac => acceptIn'[s][m] = acceptIn[s][m]
      BY <3>1, <2>4, Zenon DEF AllowUndo, AcceptInDelete, IInv, TypeOK, KernelTypeOK
    <3>4. /\ tunnels' = tunnels /\ macs' = macs /\ id' = id /\ cleanupPending' = cleanupPending
          /\ acceptOut' = acceptOut /\ pc' = "reject"
      BY <2>4, Zenon DEF AllowUndo, AcceptInDelete
    <3>5. \A r \in tunnels : id[r] \in Slots /\ macs[r] \subseteq Macs
      BY Zenon DEF IInv, TypeOK, TablesTypeOK
    <3> QED
      BY <3>2, <3>3, <3>4, <3>5 DEF PermitInv, RecordedIsPermitted
  <2> QED
    BY <1>2, <2>1, <2>2, <2>3, <2>4, Zenon DEF Allowing
<1>3. CASE Deleting
  <2>1. CASE UnhookSkip \/ \E o \in Outcome : DelLink(o) \/ Unhook(o)
    BY <2>1, <1>a, Zenon DEF DelLink, GreDel, Unhook, JumpDelete, UnhookSkip
  <2>2. CASE DelDone
    <3>1. \A r \in tunnels' : r \in tunnels /\ id'[r] = id[r]
      BY <2>2, ZenonT(60) DEF DelDone, IInv, TypeOK, TablesTypeOK
    <3>2. UNCHANGED <<macs, cleanupPending, acceptIn, acceptOut>> /\ pc' # "allow_out"
      BY <2>2, Zenon DEF DelDone
    <3> QED
      BY <3>1, <3>2, Zenon DEF PermitInv, RecordedIsPermitted
  <2> QED
    BY <1>3, <2>1, <2>2, Zenon DEF Deleting
<1>4. CASE DeletingAll
  <2>1. CASE DelallNext \/ \E o \in Outcome : DelallLink(o)
    BY <2>1, <1>b, <1>c DEF DelallNext, DelallLink, DelallSteps
  <2>2. CASE DelallUnhooked
    BY <2>2, <1>b, Zenon DEF DelallUnhooked
  <2>3. CASE DelallVisited
    BY <2>3, <1>b, <1>c, Zenon DEF DelallVisited, DelallSteps, ResetSteps, Return
  <2> QED
    BY <1>4, <2>1, <2>2, <2>3, Zenon DEF DeletingAll
<1>5. CASE Resetting
  <2>1. CASE \E o \in Outcome : FlushIn(o) \/ FlushOut(o)
    BY <2>1, <1>b, <1>c DEF FlushIn, FlushOut, DelallSteps, ResetSteps, Return
  <2>2. ASSUME NEW o \in Outcome, Defaults(o)
        PROVE  PermitInv'
    <3>1. CASE o = "ok" /\ i = 3
      BY <3>1, <2>2, Zenon DEF Defaults, Return, PermitInv, RecordedIsPermitted
    <3>2. CASE ~(o = "ok" /\ i = 3)
      BY <3>2, <1>b, <1>c, <2>2, Zenon DEF Defaults, Return, DelallSteps, ResetSteps
    <3> QED
      BY <3>1, <3>2, Zenon
  <2> QED
    BY <1>5, <2>1, <2>2, Zenon DEF Resetting
<1>6. ASSUME NEW r \in Remotes, NEW m \in Macs, NEW v \in 0 .. NVlans, Packet(r, m, v)
      PROVE  PermitInv'
  BY <1>6, <1>a, Zenon DEF Packet
<1>7. CASE Reject \/ SecondPasses \/ Administrator \/ UNCHANGED vars
  BY <1>7, <1>a, Zenon DEF Reject, SecondPasses, Administrator, AdminAddLink, AdminDelLink, vars
<1>8. CASE Sigusr1
  BY <1>8, <1>b, Zenon DEF Sigusr1
<1> QED
  BY <1>1, <1>2, <1>3, <1>4, <1>5, <1>6, <1>7, <1>8, Zenon DEF Next, Work

\* With cleanup_pending set no step creates anything.
LEMMA CreatesNothingStep == IInv /\ [Next]_vars => CreatesNothing
<1> SUFFICES ASSUME IInv, [Next]_vars PROVE CreatesNothing
  BY Zenon
<1>a. ~cleanupPending => CreatesNothing
  BY Zenon DEF CreatesNothing
<1>b. UNCHANGED <<tunnels, link, bridged, acceptIn>> => CreatesNothing
  BY DEF CreatesNothing, IInv, TypeOK, KernelTypeOK
<1>c. pc \in PacketSteps => ~cleanupPending
  BY Zenon DEF IInv, ControlInv
<1>t. /\ acceptIn \in [Slots -> [Macs -> Nat]] /\ bridged \in [Slots -> SUBSET Vlans]
      /\ DOMAIN link = Slots /\ tunnels \subseteq Remotes
  BY Zenon DEF IInv, TypeOK, KernelTypeOK, TablesTypeOK
<1>n. \A s \in Slots, m \in Macs : acceptIn[s][m] \in Nat /\ acceptIn[s][m] <= acceptIn[s][m]
  BY <1>t
<1>1. CASE Adding
  BY <1>1, <1>a, <1>c, Zenon DEF Adding, Scan, ScanOverlooks, AddLink, AddHook, AttachVlan, AttachMaster,
     PacketSteps
<1>2. CASE Allowing
  BY <1>2, <1>a, <1>c, Zenon DEF Allowing, AllowCheck, AllowIn, AllowOut, AllowUndo, PacketSteps
<1>3. CASE Deleting
  <2>1. ASSUME NEW o \in Outcome, DelLink(o)
        PROVE  CreatesNothing
    BY <2>1, <1>a, <1>c, Zenon DEF DelLink, PacketSteps
  <2>2. CASE UnhookSkip \/ \E o \in Outcome : Unhook(o)
    BY <2>2, <1>b, Zenon DEF Unhook, JumpDelete, UnhookSkip
  <2>3. CASE DelDone
    BY <2>3, <1>a, Zenon DEF DelDone
  <2> QED
    BY <1>3, <2>1, <2>2, <2>3, Zenon DEF Deleting
<1>4. CASE DeletingAll
  <2>1. CASE DelallNext \/ DelallUnhooked \/ DelallVisited
    BY <2>1, <1>b, Zenon DEF DelallNext, DelallUnhooked, DelallVisited
  <2>2. ASSUME NEW o \in Outcome, DelallLink(o)
        PROVE  CreatesNothing
    BY <2>2 DEF DelallLink, GreDel, IInv, TypeOK, KernelTypeOK, CreatesNothing
  <2> QED
    BY <1>4, <2>1, <2>2, Zenon DEF DeletingAll
<1>5. CASE Resetting
  <2>1. ASSUME NEW o \in Outcome, FlushIn(o)
        PROVE  CreatesNothing
    <3>1. \A s \in Slots, m \in Macs : acceptIn'[s][m] <= acceptIn[s][m]
      BY <1>n, <2>1 DEF FlushIn, ChainFlush, NoAccepts
    <3> QED
      BY <3>1, <2>1, Zenon DEF FlushIn, ChainFlush, CreatesNothing
  <2>2. ASSUME NEW o \in Outcome, FlushOut(o)
        PROVE  CreatesNothing
    BY <2>2, <1>b, Zenon DEF FlushOut, ChainFlush, ChainFlush
  <2>3. ASSUME NEW o \in Outcome, Defaults(o)
        PROVE  CreatesNothing
    <3>1. tunnels' = {} \/ tunnels' = tunnels
      BY <2>3, Zenon DEF Defaults
    <3>2. link' = link /\ bridged' = bridged /\ acceptIn' = acceptIn
      BY <2>3, Zenon DEF Defaults, DefaultAppend
    <3> QED
      BY <3>1, <3>2, <1>n, Zenon DEF CreatesNothing
  <2> QED
    BY <1>5, <2>1, <2>2, <2>3, Zenon DEF Resetting
<1>6. ASSUME NEW r \in Remotes, NEW m \in Macs, NEW v \in 0 .. NVlans, Packet(r, m, v)
      PROVE  CreatesNothing
  BY <1>6, <1>a, Zenon DEF Packet
<1>7. CASE Reject
  BY <1>7, <1>a, <1>c, Zenon DEF Reject, PacketSteps
<1>8. CASE Sigusr1 \/ SecondPasses \/ UNCHANGED vars
  BY <1>8, <1>b, Zenon DEF Sigusr1, SecondPasses, vars
<1>9. CASE Administrator
  <2>1. UNCHANGED <<tunnels, acceptIn>>
    BY <1>9, Zenon DEF Administrator, AdminAddLink, AdminDelLink
  <2>2. \A s \in Slots : /\ link'[s] = link[s] \/ link'[s] \in {Absent, Foreign}
                         /\ bridged'[s] \subseteq bridged[s]
    BY <1>9, <1>t, SMTT(60) DEF Administrator, AdminAddLink, AdminDelLink
  <2> QED
    BY <2>1, <2>2, <1>n, Zenon DEF CreatesNothing
<1> QED
  BY <1>1, <1>2, <1>3, <1>4, <1>5, <1>6, <1>7, <1>8, <1>9, Zenon DEF Next, Work

\* Client m is recorded for the tunnel in slot s.
Recorded(s, m) == \E r \in tunnels : id[r] = s /\ m \in macs[r]

\* With at most one failure, which has no effect, every ACCEPT rule is that of a
\* recorded client, or the one iface_ebtables_allow is about to record or to undo: the
\* undo cannot fail, because the failure it answers was the only one.
RulesInv ==
  /\ chains = Chains
  /\ faults \in {0, 1}
  /\ pc = "allow_undo" => faults = 0
  /\ \A s \in Slots, m \in Macs :
       /\ acceptIn[s][m] > 0 => \/ Recorded(s, m)
                                \/ /\ pc \in {"allow_out", "allow_undo"} /\ s = id[cur] /\ m = mac
                                   /\ acceptIn[s][m] = 1
       /\ acceptOut[s][m] > 0 => Recorded(s, m)
  /\ pc \in {"flush_out", "defaults"} => \A s \in Slots, m \in Macs : ~(acceptIn[s][m] > 0)
  /\ pc = "defaults" => \A s \in Slots, m \in Macs : ~(acceptOut[s][m] > 0)

\* The permissions and the records of the clients change together (iface_ebtables_allow,
\* provision.c:128-140), if no more than one command fails.
LEMMA RulesStep == ASSUME ~Ambiguous, IInv, RulesInv, [Next]_vars PROVE RulesInv'
<1>a. ASSUME UNCHANGED <<acceptIn, acceptOut, chains>>, faults' = faults \/ faults' = 0,
             \A s \in Slots, m \in Macs : Recorded(s, m) => Recorded(s, m)',
             pc \notin {"allow_out", "allow_undo"},
             pc' \notin {"allow_undo", "flush_out", "defaults"}
      PROVE  RulesInv'
  BY <1>a, Zenon DEF RulesInv
<1>b. UNCHANGED <<tunnels, id, macs>> => \A s \in Slots, m \in Macs : Recorded(s, m) => Recorded(s, m)'
  BY Zenon DEF Recorded
<1>c. ASSUME NEW o \in Outcome, NEW can, Ends(o, can)
      PROVE  /\ faults' \in {0, 1} /\ (Fault(o) => faults' = 0 /\ faults # 0)
             /\ faults' = faults \/ faults' = 0
             /\ o = "ok" \/ o = "failed" \/ (o = "refused" /\ ~can)
  BY <1>c DEF Ends, RulesInv, Outcome
<1>d. \A s : Overlooked(s) => faults' = 0
  BY DEF Overlooked, RulesInv
<1>1. CASE Adding
  <2>1. CASE Scan \/ ScanOverlooks
    BY <2>1, <1>a, <1>b, <1>d, Zenon DEF Scan, ScanOverlooks
  <2>2. ASSUME NEW o \in Outcome, AddLink(o)
        PROVE  RulesInv'
    <3>1. cur \in Remotes \ tunnels /\ tunnels \subseteq Remotes
      BY <2>2, Zenon DEF AddLink, IInv, TypeOK, TablesTypeOK, ControlInv
    <3>2. \A r \in tunnels : r \in tunnels' /\ id'[r] = id[r] /\ macs'[r] = macs[r]
      BY <3>1, <2>2, Zenon DEF AddLink, IInv, TypeOK, TablesTypeOK
    <3>3. \A s \in Slots, m \in Macs : Recorded(s, m) => Recorded(s, m)'
      BY <3>2, Zenon DEF Recorded
    <3>4. faults' = faults \/ faults' = 0
      BY <2>2, <1>c, Zenon DEF AddLink, GreAdd
    <3> QED
      BY <3>3, <3>4, <2>2, <1>a, Zenon DEF AddLink, GreAdd
  <2>3. ASSUME NEW o \in Outcome, AddHook(o)
        PROVE  RulesInv'
    <3>1. faults' = faults \/ faults' = 0
      BY <2>3, <1>c, Zenon DEF AddHook, JumpInsert
    <3> QED
      BY <3>1, <2>3, <1>a, <1>b, Zenon DEF AddHook, JumpInsert
  <2>4. ASSUME NEW o \in Outcome, AttachVlan(o) \/ AttachMaster(o)
        PROVE  RulesInv'
    <3>1. faults' = faults \/ faults' = 0
      BY <2>4, <1>c, Zenon DEF AttachVlan, VlanAdd, AttachMaster, VlanMaster
    <3> QED
      BY <3>1, <2>4, <1>a, <1>b, Zenon DEF AttachVlan, VlanAdd, AttachMaster, VlanMaster
  <2> QED
    BY <1>1, <2>1, <2>2, <2>3, <2>4, Zenon DEF Adding
<1>2. CASE Allowing
  <2>0. pc \in AllowSteps => /\ cur \in tunnels /\ cur \in Remotes /\ mac \in Macs
                             /\ macIndex[mac] = None /\ id[cur] \in Slots
                             /\ \A r \in tunnels : mac \notin macs[r]
    <3>1. SUFFICES ASSUME pc \in AllowSteps
                   PROVE  /\ cur \in tunnels /\ cur \in Remotes /\ mac \in Macs
                          /\ macIndex[mac] = None /\ id[cur] \in Slots
                          /\ \A r \in tunnels : mac \notin macs[r]
      OBVIOUS
    <3>2. cur \in tunnels /\ mac \in Macs /\ tunnels \subseteq Remotes /\ macIndex[mac] = None
      BY <3>1, Zenon DEF IInv, TypeOK, TablesTypeOK, ControlInv, AllowSteps, PacketSteps
    <3>3. id[cur] \in Slots
      BY <3>2, Zenon DEF IInv, TypeOK, TablesTypeOK
    <3>4. \A r \in tunnels : mac \notin macs[r]
      <4>1. ASSUME NEW r \in tunnels, mac \in macs[r]
            PROVE  macIndex[mac] = r
        BY <3>2, <4>1, Zenon DEF IInv, IndexExact
      <4> QED
        BY <3>2, <4>1, ProvisionAssumption, Zenon
    <3> QED
      BY <3>2, <3>3, <3>4, Zenon
  <2>1. CASE AllowCheck
    BY <2>1, <1>a, <1>b, Zenon DEF AllowCheck
  <2>2. ASSUME NEW o \in Outcome, AllowIn(o)
        PROVE  RulesInv'
    <3>1. /\ ~Recorded(id[cur], mac) /\ pc = "allow_in" /\ id[cur] \in Slots /\ mac \in Macs
          /\ acceptIn \in [Slots -> [Macs -> Nat]]
      BY <2>0, <2>2, Zenon DEF AllowIn, AllowSteps, IInv, TypeOK, KernelTypeOK, Recorded, SlotsExact
    <3>2. acceptIn[id[cur]][mac] = 0
      <4>1. acceptIn[id[cur]][mac] \in Nat /\ ~(acceptIn[id[cur]][mac] > 0)
        BY <3>1, Zenon DEF RulesInv
      <4> QED
        BY <4>1
    <3>3. faults' \in {0, 1} /\ (faults' = faults \/ faults' = 0) /\ (o # "ok" => ~Done(o))
      BY <2>2, <1>c, Zenon DEF AllowIn, AcceptInInsert
    <3>4. CASE o # "ok"
      BY <3>1, <3>3, <3>4, <2>2, <1>a, <1>b, Zenon DEF AllowIn, AcceptInInsert
    <3>5. CASE o = "ok"
      <4>1. /\ UNCHANGED <<tunnels, id, macs, cur, mac, acceptOut, chains>> /\ pc' = "allow_out"
            /\ \A s \in Slots, m \in Macs :
                 acceptIn'[s][m] = IF s = id[cur] /\ m = mac THEN acceptIn[s][m] + 1 ELSE acceptIn[s][m]
        BY <3>1, <3>5, <2>2, Zenon DEF AllowIn, AcceptInInsert
      <4>2. acceptIn'[id[cur]][mac] = 1
        BY <3>1, <3>2, <4>1
      <4> QED
        BY <3>1, <3>3, <4>1, <4>2, <1>b, ZenonT(60), ZenonT(60), ZenonT(60) DEF RulesInv
    <3> QED
      BY <3>4, <3>5, Zenon
  <2>3. ASSUME NEW o \in Outcome, AllowOut(o)
        PROVE  RulesInv'
    <3>1. /\ cur \in tunnels /\ cur \in Remotes /\ id[cur] \in Slots /\ mac \in Macs
          /\ acceptOut \in [Slots -> [Macs -> Nat]] /\ tunnels \subseteq Remotes
      BY <2>0, <2>3, Zenon DEF AllowOut, AllowSteps, IInv, TypeOK, KernelTypeOK, TablesTypeOK
    <3>2. /\ faults' \in {0, 1} /\ (o # "ok" => ~Done(o) /\ faults' = 0)
      <4>1. Ends(o, TRUE)
        BY <2>3, Zenon DEF AllowOut, AcceptOutInsert, RulesInv, Chains
      <4> QED
        BY <4>1, <1>c, Zenon
    <3>3. CASE o # "ok"
      <4>1. /\ UNCHANGED <<tunnels, id, macs, cur, mac, acceptIn, acceptOut, chains>>
            /\ pc = "allow_out" /\ pc' = "allow_undo"
        BY <3>2, <3>3, <2>3, Zenon DEF AllowOut, AcceptOutInsert
      <4> QED
        BY <3>2, <3>3, <4>1, <1>b, Zenon DEF RulesInv
    <3>4. CASE o = "ok"
      <4>1. /\ UNCHANGED <<tunnels, id, acceptIn, chains>> /\ pc' = "idle"
            /\ \A r \in Remotes : macs'[r] = IF r = cur THEN macs[cur] \cup {mac} ELSE macs[r]
            /\ \A s \in Slots, m \in Macs : s # id[cur] \/ m # mac => acceptOut'[s][m] = acceptOut[s][m]
        BY <3>1, <3>4, <2>3, Zenon DEF AllowOut, AcceptOutInsert, IInv, TypeOK, TablesTypeOK
      <4>2. \A s \in Slots, m \in Macs : Recorded(s, m) => Recorded(s, m)'
        BY <3>1, <4>1, Zenon DEF Recorded
      <4>3. ASSUME NEW s \in Slots, NEW m \in Macs, s = id[cur], m = mac
            PROVE  Recorded(s, m)'
        <5>1. cur \in tunnels' /\ id'[cur] = s /\ m \in macs'[cur]
          BY <3>1, <4>1, <4>3, Zenon
        <5> QED
          BY <5>1, Zenon DEF Recorded
      <4>4. ASSUME NEW s \in Slots, NEW m \in Macs, acceptIn'[s][m] > 0
            PROVE  Recorded(s, m)'
        <5>1. acceptIn[s][m] > 0
          BY <4>1, <4>4, Zenon
        <5> QED
          BY <5>1, <4>2, <4>3, Zenon DEF RulesInv
      <4>5. ASSUME NEW s \in Slots, NEW m \in Macs, acceptOut'[s][m] > 0
            PROVE  Recorded(s, m)'
        <5>1. CASE s = id[cur] /\ m = mac
          BY <4>3, <5>1, Zenon
        <5>2. CASE s # id[cur] \/ m # mac
          <6>1. acceptOut[s][m] > 0
            BY <4>1, <4>5, <5>2, Zenon
          <6> QED
            BY <6>1, <4>2, Zenon DEF RulesInv
        <5> QED
          BY <5>1, <5>2, Zenon
      <4> QED
        BY <3>2, <4>1, <4>4, <4>5, Zenon DEF RulesInv
    <3> QED
      BY <3>3, <3>4, Zenon
  <2>4. ASSUME NEW o \in Outcome, AllowUndo(o)
        PROVE  RulesInv'
    <3>1. /\ ~Recorded(id[cur], mac) /\ pc = "allow_undo" /\ id[cur] \in Slots /\ mac \in Macs
          /\ acceptIn \in [Slots -> [Macs -> Nat]] /\ faults = 0
      BY <2>0, <2>4, Zenon DEF AllowUndo, AllowSteps, IInv, TypeOK, KernelTypeOK, Recorded, SlotsExact,
         RulesInv
    <3>2. /\ faults' = 0
          /\ o = "ok" \/ (o = "refused" /\ ~(acceptIn[id[cur]][mac] > 0))
      BY <3>1, <2>4, <1>c, Zenon DEF AllowUndo, AcceptInDelete
    <3>3. /\ UNCHANGED <<tunnels, id, macs, acceptOut, chains>> /\ pc' = "reject"
          /\ \A s \in Slots, m \in Macs : s # id[cur] \/ m # mac => acceptIn'[s][m] = acceptIn[s][m]
      BY <3>1, <2>4, Zenon DEF AllowUndo, AcceptInDelete
    <3>4. ~(acceptIn'[id[cur]][mac] > 0)
      <4>1. CASE o = "ok"
        <5>1. acceptIn'[id[cur]][mac] = acceptIn[id[cur]][mac] - 1
          BY <3>1, <4>1, <2>4, Zenon DEF AllowUndo, AcceptInDelete
        <5>2. acceptIn[id[cur]][mac] \in Nat
              /\ (acceptIn[id[cur]][mac] > 0 => acceptIn[id[cur]][mac] = 1)
          BY <3>1, Zenon DEF RulesInv
        <5> QED
          BY <5>1, <5>2
      <4>2. CASE o = "refused"
        BY <3>2, <4>2, <2>4, Zenon DEF AllowUndo, AcceptInDelete
      <4> QED
        BY <3>2, <4>1, <4>2, Zenon
    <3>5. ASSUME NEW s \in Slots, NEW m \in Macs
          PROVE  /\ acceptIn'[s][m] > 0 => Recorded(s, m)'
                 /\ acceptOut'[s][m] > 0 => Recorded(s, m)'
      <4>1. acceptIn'[s][m] > 0 => acceptIn[s][m] > 0 /\ (s # id[cur] \/ m # mac)
        BY <3>3, <3>4, Zenon
      <4> QED
        BY <4>1, <3>3, <1>b, Zenon DEF RulesInv
    <3> QED
      BY <3>2, <3>3, <3>5, Zenon DEF RulesInv
  <2> QED
    BY <1>2, <2>1, <2>2, <2>3, <2>4, Zenon DEF Allowing
<1>3. CASE Deleting
  <2>1. ASSUME NEW o \in Outcome, DelLink(o)
        PROVE  RulesInv'
    <3>1. faults' = faults \/ faults' = 0
      BY <2>1, <1>c, <1>d, Zenon DEF DelLink, GreDel
    <3> QED
      BY <3>1, <2>1, <1>a, <1>b, Zenon DEF DelLink, GreDel
  <2>2. ASSUME NEW o \in Outcome, Unhook(o)
        PROVE  RulesInv'
    <3>1. faults' = faults \/ faults' = 0
      BY <2>2, <1>c, Zenon DEF Unhook, JumpDelete
    <3> QED
      BY <3>1, <2>2, <1>a, <1>b, Zenon DEF Unhook, JumpDelete
  <2>3. CASE UnhookSkip
    BY <2>3, <1>a, <1>b, Zenon DEF UnhookSkip
  <2>4. CASE DelDone
    <3>1. macs[cur] = {} /\ tunnels \subseteq Remotes
      BY <2>4, Zenon DEF DelDone, IInv, TypeOK, TablesTypeOK, ControlInv, ClientsInv
    <3>2. /\ macs' = macs
          /\ \A r \in tunnels : r # cur => r \in tunnels' /\ id'[r] = id[r]
      BY <3>1, <2>4, Zenon DEF DelDone, IInv, TypeOK, TablesTypeOK
    <3>3. \A s \in Slots, m \in Macs : Recorded(s, m) => Recorded(s, m)'
      BY <3>1, <3>2, Zenon DEF Recorded
    <3> QED
      BY <3>3, <2>4, <1>a, Zenon DEF DelDone
  <2> QED
    BY <1>3, <2>1, <2>2, <2>3, <2>4, Zenon DEF Deleting
<1>4. CASE DeletingAll
  <2>1. CASE DelallNext \/ DelallUnhooked \/ DelallVisited
    BY <2>1, <1>a, <1>b, Zenon DEF DelallNext, DelallUnhooked, DelallVisited, Return
  <2>2. ASSUME NEW o \in Outcome, DelallLink(o)
        PROVE  RulesInv'
    <3>1. faults' = faults \/ faults' = 0
      BY <2>2, <1>c, <1>d, Zenon DEF DelallLink, GreDel
    <3> QED
      BY <3>1, <2>2, <1>a, <1>b, Zenon DEF DelallLink, GreDel
  <2> QED
    BY <1>4, <2>1, <2>2, Zenon DEF DeletingAll
<1>5. CASE Resetting
  <2>1. ASSUME NEW o \in Outcome, FlushIn(o)
        PROVE  RulesInv'
    <3>1. faults' \in {0, 1}
      BY <2>1, <1>c, Zenon DEF FlushIn, ChainFlush
    <3>2. /\ UNCHANGED <<tunnels, id, macs, acceptOut, chains>> /\ pc = "flush_in"
          /\ pc' \in {"flush_out", "idle", "end"}
          /\ acceptIn' = acceptIn \/ acceptIn' = NoAccepts
          /\ pc' = "flush_out" => acceptIn' = NoAccepts
      BY <2>1, Zenon DEF FlushIn, ChainFlush, Return
    <3>3. acceptIn' = NoAccepts => \A s \in Slots, m \in Macs : ~(acceptIn'[s][m] > 0)
      BY DEF NoAccepts
    <3> QED
      BY <3>1, <3>2, <3>3, <1>b, Zenon DEF RulesInv
  <2>2. ASSUME NEW o \in Outcome, FlushOut(o)
        PROVE  RulesInv'
    <3>1. faults' \in {0, 1}
      BY <2>2, <1>c, Zenon DEF FlushOut, ChainFlush
    <3>2. /\ UNCHANGED <<tunnels, id, macs, acceptIn, chains>> /\ pc = "flush_out"
          /\ pc' \in {"defaults", "idle", "end"}
          /\ acceptOut' = acceptOut \/ acceptOut' = NoAccepts
          /\ pc' = "defaults" => acceptOut' = NoAccepts
      BY <2>2, Zenon DEF FlushOut, ChainFlush, Return
    <3>3. acceptOut' = NoAccepts => \A s \in Slots, m \in Macs : ~(acceptOut'[s][m] > 0)
      BY DEF NoAccepts
    <3> QED
      BY <3>1, <3>2, <3>3, <1>b, Zenon DEF RulesInv
  <2>3. ASSUME NEW o \in Outcome, Defaults(o)
        PROVE  RulesInv'
    <3>1. faults' \in {0, 1}
      BY <2>3, <1>c, Zenon DEF Defaults, DefaultAppend
    <3>2. /\ UNCHANGED <<acceptIn, acceptOut, chains>> /\ pc = "defaults"
          /\ pc' \in {"defaults", "idle", "end"}
      BY <2>3, Zenon DEF Defaults, DefaultAppend, Return
    <3> QED
      BY <3>1, <3>2, Zenon DEF RulesInv
  <2> QED
    BY <1>5, <2>1, <2>2, <2>3, Zenon DEF Resetting
<1>6. ASSUME NEW r \in Remotes, NEW m \in Macs, NEW v \in 0 .. NVlans, Packet(r, m, v)
      PROVE  RulesInv'
  BY <1>6, <1>a, <1>b, Zenon DEF Packet
<1>7. CASE Reject \/ Sigusr1
  BY <1>7, <1>a, <1>b, Zenon DEF Reject, Sigusr1
<1>8. CASE SecondPasses \/ Administrator \/ UNCHANGED vars
  <2>1. UNCHANGED <<acceptIn, acceptOut, chains, faults, tunnels, id, macs, pc, cur, mac>>
    BY <1>8, Zenon DEF SecondPasses, Administrator, AdminAddLink, AdminDelLink, vars
  <2> QED
    BY <2>1, <1>b, Zenon DEF RulesInv
<1> QED
  BY <1>1, <1>2, <1>3, <1>4, <1>5, <1>6, <1>7, <1>8, Zenon DEF Next, Work

\* The registers of the daemon, its tables and the kernel state keep their types:
\* in particular every slot number, hook bit and rule counter stays in its range
\* whatever fails (provision.c, iface_ebtables.c).
THEOREM TypeCorrect == Spec => []TypeOK
  BY Invariant, PTL DEF IInv

\* A bridged tunnel is always behind its three jumps and the DROP rules
\* (provision_add, provision_del, provision_delall), for any number of tunnels and
\* failures, even failures whose command took effect, unless its own deletion failed
\* and was taken for ENODEV (iface_gre.c:145): no other tunnel is opened by that.
THEOREM FilterAlways == Spec => []FilterBeforeBridge
<1>1. IInv => FilterBeforeBridge
  BY Zenon DEF IInv, BridgeInv, CleanupInv, Gone, FilterBeforeBridge, Filtered
<1> QED
  BY <1>1, Invariant, PTL

\* slots[] never leaks or shares a slot (provision.c:99-100, 230, 262).
THEOREM SlotsAlwaysExact == Spec => []SlotsExact
  BY Invariant, PTL DEF IInv

\* mac_index never points to a freed tunnel and never disagrees with tun->macs
\* (provision.c:138-139, 221-222, 260-261).
THEOREM IndexAlwaysExact == Spec => []IndexExact
  BY Invariant, PTL DEF IInv

\* The revocation loop of provision_del (lines 218-224) is dead code: it is only
\* called for tunnels that have no client.
THEOREM RevokeNeverReached == Spec => []RevokeUnreachable
  BY Invariant, PTL DEF IInv

\* provision_packet never mistakes a failed command for a full table, nor a full
\* table for a failure (lines 187-201): errno is not stale when it is tested.
THEOREM CapacityNeverFailure == Spec => []CapacityIsNotFailure
<1>1. Init => ErrnoInv
  BY Zenon DEF Init, TablesInit, ErrnoInv, CapacityIsNotFailure, PacketSteps
<1>2. ErrnoInv => CapacityIsNotFailure
  BY Zenon DEF ErrnoInv
<1> QED
  BY <1>1, <1>2, Invariant, ErrnoStep, PTL DEF Spec

\* A client recorded in tun->macs has both ACCEPT rules in the kernel until a full
\* cleanup begins: what the daemon believes permitted is permitted.
THEOREM RecordedAlwaysPermitted == Spec => []RecordedIsPermitted
<1>1. Init => PermitInv
  BY Zenon DEF Init, TablesInit, PermitInv, RecordedIsPermitted
<1>2. PermitInv => RecordedIsPermitted
  BY Zenon DEF PermitInv
<1> QED
  BY <1>1, <1>2, Invariant, PermitStep, PTL DEF Spec

\* An incomplete provision_delall pauses discovery: no step creates a tunnel, a
\* link, a port or a permission until a cleanup has succeeded.
THEOREM CleanupAlwaysPauses == Spec => CleanupPausesDiscovery
<1>1. IInv /\ [Next]_vars => [CreatesNothing]_vars
  BY CreatesNothingStep, Zenon
<1> QED
  BY <1>1, Invariant, PTL DEF Spec, CleanupPausesDiscovery

\* What the commands answer, in terms of the tables.
LEMMA AnswersFromTables ==
  /\ service_command(<<"STUN">>) = STUN
  /\ \A r \in Remotes : service_command(<<"LMIP", r>>) = LMIP(r)
  /\ \A m \in Macs : service_command(<<"GTMC", m>>) = GTMC(m)
<1>1. Len(<<"STUN">>) = 1 /\ <<"STUN">>[1] = "STUN"
  OBVIOUS
<1>2. \A x : /\ Len(<<"LMIP", x>>) = 2 /\ <<"LMIP", x>>[1] = "LMIP" /\ <<"LMIP", x>>[2] = x
             /\ Len(<<"GTMC", x>>) = 2 /\ <<"GTMC", x>>[1] = "GTMC" /\ <<"GTMC", x>>[2] = x
  OBVIOUS
<1>3. 1 # 2 /\ "STUN" # "LMIP" /\ "STUN" # "GTMC" /\ "LMIP" # "GTMC"
      /\ "STUN" \notin {"VERS", "QUIT", "HELP", "STAT"}
  OBVIOUS
<1>4. service_command(<<"STUN">>) = STUN
  BY <1>1, <1>3, Zenon DEF service_command
<1>5. ASSUME NEW r \in Remotes PROVE service_command(<<"LMIP", r>>) = LMIP(r)
  BY <1>2, <1>3, Zenon DEF service_command
<1>6. ASSUME NEW m \in Macs PROVE service_command(<<"GTMC", m>>) = GTMC(m)
  BY <1>2, <1>3, Zenon DEF service_command
<1> QED
  BY <1>4, <1>5, <1>6, Zenon

\* STUN, LMIP and GTMC (service_cmd.c:64-128) never contradict each other, whatever
\* failed before.
THEOREM AnswersAlwaysAgree == Spec => []AnswersAgree
<1>1. ASSUME IInv PROVE AnswersAgree
  <2>1. /\ tunnels \subseteq Remotes /\ SlotsExact /\ IndexExact /\ None \notin Remotes
        /\ \A m \in Macs : macIndex[m] \in Remotes \cup {None}
    BY <1>1, Zenon DEF IInv, TypeOK, TablesTypeOK
  <2>2. Listed = {<<r, id[r]>> : r \in tunnels}
    BY AnswersFromTables DEF Listed, STUN, Found, Empty
  <2>11. /\ \A b : Found(b).body = b /\ Found(b).result = "OK"
         /\ NotFound.body = {} /\ NotFound.result # "OK"
    BY DEF Found, NotFound
  <2>3. ASSUME NEW r \in Remotes
        PROVE  /\ r \in tunnels => Clients(r) = macs[r]
               /\ r \notin tunnels => Clients(r) = {}
    BY <2>11, AnswersFromTables, Zenon DEF Clients, LMIP
  <2>4. ASSUME NEW m \in Macs
        PROVE  /\ macIndex[m] # None => Owner(m) = {<<macIndex[m], id[macIndex[m]]>>}
               /\ macIndex[m] = None => Owner(m) = {}
    BY <2>11, AnswersFromTables, Zenon DEF Owner, GTMC
  <2>5. ASSUME NEW r \in Remotes
        PROVE  (service_command(<<"LMIP", r>>).result = "OK") <=> r \in tunnels
    BY <2>11, AnswersFromTables, Zenon DEF LMIP
  <2>6. ASSUME NEW m \in Macs, NEW e \in Owner(m) PROVE e \in Listed /\ m \in Clients(e[1])
    <3>1. macIndex[m] \in Remotes /\ e = <<macIndex[m], id[macIndex[m]]>>
      <4>1. macIndex[m] # None
        BY <2>4, <2>6, Zenon
      <4> QED
        BY <2>1, <2>4, <2>6, <4>1, Zenon
    <3>2. macIndex[m] \in tunnels /\ m \in macs[macIndex[m]]
      BY <2>1, <3>1, Zenon DEF IndexExact
    <3>3. e[1] = macIndex[m]
      BY <3>1
    <3> QED
      BY <2>2, <2>3, <3>1, <3>2, <3>3, Zenon
  <2>7. ASSUME NEW r \in Remotes, NEW m \in Clients(r), m \in Macs PROVE \E e \in Owner(m) : e[1] = r
    <3>1. macIndex[m] = r
      <4>1. r \in tunnels /\ m \in macs[r]
        BY <2>3, <2>7, Zenon
      <4> QED
        BY <2>1, <2>7, <4>1, Zenon DEF IndexExact
    <3>2. <<r, id[r]>> \in Owner(m) /\ <<r, id[r]>>[1] = r
      BY <2>1, <2>4, <2>7, <3>1
    <3> QED
      BY <3>2, Zenon
  <2>8. \A r \in Remotes : \A m \in Clients(r) : m \in Macs
    <3>1. macs \in [Remotes -> SUBSET Macs]
      BY <1>1, Zenon DEF IInv, TypeOK, TablesTypeOK
    <3>2. \A r \in Remotes : Clients(r) \subseteq Macs
      BY <2>3, <3>1, Zenon
    <3> QED
      BY <3>2, Zenon
  <2>9. ASSUME NEW r \in Remotes PROVE r \in tunnels <=> \E e \in Listed : e[1] = r
    <3>1. ASSUME r \in tunnels PROVE \E e \in Listed : e[1] = r
      <4>1. <<r, id[r]>> \in Listed
        BY <2>2, <3>1, Zenon
      <4>2. <<r, id[r]>>[1] = r
        OBVIOUS
      <4> QED
        BY <4>1, <4>2, Zenon
    <3>2. ASSUME NEW e \in Listed, e[1] = r PROVE r \in tunnels
      <4>1. PICK q \in tunnels : e = <<q, id[q]>>
        BY <2>2, Zenon
      <4>2. e[1] = q
        BY <4>1
      <4> QED
        BY <3>2, <4>2, Zenon
    <3> QED
      BY <3>1, <3>2, Zenon
  <2>10. ASSUME NEW d \in Listed, NEW e \in Listed, d[2] = e[2] PROVE d = e
    <3>1. PICK r \in tunnels : d = <<r, id[r]>>
      BY <2>2, Zenon
    <3>2. PICK q \in tunnels : e = <<q, id[q]>>
      BY <2>2, Zenon
    <3>3. id[r] = id[q]
      BY <2>10, <3>1, <3>2
    <3> QED
      BY <2>1, <3>1, <3>2, <3>3, Zenon DEF SlotsExact
  <2> QED
    BY <2>5, <2>6, <2>7, <2>8, <2>9, <2>10, Zenon DEF AnswersAgree
<1> QED
  BY <1>1, Invariant, PTL

\* What the theorems above rest on holds at every command of the handlers of
\* provision.c, with any number of failures, ambiguous and unnoticed ones included.
THEOREM AlwaysInductiveInv == Spec => []InductiveInv
<1>1. Init => ErrnoInv
  BY Zenon DEF Init, TablesInit, ErrnoInv, CapacityIsNotFailure, PacketSteps
<1>2. Init => PermitInv
  BY Zenon DEF Init, TablesInit, PermitInv, RecordedIsPermitted
<1> QED
  BY <1>1, <1>2, Invariant, ErrnoStep, PermitStep, PTL DEF Spec, InductiveInv

-----------------------------------------------------------------------------
(* What holds if a failed command has no effect, and what if there is only *)
(* one: the runs two_faults and late_cleanup show that neither hypothesis  *)
(* can be dropped.                                                         *)

\* Each bit of tun->firewall_hooks stands for one installed jump, and no jump is
\* without its bit (iface_ebtables.c:80-87, 98-109): however many commands fail, as
\* long as a command that fails has not taken effect.
THEOREM BitsAlwaysExact == ASSUME ~Ambiguous PROVE Spec => []HookBitsExact
<1>1. Init => HooksInv
  BY DEF Init, KernelInit, TablesInit, HooksInv, HookBitsExact, ResetSteps
<1>2. HooksInv => HookBitsExact
  BY Zenon DEF HooksInv
<1> QED
  BY <1>1, <1>2, Invariant, HooksStep, PTL DEF Spec

\* Every tunnel interface is tracked at its slot (provision.c:90-106, 208-212).
LEMMA LinksAlways == ASSUME ~Ambiguous PROVE Spec => []LinksInv
<1>1. Init => LinksInv
  BY KernelAssumption DEF Init, KernelInit, TablesInit, LinksInv, Known, ResetSteps
<1> QED
  BY <1>1, Invariant, LinksStep, PTL DEF Spec

\* Every permission is that of a recorded client (provision.c:128-140).
LEMMA RulesAlways == ASSUME ~Ambiguous, MaxFaults <= 1 PROVE Spec => []RulesInv
<1>1. Init => RulesInv
  <2> SUFFICES ASSUME Init PROVE RulesInv
    OBVIOUS
  <2>1. MaxFaults \in {0, 1}
    BY KernelAssumption
  <2>2. \A s \in Slots, m \in Macs : ~(acceptIn[s][m] > 0) /\ ~(acceptOut[s][m] > 0)
    BY DEF Init, KernelInit
  <2> QED
    BY <2>1, <2>2, Zenon DEF Init, KernelInit, RulesInv
<1> QED
  BY <1>1, Invariant, RulesStep, PTL DEF Spec

\* A recorded client has one tunnel, and one that is still being permitted has none
\* (mac_index is looked at in provision.c:133 before the first rule is inserted).
LEMMA OneOwner ==
  ASSUME IInv, NEW m \in Macs
  PROVE  /\ \A s, t \in Slots : Recorded(s, m) /\ Recorded(t, m) => s = t
         /\ pc \in {"allow_out", "allow_undo"} /\ m = mac => \A s \in Slots : ~Recorded(s, m)
<1>1. ASSUME NEW s \in Slots, Recorded(s, m)
      PROVE  macIndex[m] \in Remotes /\ s = id[macIndex[m]]
  <2>1. PICK r \in tunnels : id[r] = s /\ m \in macs[r]
    BY <1>1, Zenon DEF Recorded
  <2>2. r \in Remotes
    BY <2>1, Zenon DEF IInv, TypeOK, TablesTypeOK
  <2>3. macIndex[m] = r
    BY <2>1, <2>2, Zenon DEF IInv, IndexExact
  <2> QED
    BY <2>1, <2>2, <2>3, Zenon
<1>2. pc \in {"allow_out", "allow_undo"} => macIndex[mac] = None
  BY Zenon DEF IInv, ControlInv, PacketSteps
<1> QED
  BY <1>1, <1>2, ProvisionAssumption, Zenon

\* A MAC belongs to one remote (provision.c:133): the bridge accepts frames of a client,
\* or for it, from one tunnel only, at every instant of every handler, if at most one
\* command fails and has no effect; a tunnel whose deletion failed unnoticed
\* (iface_gre.c:145) is no longer filtered at all, and is not counted.
THEOREM OneTunnelAlways ==
  ASSUME ~Ambiguous, MaxFaults <= 1 PROVE Spec => []OneTunnelPerMac
<1>1. ASSUME IInv, RulesInv PROVE OneTunnelPerMac
  <2>1. ASSUME NEW s \in Slots \ missed, bridged[s] # {}
        PROVE  /\ jumps[s][1] # 0 /\ jumps[s][2] # 0 /\ jumps[s][3] # 0
               /\ "dropIn" \in defaults /\ "dropOut" \in defaults
    <3>1. \A h \in Hooks : jumps[s][h] > 0
      BY <1>1, <2>1, Zenon DEF IInv, BridgeInv, Gone
    <3>2. jumps[s][1] # 0 /\ jumps[s][2] # 0 /\ jumps[s][3] # 0
      BY <3>1 DEF Hooks
    <3>3. {"dropIn", "dropOut"} \subseteq defaults
      BY <1>1, <2>1, Zenon DEF IInv, CleanupInv, Gone
    <3> QED
      BY <3>2, <3>3, Zenon
  <2>2. ASSUME NEW m \in Macs, NEW s \in Slots \ missed, NEW t \in Slots \ missed,
               AcceptsFrom(s, m), AcceptsFrom(t, m)
        PROVE  s = t
    <3>1. acceptIn[s][m] > 0 /\ acceptIn[t][m] > 0
      BY <2>1, <2>2, Zenon DEF AcceptsFrom
    <3>2. ASSUME NEW u \in Slots, acceptIn[u][m] > 0
          PROVE  \/ Recorded(u, m)
                 \/ pc \in {"allow_out", "allow_undo"} /\ u = id[cur] /\ m = mac
      BY <1>1, <3>2, Zenon DEF RulesInv
    <3>3. /\ Recorded(s, m) /\ Recorded(t, m) => s = t
          /\ pc \in {"allow_out", "allow_undo"} /\ m = mac => ~Recorded(s, m) /\ ~Recorded(t, m)
      BY <1>1, OneOwner, Zenon
    <3> QED
      BY <3>1, <3>2, <3>3, Zenon
  <2>3. ASSUME NEW m \in Macs, NEW s \in Slots \ missed, NEW t \in Slots \ missed,
               AcceptsTo(s, m), AcceptsTo(t, m)
        PROVE  s = t
    <3>1. acceptOut[s][m] > 0 /\ acceptOut[t][m] > 0
      BY <2>1, <2>3, Zenon DEF AcceptsTo
    <3> QED
      BY <1>1, <3>1, OneOwner, Zenon DEF RulesInv
  <2> QED
    BY <2>2, <2>3, Zenon DEF OneTunnelPerMac, OneTunnelPerSource
<1> QED
  BY <1>1, Invariant, RulesAlways, PTL

\* Between two handlers STUN lists the tunnel of every interface and of every jump that
\* is in the kernel, and LMIP the client of every permission, after rollbacks and
\* cleanups that were only partly done too (provision.c:103), if at most one command
\* fails and has no effect; all but a tunnel whose deletion failed unnoticed, since its
\* record goes (iface_gre.c:145, provision.c:214).
THEOREM LeftoversAlwaysVisible ==
  ASSUME ~Ambiguous, MaxFaults <= 1 PROVE Spec => []LeftoversVisible
<1>1. ASSUME IInv, HookBitsExact, LinksInv, RulesInv PROVE LeftoversVisible
  <2>1. tunnels \subseteq Remotes /\ Listed = {<<r, id[r]>> : r \in tunnels}
    BY <1>1, AnswersFromTables DEF Listed, STUN, Found, Empty, IInv, TypeOK, TablesTypeOK
  <2>2. ASSUME NEW r \in tunnels PROVE Clients(r) = macs[r]
    <3>1. service_command(<<"LMIP", r>>) = LMIP(r)
      BY <2>1, AnswersFromTables, Zenon
    <3>2. Found(macs[r]).body = macs[r]
      BY DEF Found
    <3> QED
      BY <3>1, <3>2, Zenon DEF Clients, LMIP
  <2>3. ASSUME NEW s \in Slots, NEW r \in tunnels, id[r] = s
        PROVE  <<r, s>> \in {e \in Listed : e[2] = s} /\ <<r, s>>[1] = r
    BY <2>1, <2>3
  <2>4. SUFFICES ASSUME pc = "idle", NEW s \in Slots
                 PROVE  LET listed == {e \in Listed : e[2] = s}
                        IN  /\ link[s] \in Remotes /\ s \notin missed => <<link[s], s>> \in listed
                            /\ (\E h \in Hooks : jumps[s][h] > 0) => listed # {}
                            /\ \A m \in Macs : acceptIn[s][m] > 0 \/ acceptOut[s][m] > 0
                                  => \E e \in listed : m \in Clients(e[1])
    BY Zenon DEF LeftoversVisible
  <2> DEFINE listed == {e \in Listed : e[2] = s}
  <2>5. link[s] \in Remotes /\ s \notin missed => <<link[s], s>> \in listed
    BY <1>1, <2>3, Zenon DEF LinksInv, Known
  <2>6. ASSUME NEW h \in Hooks, jumps[s][h] > 0 PROVE listed # {}
    <3>1. \E r \in tunnels : id[r] = s /\ h \in hooks[r]
      BY <1>1, <2>6 DEF HookBitsExact
    <3> QED
      BY <2>3, <3>1, Zenon
  <2>7. ASSUME NEW m \in Macs, acceptIn[s][m] > 0 \/ acceptOut[s][m] > 0
        PROVE  \E e \in listed : m \in Clients(e[1])
    <3>1. Recorded(s, m)
      BY <1>1, <2>4, <2>7, Zenon DEF RulesInv
    <3>2. PICK r \in tunnels : id[r] = s /\ m \in macs[r]
      BY <3>1, Zenon DEF Recorded
    <3>3. <<r, s>> \in listed /\ m \in Clients(<<r, s>>[1])
      BY <2>2, <2>3, <3>2, Zenon
    <3> QED
      BY <3>3, Zenon
  <2> QED
    BY <2>5, <2>6, <2>7, Zenon
<1> QED
  BY <1>1, Invariant, BitsAlwaysExact, LinksAlways, RulesAlways, PTL

-----------------------------------------------------------------------------
(* Daemon.                                                                 *)

HIDE DEF Eligible, Track, Bit, Release
USE DEF ghosts, Gone, Known

\* The handlers of Provision are at work, or their tables wait to be freed.
Loop == phase \in LoopPhases /\ pc \in Steps \cup {"end"}

\* The tables of a process that has not entered the loop, or has freed them.
NoTables ==
  /\ tunnels = {} /\ slots = {}
  /\ \A m \in Macs : macIndex[m] = None
  /\ ~cleanupPending

\* Where main is, and which chains it has created by then.
MainInv ==
  \/ phase = "down" /\ pc = "down" /\ mine = {}
  \/ phase = "starting" /\ pc = "new_in" /\ mine = {}
  \/ phase = "starting" /\ pc \in {"new_out", "new_undo"} /\ mine = {"IN"} /\ "IN" \in chains
  \/ phase = "starting" /\ pc = "defaults" /\ mine = Chains /\ chains = Chains /\ i \in 1 .. 3
  \/ phase \in {"starting", "ending"} /\ pc \in {"end_flush", "end_del"} /\ mine = Chains /\ ended
  \/ Loop /\ mine = Chains /\ chains = Chains /\ (pc = "end" => phase = "ending")

\* The kernel state.
HostInv ==
  /\ \A s \in Slots : link[s] = Absent => bridged[s] = {} /\ s \notin missed
  /\ \A s \in Slots, h \in Hooks : jumps[s][h] > 0 => HookTarget(h) \in chains
  /\ FilterSurvivesCrash

StartInv ==
  phase = "starting" /\ pc # "new_in" =>
    /\ \A s \in Slots : Gone(s)
    /\ pc = "defaults" /\ i = 3 => "dropIn" \in defaults

DaemonInv ==
  /\ KernelTypeOK /\ TablesTypeOK
  /\ left \subseteq Chains /\ ended \in BOOLEAN
  /\ MainInv
  /\ HostInv
  /\ StartInv
  /\ IF Loop THEN IInv ELSE NoTables
-----------------------------------------------------------------------------
\* The invariant holds on a clean host.
LEMMA InitDaemonInv == DaemonInit => DaemonInv
<1> SUFFICES ASSUME DaemonInit PROVE DaemonInv
  BY Zenon
<1>1. KernelTypeOK
  BY Zenon DEF DaemonInit, KernelInit, KernelTypeOK
<1>2. TablesTypeOK
  <2>1. 0 \in Slots
    BY DEF Slots
  <2>2. /\ id \in [Remotes -> Slots]
        /\ ready \in [Remotes -> BOOLEAN]
        /\ hooks \in [Remotes -> SUBSET Hooks]
        /\ macs \in [Remotes -> SUBSET Macs]
        /\ macIndex \in [Macs -> Remotes \cup {None}]
    BY <2>1, Zenon DEF DaemonInit, TablesInit
  <2> QED
    BY <2>2, Zenon DEF DaemonInit, TablesInit, TablesTypeOK
<1>3. ~Loop /\ MainInv /\ StartInv
  BY Zenon DEF DaemonInit, Loop, LoopPhases, MainInv, StartInv
<1>4. missed = {} /\ \A s \in Slots : bridged[s] = {} /\ \A h \in Hooks : jumps[s][h] = 0
  BY Zenon DEF DaemonInit, KernelInit
<1>5. HostInv
  BY <1>4 DEF HostInv, FilterSurvivesCrash, FilterBeforeBridge, Filtered
<1>6. NoTables
  BY Zenon DEF DaemonInit, TablesInit, NoTables
<1> QED
  BY <1>1, <1>2, <1>3, <1>5, <1>6, Zenon DEF DaemonInit, DaemonInv

-----------------------------------------------------------------------------
(* In the loop.                                                            *)

\* The handlers of the loop neither create nor delete a chain.
LEMMA ChainsStay == Next => chains' = chains
<1> SUFFICES ASSUME Next PROVE chains' = chains
  BY Zenon
<1>1. CASE Adding
  BY <1>1, Zenon DEF Adding, Scan, ScanOverlooks, AddLink, GreAdd, AddHook, JumpInsert, AttachVlan, VlanAdd,
     AttachMaster, VlanMaster
<1>2. CASE Allowing
  BY <1>2, Zenon DEF Allowing, AllowCheck, AllowIn, AcceptInInsert, AllowOut, AcceptOutInsert,
     AllowUndo, AcceptInDelete
<1>3. CASE Deleting
  BY <1>3, Zenon DEF Deleting, DelLink, GreDel, Unhook, JumpDelete, UnhookSkip, DelDone
<1>4. CASE DeletingAll
  BY <1>4, Zenon DEF DeletingAll, DelallNext, DelallLink, GreDel, DelallUnhooked, DelallVisited
<1>5. CASE Resetting
  BY <1>5, Zenon DEF Resetting, FlushIn, FlushOut, ChainFlush, Defaults, DefaultAppend
<1>6. CASE Reject \/ Sigusr1 \/ SecondPasses
  BY <1>6, Zenon DEF Reject, Sigusr1, SecondPasses
<1>7. CASE Administrator
  BY <1>7, Zenon DEF Administrator, AdminAddLink, AdminDelLink
<1>8. CASE \E r \in Remotes, m \in Macs, v \in 0 .. NVlans : Packet(r, m, v)
  BY <1>8, Zenon DEF Packet
<1> QED
  BY <1>1, <1>2, <1>3, <1>4, <1>5, <1>6, <1>7, <1>8, Zenon DEF Next, Work

\* The chains of a process in the loop are its own, and it reaches the end of
\* provision_delall's last call only when it is ending.
OwnLoop == mine = Chains /\ chains = Chains /\ (pc = "end" => phase = "ending")

\* A handler only returns to provision_end if that has called it.
LEMMA EndReached == Next /\ pc' = "end" => phase' = phase /\ (pc = "end" \/ phase = "ending")
<1> SUFFICES ASSUME Next, pc' = "end" PROVE phase' = phase /\ (pc = "end" \/ phase = "ending")
  BY Zenon
<1>1. CASE Adding
  BY <1>1, Zenon DEF Adding, Scan, ScanOverlooks, AddLink, AddHook, AttachVlan, AttachMaster
<1>2. CASE Allowing
  BY <1>2, Zenon DEF Allowing, AllowCheck, AllowIn, AllowOut, AllowUndo
<1>3. CASE Deleting
  BY <1>3, Zenon DEF Deleting, DelLink, Unhook, UnhookSkip, DelDone
<1>4. CASE DeletingAll
  BY <1>4, Zenon DEF DeletingAll, DelallNext, DelallLink, DelallUnhooked, DelallVisited, Return
<1>5. CASE Resetting
  BY <1>5, Zenon DEF Resetting, FlushIn, FlushOut, Defaults, Return
<1>6. CASE Reject \/ Sigusr1 \/ SecondPasses \/ Administrator
  BY <1>6, Zenon DEF Reject, Sigusr1, SecondPasses, Administrator
<1>7. CASE \E r \in Remotes, m \in Macs, v \in 0 .. NVlans : Packet(r, m, v)
  BY <1>7, Zenon DEF Packet
<1> QED
  BY <1>1, <1>2, <1>3, <1>4, <1>5, <1>6, <1>7, Zenon DEF Next, Work

\* Where the tables are in use, their invariant implies the rest.
LEMMA LoopInv == IInv /\ OwnLoop /\ left \subseteq Chains /\ ended \in BOOLEAN => DaemonInv
<1> SUFFICES ASSUME IInv, OwnLoop, left \subseteq Chains, ended \in BOOLEAN
             PROVE  DaemonInv
  BY Zenon
<1>1. KernelTypeOK /\ TablesTypeOK /\ Loop
  BY Zenon DEF IInv, TypeOK, Loop
<1>2. MainInv /\ StartInv
  BY <1>1, Zenon DEF MainInv, StartInv, Loop, LoopPhases, OwnLoop
<1>3. FilterSurvivesCrash
  BY Zenon DEF IInv, BridgeInv, CleanupInv, FilterSurvivesCrash, FilterBeforeBridge, Filtered
<1>4. \A h \in Hooks : HookTarget(h) \in chains
  BY Zenon DEF OwnLoop, Chains, HookTarget
<1>5. HostInv
  BY <1>3, <1>4, Zenon DEF HostInv, IInv, BridgeInv
<1> QED
  BY <1>1, <1>2, <1>5, Zenon DEF DaemonInv

\* In the loop the process has created both chains, and they are there.
LEMMA InLoop == DaemonInv /\ Loop => IInv /\ OwnLoop
  BY Zenon DEF DaemonInv, MainInv, Loop, LoopPhases, Steps, OwnLoop

\* A step of a handler.
LEMMA HandlerStep == DaemonInv /\ Loop /\ Next /\ UNCHANGED ghosts => DaemonInv'
<1> SUFFICES ASSUME DaemonInv, Loop, Next, UNCHANGED ghosts PROVE DaemonInv'
  BY Zenon
<1>1. IInv'
  BY InLoop, NextIInv, Zenon
<1>2. left' \subseteq Chains /\ ended' \in BOOLEAN /\ OwnLoop'
  BY InLoop, ChainsStay, EndReached, Zenon DEF DaemonInv, OwnLoop
<1>3. (IInv /\ OwnLoop /\ left \subseteq Chains /\ ended \in BOOLEAN => DaemonInv)'
  BY LoopInv, PTL
<1> QED
  BY <1>1, <1>2, <1>3, Zenon

\* The loop is left: the tables are as they were.
LEMMA StopStep == DaemonInv /\ Stop => DaemonInv'
<1> SUFFICES ASSUME DaemonInv, Stop PROVE DaemonInv'
  BY Zenon
<1>1. Loop
  BY Zenon DEF Stop, DaemonInv, Loop, LoopPhases, Steps
<1>2. IInv /\ mine = Chains /\ chains = Chains
  BY <1>1, InLoop, Zenon DEF OwnLoop
<1>3. KernelTypeOK' /\ TablesTypeOK'
  BY <1>2, ZenonT(40), ZenonT(60), ZenonT(60) DEF Stop, IInv, TypeOK, KernelTypeOK, TablesTypeOK
<1>4. TypeOK'
  BY <1>3, Zenon DEF Stop, TypeOK, LoopPhases, Steps
<1>5. /\ SlotsExact' /\ IndexExact' /\ ClientsInv' /\ RevokeUnreachable'
      /\ ControlInv' /\ BridgeInv' /\ CleanupInv'
  <2>1. SlotsExact' /\ IndexExact' /\ ClientsInv' /\ RevokeUnreachable'
    BY <1>2, SMTT(30) DEF Stop, IInv, SlotsExact, IndexExact, ClientsInv, RevokeUnreachable
  <2>2. ControlInv'
    BY <1>2, Zenon DEF Stop, IInv, ControlInv
  <2>3. BridgeInv'
    BY <1>2, Zenon DEF Stop, IInv, BridgeInv
  <2>4. CleanupInv'
    BY <1>2, Zenon DEF Stop, IInv, CleanupInv
  <2> QED
    BY <2>1, <2>2, <2>3, <2>4, Zenon
<1>6. IInv'
  BY <1>4, <1>5, Zenon DEF IInv
<1>7. (IInv /\ OwnLoop /\ left \subseteq Chains /\ ended \in BOOLEAN => DaemonInv)'
  BY LoopInv, PTL
<1> QED
  BY <1>2, <1>6, <1>7, Zenon DEF Stop, DaemonInv, OwnLoop

\* provision_end starts a last full cleanup, as SIGUSR1 does.
LEMMA ProvisionEndStep == DaemonInv /\ ProvisionEnd => DaemonInv'
<1> SUFFICES ASSUME DaemonInv, ProvisionEnd PROVE DaemonInv'
  BY Zenon
<1>1. Loop
  BY Zenon DEF ProvisionEnd, DaemonInv, Loop, LoopPhases, Steps
<1>2. IInv /\ mine = Chains /\ chains = Chains
  BY <1>1, InLoop, Zenon DEF OwnLoop
<1>3. KernelTypeOK' /\ TablesTypeOK'
  BY <1>2, Zenon DEF ProvisionEnd, IInv, TypeOK, KernelTypeOK, TablesTypeOK
<1>4. TypeOK'
  BY <1>3, Zenon DEF ProvisionEnd, TypeOK, LoopPhases, Steps
<1>5. SlotsExact' /\ IndexExact' /\ ClientsInv' /\ RevokeUnreachable'
  <2>1. UNCHANGED <<tunnels, id, slots, macs, macIndex>> /\ cleanupPending' = TRUE /\ pc' = "delall"
    BY Zenon DEF ProvisionEnd
  <2>2. SlotsExact'
    BY <1>2, <2>1, Zenon DEF IInv, SlotsExact
  <2>3. IndexExact'
    BY <1>2, <2>1, Zenon DEF IInv, IndexExact
  <2>4. ClientsInv' /\ RevokeUnreachable'
    BY <2>1 DEF ClientsInv, RevokeUnreachable
  <2> QED
    BY <2>2, <2>3, <2>4, Zenon
<1>6. ControlInv'
  BY <1>2, Zenon DEF ProvisionEnd, IInv, TypeOK, TablesTypeOK, ControlInv, PacketSteps, AddSteps,
     AllowSteps
<1>7. BridgeInv'
  BY <1>2, Zenon DEF ProvisionEnd, IInv, BridgeInv, AddSteps
<1>8. CleanupInv'
  BY <1>2, Zenon DEF ProvisionEnd, IInv, CleanupInv, ResetSteps
<1>9. IInv'
  BY <1>4, <1>5, <1>6, <1>7, <1>8, Zenon DEF IInv
<1>10. (IInv /\ OwnLoop /\ left \subseteq Chains /\ ended \in BOOLEAN => DaemonInv)'
  BY LoopInv, PTL
<1> QED
  BY <1>2, <1>9, <1>10, Zenon DEF ProvisionEnd, DaemonInv, OwnLoop

-----------------------------------------------------------------------------
(* Outside the loop.                                                       *)

\* Outside the loop no handler can take a step, only the administrator.
LEMMA OnlyAdministrator == MainInv /\ ~Loop /\ Next => Administrator
<1> SUFFICES ASSUME MainInv, ~Loop, Next PROVE Administrator
  BY Zenon
<1>1. /\ phase \notin {"running", "stopping"} /\ pc # "idle"
      /\ pc \notin Steps \/ (pc = "defaults" /\ phase = "starting")
  BY Zenon DEF MainInv, Loop, LoopPhases, Steps
<1>2. ~Adding
  BY <1>1, Zenon DEF Adding, Scan, ScanOverlooks, AddLink, AddHook, AttachVlan, AttachMaster, Steps
<1>3. ~Allowing
  BY <1>1, Zenon DEF Allowing, AllowCheck, AllowIn, AllowOut, AllowUndo, Steps
<1>4. ~Deleting
  BY <1>1, Zenon DEF Deleting, DelLink, Unhook, UnhookSkip, DelDone, Steps
<1>5. ~DeletingAll
  BY <1>1, Zenon DEF DeletingAll, DelallNext, DelallLink, DelallUnhooked, DelallVisited, Steps
<1>6. ~Resetting
  BY <1>1, Zenon DEF Resetting, FlushIn, FlushOut, Defaults, Steps
<1>7. ~Reject /\ ~Sigusr1 /\ ~SecondPasses
  BY <1>1, Zenon DEF Reject, Sigusr1, SecondPasses, Steps
<1>8. ~\E r \in Remotes, m \in Macs, v \in 0 .. NVlans : Packet(r, m, v)
  BY <1>1, Zenon DEF Packet
<1> QED
  BY <1>2, <1>3, <1>4, <1>5, <1>6, <1>7, <1>8, Zenon DEF Next, Work

\* A step that leaves the tables alone, or frees them, and leads or stays outside
\* the loop keeps the invariant if it keeps the parts about main and the host.
LEMMA OutsideInv ==
  ASSUME DaemonInv, ~Loop', NoTables',
         KernelTypeOK', TablesTypeOK', left' \subseteq Chains, ended' \in BOOLEAN,
         MainInv', HostInv', StartInv'
  PROVE  DaemonInv'
  BY Zenon DEF DaemonInv

\* The administrator changes links while main is outside its loop.
LEMMA AdminStep == DaemonInv /\ ~Loop /\ Administrator /\ UNCHANGED ghosts => DaemonInv'
<1> SUFFICES ASSUME DaemonInv, ~Loop, Administrator, UNCHANGED ghosts PROVE DaemonInv'
  BY Zenon
<1>1. PICK s \in Slots : AdminAddLink(s) \/ AdminDelLink(s)
  BY Zenon DEF Administrator
<1>2. KernelTypeOK'
  <2>1. CASE AdminAddLink(s)
    BY <2>1, SMTT(60) DEF AdminAddLink, DaemonInv, KernelTypeOK
  <2>2. CASE AdminDelLink(s)
    BY <2>2 DEF AdminDelLink, DaemonInv, KernelTypeOK
  <2> QED
    BY <1>1, <2>1, <2>2, Zenon
<1>3. UNCHANGED <<jumps, defaults, chains>>
  BY <1>1, Zenon DEF AdminAddLink, AdminDelLink
<1>4. /\ \A t \in Slots : bridged'[t] = {} \/ (bridged'[t] = bridged[t] /\ (t \in missed => t \in missed'))
      /\ \A t \in Slots : link'[t] = Absent => bridged'[t] = {} /\ t \notin missed'
  <2>1. CASE AdminAddLink(s)
    BY <2>1, Zenon DEF AdminAddLink, DaemonInv, KernelTypeOK, HostInv
  <2>2. CASE AdminDelLink(s)
    BY <2>2, Zenon DEF AdminDelLink, DaemonInv, KernelTypeOK, HostInv
  <2> QED
    BY <1>1, <2>1, <2>2, Zenon
<1>5. TablesTypeOK' /\ NoTables' /\ ~Loop'
  BY ZenonT(40), ZenonT(60) DEF Administrator, DaemonInv, TablesTypeOK, NoTables, Loop
<1>6. MainInv' /\ StartInv'
  BY <1>3, <1>4, Zenon DEF Administrator, DaemonInv, MainInv, StartInv, Loop
<1>7. HostInv'
  BY <1>3, <1>4, Zenon DEF DaemonInv, HostInv, FilterSurvivesCrash, FilterBeforeBridge, Filtered
<1> QED
  BY <1>2, <1>5, <1>6, <1>7, OutsideInv, Zenon DEF DaemonInv

\* A new process.
LEMMA StartStep == DaemonInv /\ Start => DaemonInv'
<1> SUFFICES ASSUME DaemonInv, Start PROVE DaemonInv'
  BY Zenon
<1>1. ~Loop /\ ~Loop' /\ mine = {}
  BY Zenon DEF Start, Loop, LoopPhases, DaemonInv, MainInv
<1>2. KernelTypeOK' /\ TablesTypeOK' /\ NoTables'
  BY <1>1, ZenonT(40) DEF Start, DaemonInv, KernelTypeOK, TablesTypeOK, NoTables
<1>3. MainInv' /\ StartInv'
  BY <1>1, Zenon DEF Start, MainInv, StartInv
<1>4. HostInv'
  BY Zenon DEF Start, DaemonInv, HostInv, FilterSurvivesCrash, FilterBeforeBridge, Filtered
<1> QED
  BY <1>1, <1>2, <1>3, <1>4, OutsideInv, Zenon DEF Start, DaemonInv

\* What -N leaves.
LEMMA NewKeeps ==
  ASSUME KernelTypeOK, NEW c \in Chains, NEW o \in Outcome, ChainNew(c, o)
  PROVE  /\ KernelTypeOK'
         /\ UNCHANGED <<link, bridged, jumps, defaults, missed>>
         /\ chains \subseteq chains'
         /\ Ok(o) => c \notin chains /\ chains' = chains \cup {c}
  BY DEF ChainNew, Ends, KernelTypeOK, Outcome

\* iface_ebtables_init, first chain: where it succeeds, no jump to SOFTGRE_IN exists,
\* so no tunnel is bridged.
LEMMA NewInStep == ASSUME DaemonInv, NEW o \in Outcome, NewIn(o) PROVE DaemonInv'
<1>1. /\ ~Loop /\ mine = {} /\ phase = "starting"
  BY Zenon DEF NewIn, Loop, LoopPhases, DaemonInv, MainInv, Steps
<1>2. KernelTypeOK /\ "IN" \in Chains /\ ChainNew("IN", o)
  BY Zenon DEF NewIn, DaemonInv, Chains
<1>3. /\ KernelTypeOK'
      /\ UNCHANGED <<link, bridged, jumps, defaults, missed>>
      /\ chains \subseteq chains'
      /\ Ok(o) => "IN" \notin chains /\ "IN" \in chains'
  BY <1>2, NewKeeps, Zenon
<1>4. Ok(o) => \A s \in Slots : Gone(s)
  <2>1. 1 \in Hooks /\ HookTarget(1) = "IN"
    BY DEF Hooks, HookTarget
  <2> QED
    BY <1>3, <2>1, Zenon DEF DaemonInv, HostInv, FilterSurvivesCrash
<1>5. \/ Ok(o) /\ phase' = "starting" /\ pc' = "new_out" /\ mine' = {"IN"}
      \/ ~Ok(o) /\ phase' = "down" /\ pc' = "down" /\ mine' = {}
  BY <1>1, Zenon DEF NewIn, Exit
<1>6. ~Loop' /\ MainInv' /\ StartInv'
  BY <1>3, <1>4, <1>5, Zenon DEF Loop, LoopPhases, MainInv, StartInv
<1>7. TablesTypeOK' /\ NoTables'
  BY <1>1, Zenon DEF NewIn, DaemonInv, TablesTypeOK, NoTables
<1>8. HostInv'
  BY <1>3, Zenon DEF NewIn, DaemonInv, HostInv, FilterSurvivesCrash, FilterBeforeBridge, Filtered
<1> QED
  BY <1>3, <1>6, <1>7, <1>8, OutsideInv, Zenon DEF NewIn, DaemonInv

\* Second chain.
LEMMA NewOutStep == ASSUME DaemonInv, NEW o \in Outcome, NewOut(o) PROVE DaemonInv'
<1>1. /\ ~Loop /\ mine = {"IN"} /\ "IN" \in chains /\ phase = "starting"
  BY Zenon DEF NewOut, Loop, LoopPhases, DaemonInv, MainInv, Steps
<1>2. KernelTypeOK /\ "OUT" \in Chains /\ ChainNew("OUT", o)
  BY Zenon DEF NewOut, DaemonInv, Chains
<1>3. /\ KernelTypeOK'
      /\ UNCHANGED <<link, bridged, jumps, defaults, missed>>
      /\ chains \subseteq chains'
      /\ Ok(o) => "OUT" \in chains'
  BY <1>2, NewKeeps, Zenon
<1>4. \A s \in Slots : Gone(s)
  BY <1>1, Zenon DEF NewOut, DaemonInv, StartInv
<1>5. \/ pc' = "defaults" /\ i' = 1 /\ mine' = Chains /\ chains' = Chains
      \/ pc' = "new_undo" /\ mine' = {"IN"}
  BY <1>1, <1>3 DEF NewOut, Chains, KernelTypeOK
<1>6. ~Loop' /\ MainInv' /\ StartInv'
  <2>1. phase' = "starting" /\ 1 \in 1 .. 3 /\ 1 # 3
    BY <1>1 DEF NewOut
  <2> QED
    BY <1>1, <1>3, <1>4, <1>5, <2>1, Zenon DEF Loop, LoopPhases, MainInv, StartInv
<1>7. NoTables'
  BY <1>1, Zenon DEF NewOut, DaemonInv, NoTables
<1>8. TablesTypeOK'
  BY SMTT(30) DEF NewOut, DaemonInv, TablesTypeOK
<1>9. HostInv'
  BY <1>3, Zenon DEF NewOut, DaemonInv, HostInv, FilterSurvivesCrash, FilterBeforeBridge, Filtered
<1> QED
  BY <1>3, <1>6, <1>7, <1>8, <1>9, OutsideInv, Zenon DEF NewOut, DaemonInv

\* What -X leaves: a chain that goes was not jumped to.
LEMMA DeleteKeeps ==
  ASSUME KernelTypeOK, NEW c \in Chains, NEW o \in Outcome, ChainDelete(c, o)
  PROVE  /\ KernelTypeOK'
         /\ UNCHANGED <<link, bridged, jumps, missed>>
         /\ \A s \in Slots, h \in Hooks :
               HookTarget(h) \in chains /\ jumps[s][h] > 0 => HookTarget(h) \in chains'
<1>1. KernelTypeOK'
  BY SMTT(60) DEF ChainDelete, Ends, KernelTypeOK, NoAccepts
<1>2. o \in {"ok", "late"} => Unreferenced(c)
  BY DEF ChainDelete, Ends
<1>3. ASSUME NEW s \in Slots, NEW h \in Hooks, HookTarget(h) \in chains, jumps[s][h] > 0
      PROVE  HookTarget(h) \in chains'
  <2>1. CASE o \in {"ok", "late"}
    <3>1. HookTarget(h) # c
      BY <1>2, <1>3, <2>1 DEF Unreferenced
    <3> QED
      BY <3>1, <1>3, Zenon DEF ChainDelete
  <2>2. CASE o \notin {"ok", "late"}
    BY <2>2, <1>3, Zenon DEF ChainDelete
  <2> QED
    BY <2>1, <2>2, Zenon
<1> QED
  BY <1>1, <1>3, Zenon DEF ChainDelete

\* The first chain goes again when the second cannot be created.
LEMMA NewUndoStep == ASSUME DaemonInv, NEW o \in Outcome, NewUndo(o) PROVE DaemonInv'
<1>1. ~Loop /\ phase = "starting"
  BY Zenon DEF NewUndo, Loop, LoopPhases, DaemonInv, MainInv, Steps
<1>2. KernelTypeOK /\ "IN" \in Chains /\ ChainDelete("IN", o)
  BY Zenon DEF NewUndo, DaemonInv, Chains
<1>3. /\ KernelTypeOK'
      /\ UNCHANGED <<link, bridged, jumps, missed>>
      /\ \A s \in Slots, h \in Hooks :
               HookTarget(h) \in chains /\ jumps[s][h] > 0 => HookTarget(h) \in chains'
  BY <1>2, DeleteKeeps, Zenon
<1>4. \A s \in Slots : Gone(s)
  BY <1>1, Zenon DEF NewUndo, DaemonInv, StartInv
<1>5. ~Loop' /\ MainInv' /\ StartInv'
  BY Zenon DEF NewUndo, Exit, Loop, LoopPhases, MainInv, StartInv
<1>6. TablesTypeOK' /\ NoTables'
  BY <1>1, Zenon DEF NewUndo, DaemonInv, TablesTypeOK, NoTables
<1>7. HostInv'
  BY <1>3, <1>4, Zenon DEF NewUndo, DaemonInv, HostInv, FilterSurvivesCrash, FilterBeforeBridge, Filtered
<1> QED
  BY <1>3, <1>5, <1>6, <1>7, OutsideInv, Zenon DEF NewUndo, DaemonInv

\* chain_defaults of iface_ebtables_init, and the loop is entered.
LEMMA InitDefaultsStep == ASSUME DaemonInv, NEW o \in Outcome, InitDefaults(o) PROVE DaemonInv'
<1>1. ~Loop /\ mine = Chains /\ chains = Chains /\ i \in 1 .. 3
  BY Zenon DEF InitDefaults, Loop, LoopPhases, DaemonInv, MainInv
<1>2. /\ \A s \in Slots : Gone(s)
      /\ i = 3 => "dropIn" \in defaults
  BY Zenon DEF InitDefaults, DaemonInv, StartInv
<1>3. /\ KernelTypeOK'
      /\ UNCHANGED <<link, bridged, jumps, chains, missed>>
  <2>1. DefaultRule(i) \in DefaultRules
    BY <1>1, Zenon DEF DefaultRules
  <2> QED
    BY <2>1, SMTT(30) DEF InitDefaults, DefaultAppend, Ends, DaemonInv, KernelTypeOK
<1>4. /\ o = "ok" => defaults' = defaults \cup {DefaultRule(i)}
      /\ mine' = Chains /\ left' \subseteq Chains /\ ended' \in BOOLEAN
  BY <1>1, Zenon DEF InitDefaults, DefaultAppend, DaemonInv
<1>5. TablesTypeOK'
  BY <1>1 DEF InitDefaults, DaemonInv, TablesTypeOK
<1>6. NoTables'
  BY <1>1, Zenon DEF InitDefaults, DaemonInv, NoTables
<1>7. HostInv'
  BY <1>2, <1>3, Zenon DEF DaemonInv, HostInv, FilterSurvivesCrash, FilterBeforeBridge, Filtered
<1>8. CASE o # "ok"
  <2>1. phase' = "starting" /\ pc' = "end_flush" /\ ended'
    BY <1>8, Zenon DEF InitDefaults
  <2>2. ~Loop' /\ MainInv' /\ StartInv'
    BY <1>2, <1>3, <1>4, <2>1, Zenon DEF Loop, LoopPhases, MainInv, StartInv
  <2> QED
    BY <1>3, <1>4, <1>5, <1>6, <1>7, <2>2, OutsideInv, Zenon
<1>9. CASE o = "ok" /\ i < 3
  <2>1. phase' = "starting" /\ pc' = "defaults" /\ i' = i + 1
    BY <1>9, Zenon DEF InitDefaults
  <2>2. i' \in 1 .. 3 /\ (i' = 3 => "dropIn" \in defaults')
    BY <1>1, <1>4, <1>9, <2>1 DEF DefaultRule
  <2>3. ~Loop' /\ MainInv' /\ StartInv'
    BY <1>1, <1>2, <1>3, <1>4, <2>1, <2>2, Zenon DEF Loop, LoopPhases, MainInv, StartInv
  <2> QED
    BY <1>3, <1>4, <1>5, <1>6, <1>7, <2>3, OutsideInv, Zenon
<1>10. CASE o = "ok" /\ ~(i < 3)
  <2>1. i = 3
    BY <1>1, <1>10
  <2>2. phase' \in {"running", "stopping"} /\ pc' = "idle"
    BY <1>10, Zenon DEF InitDefaults
  <2>3. {"dropIn", "dropOut"} \subseteq defaults'
    BY <1>2, <1>4, <1>10, <2>1 DEF DefaultRule
  <2>4. TypeOK'
    BY <1>3, <1>5, <2>2, Zenon DEF TypeOK, LoopPhases, Steps
  <2>5. SlotsExact' /\ ClientsInv'
    BY <1>6 DEF NoTables, SlotsExact, ClientsInv
  <2>6. IndexExact'
    BY <1>6, Zenon DEF NoTables, IndexExact
  <2>7. ControlInv' /\ RevokeUnreachable'
    BY <1>6, <2>2, Zenon DEF NoTables, ControlInv, RevokeUnreachable, PacketSteps, AddSteps,
       AllowSteps, DelallSteps, ResetSteps
  <2>8. BridgeInv'
    <3>1. /\ \A s \in Slots : Gone(s)'
          /\ \A s \in Slots : link'[s] = Absent => bridged'[s] = {} /\ s \notin missed'
      BY <1>2, <1>3, <1>7, Zenon DEF HostInv
    <3> QED
      BY <2>2, <3>1, Zenon DEF BridgeInv, AddSteps
  <2>9. CleanupInv'
    BY <2>2, <2>3, Zenon DEF CleanupInv, ResetSteps
  <2>10. IInv'
    BY <2>4, <2>5, <2>6, <2>7, <2>8, <2>9, Zenon DEF IInv
  <2>11. (IInv /\ OwnLoop /\ left \subseteq Chains /\ ended \in BOOLEAN => DaemonInv)'
    BY LoopInv, PTL
  <2> QED
    BY <1>1, <1>3, <1>4, <2>2, <2>10, <2>11, Zenon DEF OwnLoop
<1> QED
  BY <1>8, <1>9, <1>10, Zenon

\* The tables after they are freed.
LEMMA Forgotten == TablesTypeOK /\ Forget => TablesTypeOK' /\ NoTables'
<1> SUFFICES ASSUME TablesTypeOK, Forget PROVE TablesTypeOK' /\ NoTables'
  BY Zenon
<1>1. 0 \in Slots
  BY DEF Slots
<1>2. /\ id' \in [Remotes -> Slots]
      /\ ready' \in [Remotes -> BOOLEAN]
      /\ hooks' \in [Remotes -> SUBSET Hooks]
      /\ macs' \in [Remotes -> SUBSET Macs]
      /\ macIndex' \in [Macs -> Remotes \cup {None}]
  BY <1>1, Zenon DEF Forget
<1>3. TablesTypeOK'
  BY <1>2, Zenon DEF Forget, TablesTypeOK
<1> QED
  BY <1>3, Zenon DEF Forget, NoTables

\* provision_end frees the tables.
LEMMA EndTablesStep == DaemonInv /\ EndTables => DaemonInv'
<1> SUFFICES ASSUME DaemonInv, EndTables PROVE DaemonInv'
  BY Zenon
<1>1. Loop /\ mine = Chains /\ phase = "ending"
  BY Zenon DEF EndTables, Loop, LoopPhases, DaemonInv, MainInv, IInv, TypeOK, Steps
<1>2. KernelTypeOK' /\ TablesTypeOK' /\ NoTables'
  BY Forgotten, Zenon DEF EndTables, DaemonInv, KernelTypeOK
<1>3. ~Loop' /\ MainInv' /\ StartInv'
  BY <1>1, Zenon DEF EndTables, Loop, Steps, MainInv, StartInv
<1>4. HostInv'
  BY Zenon DEF EndTables, DaemonInv, HostInv, FilterSurvivesCrash
<1> QED
  BY <1>2, <1>3, <1>4, OutsideInv, Zenon DEF EndTables, DaemonInv

\* iface_ebtables_end, first line: rules go, jumps stay.
LEMMA EndFlushStep == ASSUME DaemonInv, NEW o \in Outcome, EndFlush(o) PROVE DaemonInv'
<1>1. ~Loop /\ mine = Chains /\ ended /\ phase \in {"starting", "ending"}
  BY Zenon DEF EndFlush, Loop, LoopPhases, DaemonInv, MainInv, Steps
<1>2. PICK c \in left : /\ ChainFlush(c, o)
                        /\ left' = IF left = {c} THEN Chains ELSE left \ {c}
                        /\ pc' = IF left = {c} THEN "end_del" ELSE pc
  BY Zenon DEF EndFlush
<1>3. /\ KernelTypeOK'
      /\ UNCHANGED <<link, bridged, jumps, chains, missed>>
  BY <1>2 DEF ChainFlush, Ends, DaemonInv, KernelTypeOK, NoAccepts
<1>4. left' \subseteq Chains /\ pc' \in {"end_flush", "end_del"}
  BY <1>2, Zenon DEF EndFlush, DaemonInv
<1>5. UNCHANGED <<tableVars, phase, mine, ended>> /\ TablesTypeOK' /\ NoTables'
  BY <1>1, Zenon DEF EndFlush, DaemonInv, TablesTypeOK, NoTables
<1>6. ~Loop' /\ MainInv' /\ StartInv'
  <2>1. phase = "starting" /\ pc # "new_in" => \A s \in Slots : Gone(s)
    BY Zenon DEF DaemonInv, StartInv
  <2>2. pc = "end_flush"
    BY Zenon DEF EndFlush
  <2> QED
    BY <1>1, <1>3, <1>4, <1>5, <2>1, <2>2, Zenon DEF Loop, LoopPhases, Steps, MainInv, StartInv
<1>7. HostInv'
  BY <1>1, <1>3, <1>5, Zenon DEF DaemonInv, HostInv, FilterSurvivesCrash
<1> QED
  BY <1>1, <1>3, <1>4, <1>5, <1>6, <1>7, OutsideInv, Zenon

\* Second line: a chain that is jumped to cannot be deleted.
LEMMA EndDeleteStep == ASSUME DaemonInv, NEW o \in Outcome, EndDelete(o) PROVE DaemonInv'
<1>1. ~Loop /\ mine = Chains /\ ended /\ phase \in {"starting", "ending"} /\ pc = "end_del"
  BY Zenon DEF EndDelete, Loop, LoopPhases, DaemonInv, MainInv, Steps
<1>2. PICK c \in left : /\ ChainDelete(c, o)
                        /\ left' = left \ {c}
                        /\ IF left = {c} THEN Exit ELSE UNCHANGED <<phase, pc, mine>>
  BY Zenon DEF EndDelete
<1>3. KernelTypeOK /\ c \in Chains
  BY Zenon DEF DaemonInv
<1>4. /\ KernelTypeOK'
      /\ UNCHANGED <<link, bridged, jumps, missed>>
      /\ \A s \in Slots, h \in Hooks :
               HookTarget(h) \in chains /\ jumps[s][h] > 0 => HookTarget(h) \in chains'
  BY <1>2, <1>3, DeleteKeeps, Zenon
<1>5. /\ ended' /\ left' \subseteq Chains
      /\ \/ phase' = "down" /\ pc' = "down" /\ mine' = {}
         \/ UNCHANGED <<phase, pc, mine>>
  BY <1>1, <1>2, Zenon DEF EndDelete, Exit, DaemonInv
<1>6. TablesTypeOK' /\ NoTables'
  BY <1>1, Zenon DEF EndDelete, DaemonInv, TablesTypeOK, NoTables
<1>7. ~Loop' /\ MainInv' /\ StartInv'
  BY <1>1, <1>4, <1>5, Zenon DEF Loop, LoopPhases, Steps, DaemonInv, MainInv, StartInv
<1>8. HostInv'
  BY <1>4, <1>5, Zenon DEF DaemonInv, HostInv, FilterSurvivesCrash
<1> QED
  BY <1>4, <1>5, <1>6, <1>7, <1>8, OutsideInv, Zenon

\* A crash leaves the kernel as it is.
LEMMA CrashStep == DaemonInv /\ Crash => DaemonInv'
<1> SUFFICES ASSUME DaemonInv, Crash PROVE DaemonInv'
  BY Zenon
<1>1. KernelTypeOK' /\ TablesTypeOK' /\ NoTables'
  BY Forgotten, Zenon DEF Crash, DaemonInv, KernelTypeOK
<1>2. ~Loop' /\ MainInv' /\ StartInv'
  BY Zenon DEF Crash, Exit, Loop, LoopPhases, MainInv, StartInv
<1>3. HostInv'
  BY Zenon DEF Crash, DaemonInv, HostInv, FilterSurvivesCrash, FilterBeforeBridge, Filtered
<1> QED
  BY <1>1, <1>2, <1>3, OutsideInv, Zenon DEF Crash, DaemonInv

\* The repair leaves nothing of softgred's.
LEMMA RepairStep == DaemonInv /\ Repair => DaemonInv'
<1> SUFFICES ASSUME DaemonInv, Repair PROVE DaemonInv'
  BY Zenon
<1>1. KernelTypeOK'
  BY DEF Repair, DaemonInv, KernelTypeOK, NoAccepts
<1>2. ~Loop /\ ~Loop' /\ MainInv' /\ StartInv'
  BY Zenon DEF Repair, Loop, LoopPhases, DaemonInv, MainInv, StartInv
<1>3. TablesTypeOK' /\ NoTables'
  BY <1>2, Zenon DEF Repair, DaemonInv, TablesTypeOK, NoTables
<1>4. /\ missed' = {} /\ \A s \in Slots : bridged'[s] = {}
      /\ \A s \in Slots, h \in Hooks : ~(jumps'[s][h] > 0)
  BY DEF Repair
<1>5. HostInv'
  BY <1>4, Zenon DEF HostInv, FilterSurvivesCrash, FilterBeforeBridge, Filtered
<1> QED
  BY <1>1, <1>2, <1>3, <1>5, OutsideInv, Zenon DEF Repair, DaemonInv

\* DaemonInv is inductive.
LEMMA NextDaemonInv == DaemonInv /\ [DaemonNext]_allVars => DaemonInv'
<1> SUFFICES ASSUME DaemonInv, [DaemonNext]_allVars PROVE DaemonInv'
  BY Zenon
<1>1. CASE Next /\ UNCHANGED ghosts
  BY <1>1, HandlerStep, OnlyAdministrator, AdminStep, Zenon DEF DaemonInv
<1>2. CASE Start \/ Stop \/ ProvisionEnd
  BY <1>2, StartStep, StopStep, ProvisionEndStep, Zenon
<1>3. CASE MainStep
  <2>1. ASSUME NEW o \in Outcome, StartCommand(o) PROVE DaemonInv'
    BY <2>1, NewInStep, NewOutStep, NewUndoStep, InitDefaultsStep, Zenon DEF StartCommand
  <2>2. ASSUME NEW o \in Outcome, EndCommand(o) PROVE DaemonInv'
    BY <2>2, EndFlushStep, EndDeleteStep, Zenon DEF EndCommand
  <2> QED
    BY <1>3, <2>1, <2>2, EndTablesStep, Zenon DEF MainStep
<1>4. CASE Crash \/ Repair
  BY <1>4, CrashStep, RepairStep, Zenon
<1>5. CASE UNCHANGED allVars
  <2>1. UNCHANGED vars /\ UNCHANGED ghosts
    BY <1>5, Zenon DEF allVars
  <2>2. CASE Loop
    <3>1. IInv' /\ OwnLoop'
      BY <2>1, <2>2, InLoop, NextIInv, Zenon DEF vars, OwnLoop
    <3>2. (IInv /\ OwnLoop /\ left \subseteq Chains /\ ended \in BOOLEAN => DaemonInv)'
      BY LoopInv, PTL
    <3> QED
      BY <2>1, <3>1, <3>2, Zenon DEF DaemonInv
  <2>3. CASE ~Loop
    <3>1. KernelTypeOK' /\ TablesTypeOK' /\ NoTables' /\ ~Loop'
      BY <2>1, <2>3, ZenonT(40), ZenonT(60), ZenonT(60), ZenonT(60) DEF vars, DaemonInv, KernelTypeOK, TablesTypeOK, NoTables, Loop
    <3>2. MainInv' /\ StartInv'
      BY <2>1, <2>3, <3>1, Zenon DEF vars, DaemonInv, MainInv, StartInv
    <3>3. HostInv'
      BY <2>1, Zenon DEF vars, DaemonInv, HostInv, FilterSurvivesCrash, FilterBeforeBridge, Filtered
    <3> QED
      BY <2>1, <3>1, <3>2, <3>3, OutsideInv, Zenon DEF DaemonInv
  <2> QED
    BY <2>2, <2>3, Zenon
<1> QED
  BY <1>1, <1>2, <1>3, <1>4, <1>5, Zenon DEF DaemonNext

\* What the process may count on, and what it leaves behind, at every step of main,
\* provision.c and iface_ebtables.c, across crashes and restarts and whatever fails,
\* noticed or not.
THEOREM DaemonInvariant == DaemonSpec => []DaemonInv
  BY InitDaemonInv, NextDaemonInv, PTL DEF DaemonSpec

\* A crash at any instant, any failed command and any later start leave every bridged
\* tunnel behind its jumps, and behind the DROP rules unless a shutdown
\* (iface_ebtables_end) has flushed them: for any number of tunnels, faults, crashes
\* and restarts.  Only a tunnel whose own deletion failed unnoticed (iface_gre.c:145) has
\* lost its jumps.
THEOREM FilterAlwaysSurvives == DaemonSpec => []FilterSurvivesCrash
<1>1. DaemonInv => FilterSurvivesCrash
  BY Zenon DEF DaemonInv, HostInv
<1> QED
  BY <1>1, DaemonInvariant, PTL

\* A process that is running.
OwnChainsStep ==
  phase # "down" =>
       \A c \in chains \ mine :
          /\ c \in chains'
          /\ defaults \cap RulesOf(c) \subseteq defaults'
          /\ IF c = "IN" THEN acceptIn' = acceptIn ELSE acceptOut' = acceptOut

\* No step of a process touches a chain it has not created.
LEMMA OwnChains == DaemonInv /\ [DaemonNext]_allVars => OwnChainsStep
<1> SUFFICES ASSUME DaemonInv, [DaemonNext]_allVars PROVE OwnChainsStep
  BY Zenon
<1>a. mine = Chains => OwnChainsStep
  BY Zenon DEF OwnChainsStep, DaemonInv, KernelTypeOK
<1>b. UNCHANGED <<acceptIn, acceptOut, defaults>> /\ chains \subseteq chains' => OwnChainsStep
  BY Zenon DEF OwnChainsStep
<1>1. CASE Next /\ UNCHANGED ghosts
  <2>1. CASE Loop
    BY <2>1, <1>a, InLoop, Zenon DEF OwnLoop
  <2>2. CASE ~Loop
    BY <2>2, <1>1, <1>b, OnlyAdministrator, Zenon DEF Administrator, AdminAddLink, AdminDelLink,
       DaemonInv
  <2> QED
    BY <2>1, <2>2, Zenon
<1>2. CASE Start \/ Stop \/ ProvisionEnd \/ Crash
  BY <1>2, <1>b, Zenon DEF Start, Stop, ProvisionEnd, Crash
<1>3. CASE MainStep
  <2>1. CASE EndTables
    BY <2>1, <1>b, Zenon DEF EndTables
  <2>2. ASSUME NEW o \in Outcome, NewIn(o) \/ NewOut(o) PROVE OwnChainsStep
    BY <2>2, <1>b, Zenon DEF NewIn, NewOut, ChainNew
  <2>3. ASSUME NEW o \in Outcome, NewUndo(o) PROVE OwnChainsStep
    <3>1. mine = {"IN"} /\ chains \subseteq Chains /\ "IN" # "OUT"
      BY <2>3, Zenon DEF NewUndo, DaemonInv, MainInv, Loop, Steps, KernelTypeOK
    <3>2. RulesOf("OUT") = {"multicast", "dropOut"} /\ RulesOf("IN") = {"dropIn"}
      BY <3>1, Zenon DEF RulesOf
    <3>3. /\ "OUT" \in chains => "OUT" \in chains'
          /\ defaults \cap RulesOf("OUT") \subseteq defaults'
          /\ acceptOut' = acceptOut
      BY <2>3, <3>1, <3>2 DEF NewUndo, ChainDelete
    <3> QED
      BY <3>1, <3>3, Zenon DEF OwnChainsStep, Chains
  <2>4. ASSUME NEW o \in Outcome, InitDefaults(o) PROVE OwnChainsStep
    BY <2>4, <1>a, Zenon DEF InitDefaults, DaemonInv, MainInv, Loop, LoopPhases
  <2>5. ASSUME NEW o \in Outcome, EndFlush(o) \/ EndDelete(o) PROVE OwnChainsStep
    BY <2>5, <1>a, Zenon DEF EndFlush, EndDelete, DaemonInv, MainInv, Loop, Steps
  <2> QED
    BY <1>3, <2>1, <2>2, <2>3, <2>4, <2>5, Zenon DEF MainStep, StartCommand, EndCommand
<1>4. CASE Repair
  BY <1>4, Zenon DEF Repair, OwnChainsStep
<1>5. CASE UNCHANGED allVars
  BY <1>5, <1>b, Zenon DEF allVars, vars
<1> QED
  BY <1>1, <1>2, <1>3, <1>4, <1>5, Zenon DEF DaemonNext

\* iface_ebtables_init and iface_ebtables_end never flush or delete a chain the
\* process did not create, whatever fails in the start.
THEOREM OnlyOwnChainsAlways == DaemonSpec => OnlyOwnChains
<1>1. DaemonInv /\ [DaemonNext]_allVars =>
        [phase # "down" =>
           \A c \in chains \ mine :
              /\ c \in chains'
              /\ defaults \cap RulesOf(c) \subseteq defaults'
              /\ IF c = "IN" THEN acceptIn' = acceptIn ELSE acceptOut' = acceptOut]_allVars
  BY OwnChains, Zenon DEF OwnChainsStep
<1> QED
  BY <1>1, DaemonInvariant, PTL DEF DaemonSpec, OnlyOwnChains

-----------------------------------------------------------------------------
(* What a process finds of its predecessors, if failed commands have no    *)
(* effect.  A tunnel interface outlives its process only behind its three  *)
(* jumps, or with the chains; jumps keep the chains from being deleted;    *)
(* and a chain that is there stops the next start.  One gap is left: a     *)
(* jump that could not be inserted, then twice a link that could not be    *)
(* deleted, make a tunnel that survives without one of its jumps.          *)

\* The interface of tunnel r is there, but not all of its jumps.
Half(r) == link[id[r]] = r /\ id[r] \notin missed /\ hooks[r] # Hooks

\* ... which happens while they are being inserted, or after failures: of an insertion,
\* before the link is deleted, and of that deletion, until the last cleanup.
Excused(r) ==
  \/ r = cur /\ pc = "hook"
  \/ r = cur /\ pc = "del" /\ faults + 1 <= MaxFaults
  \/ /\ faults + 2 <= MaxFaults
     /\ phase = "ending" => r \in todo \/ (r = cur /\ pc = "delall_del")

BuiltInv ==
  /\ phase = "ending" => cleanupPending \/ pc = "end"
  /\ phase = "ending" /\ pc \in ResetSteps \cup {"end"} => todo = {}
  /\ \A r \in tunnels : Half(r) => Excused(r)

\* provision_add, provision_del and provision_delall in their order: jumps before ports,
\* link before jumps.
LEMMA BuiltStep ==
  ASSUME ~Ambiguous, MaxFaults <= 2, faults <= MaxFaults, IInv, LinksInv, BuiltInv,
         chains = Chains, [Next]_vars
  PROVE  BuiltInv'
<1>t. /\ faults \in Nat /\ faults <= MaxFaults /\ tunnels \subseteq Remotes
      /\ id \in [Remotes -> Slots] /\ hooks \in [Remotes -> SUBSET Hooks]
      /\ DOMAIN link = Slots /\ cur \in Remotes
  BY Zenon DEF IInv, TypeOK, KernelTypeOK, TablesTypeOK
<1>c. ASSUME NEW o \in Outcome, NEW can, Ends(o, can)
      PROVE  /\ faults' = faults \/ (o = "failed" /\ faults # 0 /\ faults' = faults - 1)
             /\ o = "ok" \/ o = "failed" \/ (o = "refused" /\ ~can)
             /\ o = "failed" => faults # 0 /\ faults' = faults - 1
  BY <1>c, <1>t, SMTT(60) DEF Ends, Outcome
<1>d. ASSUME faults' = faults \/ (faults # 0 /\ faults' = faults - 1)
      PROVE  /\ faults + 2 <= MaxFaults => faults' + 2 <= MaxFaults
             /\ faults + 1 <= MaxFaults => faults' + 1 <= MaxFaults
             /\ faults' # faults => faults' + 1 <= MaxFaults
             /\ faults' # faults /\ faults + 1 <= MaxFaults => faults' + 2 <= MaxFaults
             /\ faults' # faults => ~(faults + 2 <= MaxFaults)
  BY <1>d, <1>t, SMTT(60)
<1>e. \A s : Overlooked(s) => faults # 0 /\ faults' = faults - 1
  BY <1>t DEF Overlooked
<1>p. /\ pc \in PacketSteps => phase # "ending"
      /\ pc = "unhook" /\ ~cleanupPending => phase # "ending"
  <2>1. "end" \notin PacketSteps /\ "end" # "unhook"
    BY Zenon DEF PacketSteps
  <2> QED
    BY <2>1, Zenon DEF BuiltInv, IInv, ControlInv
<1>a. ASSUME faults' = faults \/ (faults # 0 /\ faults' = faults - 1), phase' = phase,
             phase = "ending" => todo' = todo,
             \A r \in tunnels' : r \in tunnels /\ (Half(r)' => Half(r)),
             pc \notin {"hook", "del", "delall_del"},
             phase = "ending" => cleanupPending' \/ pc' = "end",
             phase = "ending" /\ pc' \in ResetSteps \cup {"end"} => todo = {}
      PROVE  BuiltInv'
  <2>1. ASSUME NEW r \in tunnels', Half(r)' PROVE Excused(r)'
    BY <1>a, <1>d, <2>1, Zenon DEF BuiltInv, Excused
  <2> QED
    BY <1>a, <2>1, Zenon DEF BuiltInv
<1>b. \A r \in tunnels : UNCHANGED <<link, id, hooks, missed>> => (Half(r)' => Half(r))
  BY Zenon DEF Half
<1>1. CASE Adding
  <2>0. "scan" \in PacketSteps /\ "gre_add" \in PacketSteps /\ "hook" \in PacketSteps
        /\ "vlan_add" \in PacketSteps /\ "vlan_master" \in PacketSteps
    BY Zenon DEF PacketSteps
  <2>1. CASE Scan \/ ScanOverlooks
    BY <2>0, <2>1, <1>a, <1>b, <1>e, <1>p, Zenon DEF Scan, ScanOverlooks
  <2>2. ASSUME NEW o \in Outcome, AddLink(o) PROVE BuiltInv'
    <3>1. /\ faults' = faults \/ (faults # 0 /\ faults' = faults - 1)
          /\ phase' = phase /\ phase # "ending" /\ pc = "gre_add"
          /\ o # "ok" => o \notin {"ok", "late"}
      BY <2>0, <2>2, <1>c, <1>p, Zenon DEF AddLink, GreAdd
    <3>2. CASE o # "ok"
      BY <3>1, <3>2, <2>2, <1>a, <1>b, Zenon DEF AddLink, GreAdd
    <3>3. CASE o = "ok"
      <4>1. cur \notin tunnels /\ i \in Slots /\ i \notin slots
        BY <3>1, Zenon DEF IInv, ControlInv
      <4>2. /\ tunnels' = tunnels \cup {cur} /\ cur' = cur /\ pc' = "hook"
            /\ \A r \in tunnels : id'[r] = id[r] /\ hooks'[r] = hooks[r] /\ id[r] # i /\ id[r] \in Slots
            /\ missed' = missed /\ \A s \in Slots : s # i => link'[s] = link[s]
        BY <3>3, <4>1, <2>2, <1>t, Zenon DEF AddLink, GreAdd, Track, IInv, SlotsExact
      <4>3. ASSUME NEW r \in tunnels', Half(r)' PROVE Excused(r)'
        <5>1. CASE r = cur
          BY <4>2, <5>1, Zenon DEF Excused
        <5>2. CASE r # cur
          <6>1. r \in tunnels /\ Half(r)
            BY <4>2, <4>3, <5>2, Zenon DEF Half
          <6> QED
            BY <6>1, <3>1, <1>d, Zenon DEF BuiltInv, Excused
        <5> QED
          BY <5>1, <5>2, Zenon
      <4> QED
        BY <3>1, <4>3, Zenon DEF BuiltInv
    <3> QED
      BY <3>2, <3>3, Zenon
  <2>3. ASSUME NEW o \in Outcome, AddHook(o) PROVE BuiltInv'
    <3>1. /\ faults' = faults \/ (faults # 0 /\ faults' = faults - 1)
          /\ phase' = phase /\ phase # "ending" /\ pc = "hook"
          /\ o # "ok" => faults # 0 /\ faults' = faults - 1
      <4>1. HookTarget(i) \in chains
        BY Zenon DEF Chains, HookTarget
      <4> QED
        BY <4>1, <2>0, <2>3, <1>c, <1>p, Zenon DEF AddHook, JumpInsert
    <3>2. /\ UNCHANGED <<tunnels, id, link, missed, cur>>
          /\ \A r \in tunnels : r # cur => hooks'[r] = hooks[r]
          /\ o # "ok" => pc' = "del"
          /\ o = "ok" => pc' = "hook" \/ (i = 3 /\ hooks'[cur] = hooks[cur] \cup Bit(i))
      BY <2>3, <1>t, Zenon DEF AddHook, JumpInsert
    <3>3. o = "ok" => pc' = "hook" \/ hooks'[cur] = Hooks
      <4>1. \A h \in Hooks : h < i => h \in hooks[cur]
        BY <3>1, Zenon DEF IInv, BridgeInv
      <4>2. hooks[cur] \subseteq Hooks
        BY <1>t, Zenon
      <4>3. i = 3 => hooks[cur] \cup {i} = Hooks
        BY <4>1, <4>2 DEF Hooks
      <4> QED
        BY <3>2, <4>3, Zenon DEF Bit
    <3>4. faults' # faults => faults' + 1 <= MaxFaults
      BY <3>1, <1>d, Zenon
    <3>5. o # "ok" => faults' # faults
      BY <3>1, <1>t, SMTT(60)
    <3>6. ASSUME NEW r \in tunnels', Half(r)' PROVE Excused(r)'
      <4>1. CASE r = cur
        BY <3>2, <3>3, <3>4, <3>5, <3>6, <4>1, Zenon DEF Half, Excused
      <4>2. CASE r # cur
        BY <3>1, <3>2, <3>6, <4>2, <1>d, Zenon DEF BuiltInv, Half, Excused
      <4> QED
        BY <4>1, <4>2, Zenon
    <3> QED
      BY <3>1, <3>6, Zenon DEF BuiltInv
  <2>4. ASSUME NEW o \in Outcome, AttachVlan(o) \/ AttachMaster(o) PROVE BuiltInv'
    <3>1. /\ faults' = faults \/ (faults # 0 /\ faults' = faults - 1)
          /\ phase' = phase /\ phase # "ending" /\ UNCHANGED <<link, missed, id, hooks, tunnels>>
          /\ pc \in {"vlan_add", "vlan_master"}
      BY <2>0, <2>4, <1>c, <1>p, Zenon DEF AttachVlan, VlanAdd, AttachMaster, VlanMaster
    <3> QED
      BY <3>1, <1>a, <1>b, Zenon
  <2> QED
    BY <1>1, <2>1, <2>2, <2>3, <2>4, Zenon DEF Adding
<1>2. CASE Allowing
  <2>1. /\ pc \in AllowSteps /\ phase' = phase /\ UNCHANGED <<link, missed, id, hooks, tunnels>>
        /\ faults' = faults \/ (faults # 0 /\ faults' = faults - 1)
    BY <1>2, <1>c, Zenon DEF Allowing, AllowCheck, AllowIn, AllowOut, AllowUndo, AcceptInInsert,
       AcceptOutInsert, AcceptInDelete, AllowSteps
  <2>2. phase # "ending" /\ pc \notin {"hook", "del", "delall_del"}
    BY <2>1, <1>p, Zenon DEF AllowSteps, PacketSteps
  <2> QED
    BY <2>1, <2>2, <1>a, <1>b, Zenon
<1>3. CASE Deleting
  <2>1. ASSUME NEW o \in Outcome, DelLink(o) PROVE BuiltInv'
    <3>1. /\ faults' = faults \/ (faults # 0 /\ faults' = faults - 1)
          /\ phase' = phase /\ phase # "ending" /\ pc = "del"
          /\ o = "failed" => faults # 0 /\ faults' = faults - 1
          /\ o \in {"ok", "failed", "missed"} \/ (o = "refused" /\ link[id[cur]] = Absent)
      BY <2>1, <1>c, <1>e, <1>p, Zenon DEF DelLink, GreDel, PacketSteps
    <3>2. /\ UNCHANGED <<tunnels, id, hooks, cur>> /\ cur \in tunnels /\ id[cur] \in Slots
          /\ \A r \in tunnels : r # cur => id[r] # id[cur] /\ id[r] \in Slots
      BY <3>1, <2>1, <1>t, Zenon DEF DelLink, IInv, ControlInv, SlotsExact
    <3>3. /\ \A s \in Slots : s # id[cur] => link'[s] = link[s] /\ (s \in missed => s \in missed')
          /\ o # "failed" => link'[id[cur]] = Absent \/ id[cur] \in missed'
          /\ o = "failed" => UNCHANGED <<link, missed>>
      BY <3>1, <3>2, <2>1, <1>t, Zenon DEF DelLink, GreDel
    <3>4. o = "failed" => faults' # faults
      BY <3>1, <1>t, SMTT(60)
    <3>5. ASSUME NEW r \in tunnels', Half(r)' PROVE Excused(r)'
      <4>1. CASE r = cur
        <5>1. o = "failed"
          BY <3>2, <3>3, <3>5, <4>1, <1>t, Zenon DEF Half
        <5>2. Half(r)
          BY <5>1, <3>2, <3>3, <3>5, Zenon DEF Half
        <5>3. faults + 1 <= MaxFaults
          <6>1. faults + 1 <= MaxFaults \/ faults + 2 <= MaxFaults
            BY <5>2, <3>1, <3>2, <4>1, Zenon DEF BuiltInv, Excused
          <6> QED
            BY <6>1, <1>t
        <5> QED
          BY <5>1, <5>3, <3>1, <3>4, <1>d, Zenon DEF Excused
      <4>2. CASE r # cur
        <5>1. Half(r)
          BY <3>2, <3>3, <3>5, <4>2, Zenon DEF Half
        <5> QED
          BY <5>1, <3>1, <3>2, <4>2, <1>d, Zenon DEF BuiltInv, Excused
      <4> QED
        BY <4>1, <4>2, Zenon
    <3> QED
      BY <3>1, <3>5, Zenon DEF BuiltInv
  <2>2. ASSUME NEW o \in Outcome, Unhook(o) PROVE BuiltInv'
    <3>1. /\ faults' = faults \/ (faults # 0 /\ faults' = faults - 1)
          /\ UNCHANGED <<phase, todo, tunnels, link, missed, id, pc, cleanupPending>> /\ pc = "unhook"
          /\ \A r \in tunnels : r # cur => hooks'[r] = hooks[r]
      BY <2>2, <1>c, <1>t, Zenon DEF Unhook, JumpDelete
    <3>2. ~Known(id[cur])
      BY <3>1, Zenon DEF LinksInv
    <3>3. \A r \in tunnels : Half(r)' => Half(r)
      BY <3>1, <3>2, <1>t, Zenon DEF Half
    <3> QED
      BY <3>1, <3>3, <1>a, Zenon DEF BuiltInv
  <2>3. CASE UnhookSkip
    BY <2>3, <1>a, <1>b, Zenon DEF UnhookSkip, BuiltInv
  <2>4. CASE DelDone
    <3>1. /\ faults' = faults /\ phase' = phase /\ phase # "ending" /\ pc = "unhook"
          /\ UNCHANGED <<link, missed, hooks>>
          /\ \A r \in tunnels' : r \in tunnels /\ id'[r] = id[r]
      BY <2>4, <1>p, <1>t, Zenon DEF DelDone, Release
    <3>2. \A r \in tunnels' : r \in tunnels /\ (Half(r)' => Half(r))
      BY <3>1, Zenon DEF Half
    <3> QED
      BY <3>1, <3>2, <1>a, Zenon
  <2> QED
    BY <1>3, <2>1, <2>2, <2>3, <2>4, Zenon DEF Deleting
<1>4. CASE DeletingAll
  <2>1. CASE DelallNext
    <3>1. PICK q \in todo : cur' = q /\ todo' = todo \ {q} /\ pc' = "delall_del"
      BY <2>1, Zenon DEF DelallNext
    <3>2. UNCHANGED <<faults, phase, tunnels, link, missed, id, hooks, cleanupPending>> /\ pc = "delall"
      BY <2>1, Zenon DEF DelallNext
    <3>3. ASSUME NEW r \in tunnels', Half(r)' PROVE Excused(r)'
      BY <3>1, <3>2, <3>3, <1>b, Zenon DEF BuiltInv, Excused
    <3> QED
      BY <3>1, <3>2, <3>3, Zenon DEF BuiltInv, ResetSteps
  <2>2. ASSUME NEW o \in Outcome, DelallLink(o) PROVE BuiltInv'
    <3>1. /\ faults' = faults \/ (faults # 0 /\ faults' = faults - 1)
          /\ UNCHANGED <<phase, todo, tunnels, id, hooks, cur, cleanupPending>> /\ pc = "delall_del"
          /\ o = "failed" => faults # 0 /\ faults' = faults - 1
          /\ o \in {"ok", "failed", "missed"} \/ (o = "refused" /\ link[id[cur]] = Absent)
          /\ pc' \in {"delall", "unhook"}
      BY <2>2, <1>c, <1>e, Zenon DEF DelallLink, GreDel
    <3>2. /\ cur \in tunnels /\ id[cur] \in Slots
          /\ \A r \in tunnels : r # cur => id[r] # id[cur] /\ id[r] \in Slots
      BY <3>1, <1>t, Zenon DEF IInv, ControlInv, SlotsExact
    <3>3. /\ \A s \in Slots : s # id[cur] => link'[s] = link[s] /\ (s \in missed => s \in missed')
          /\ o # "failed" => link'[id[cur]] = Absent \/ id[cur] \in missed'
          /\ o = "failed" => UNCHANGED <<link, missed>>
      BY <3>1, <3>2, <2>2, <1>t, Zenon DEF DelallLink, GreDel
    <3>4. o = "failed" => faults' # faults
      BY <3>1, <1>t, SMTT(60)
    <3>5. ASSUME NEW r \in tunnels', Half(r)' PROVE Excused(r)'
      <4>1. CASE r = cur
        <5>1. o = "failed"
          BY <3>1, <3>2, <3>3, <3>5, <4>1, <1>t, Zenon DEF Half
        <5>2. Half(r)
          BY <5>1, <3>1, <3>3, <3>5, Zenon DEF Half
        <5>3. faults + 2 <= MaxFaults
          BY <5>2, <3>1, <3>2, <4>1, Zenon DEF BuiltInv, Excused
        <5> QED
          BY <5>1, <5>3, <3>1, <3>4, <1>d, Zenon
      <4>2. CASE r # cur
        <5>1. Half(r)
          BY <3>1, <3>2, <3>3, <3>5, <4>2, Zenon DEF Half
        <5> QED
          BY <5>1, <3>1, <4>2, <1>d, Zenon DEF BuiltInv, Excused
      <4> QED
        BY <4>1, <4>2, Zenon
    <3> QED
      BY <3>1, <3>5, Zenon DEF BuiltInv, ResetSteps
  <2>3. CASE DelallUnhooked
    <3>1. /\ UNCHANGED <<faults, phase, todo, tunnels, link, missed, id, hooks, cleanupPending>>
          /\ pc = "unhook" /\ pc' = "delall"
      BY <2>3, Zenon DEF DelallUnhooked
    <3> QED
      BY <3>1, <1>a, <1>b, Zenon DEF BuiltInv, ResetSteps
  <2>4. CASE DelallVisited
    <3>1. /\ UNCHANGED <<faults, phase, todo, tunnels, link, missed, id, hooks, cleanupPending>>
          /\ pc = "delall" /\ todo = {}
      BY <2>4, Zenon DEF DelallVisited
    <3> QED
      BY <3>1, <1>a, <1>b, Zenon DEF BuiltInv
  <2> QED
    BY <1>4, <2>1, <2>2, <2>3, <2>4, Zenon DEF DeletingAll
<1>5. CASE Resetting
  <2>1. /\ faults' = faults \/ (faults # 0 /\ faults' = faults - 1)
        /\ UNCHANGED <<phase, todo, link, missed, hooks>> /\ pc \in ResetSteps
        /\ UNCHANGED <<tunnels, id>> \/ tunnels' = {}
    BY <1>5, <1>c, Zenon DEF Resetting, FlushIn, FlushOut, ChainFlush, Defaults, DefaultAppend,
       ResetSteps
  <2>2. phase = "ending" => cleanupPending' \/ pc' = "end"
    <3>1. CASE \E o \in Outcome : FlushIn(o) \/ FlushOut(o)
      <4>1. cleanupPending' = cleanupPending /\ pc # "end"
        BY <3>1, Zenon DEF FlushIn, FlushOut
      <4> QED
        BY <4>1, Zenon DEF BuiltInv
    <3>2. ASSUME NEW o \in Outcome, Defaults(o), phase = "ending"
          PROVE  cleanupPending' \/ pc' = "end"
      <4>1. CASE o = "ok" /\ i = 3
        <5>1. ~(i < 3)
          BY <4>1
        <5> QED
          BY <3>2, <5>1, Zenon DEF Defaults, Return
      <4>2. CASE ~(o = "ok" /\ i = 3)
        BY <3>2, <4>2, Zenon DEF Defaults, BuiltInv, ResetSteps
      <4> QED
        BY <4>1, <4>2, Zenon
    <3> QED
      BY <1>5, <3>1, <3>2, Zenon DEF Resetting
  <2>3. phase = "ending" => todo = {}
    BY <2>1, Zenon DEF BuiltInv
  <2>4. pc \notin {"hook", "del", "delall_del"}
    BY <2>1, Zenon DEF ResetSteps
  <2>5. \A r \in tunnels' : r \in tunnels /\ (Half(r)' => Half(r))
    BY <2>1, <1>b, Zenon
  <2> QED
    BY <2>1, <2>2, <2>3, <2>4, <2>5, <1>a, Zenon
<1>6. ASSUME NEW r \in Remotes, NEW m \in Macs, NEW v \in 0 .. NVlans, Packet(r, m, v)
      PROVE  BuiltInv'
  BY <1>6, <1>a, <1>b, <1>p, Zenon DEF Packet
<1>7. CASE Reject \/ Sigusr1
  <2>1. /\ UNCHANGED <<faults, phase, tunnels, link, missed, id, hooks>> /\ phase # "ending"
        /\ pc \in {"reject", "idle"}
    BY <1>7, <1>p, Zenon DEF Reject, Sigusr1, PacketSteps
  <2> QED
    BY <2>1, <1>a, <1>b, Zenon
<1>8. CASE SecondPasses \/ Administrator \/ UNCHANGED vars
  <2>1. /\ UNCHANGED <<faults, phase, tunnels, id, hooks, pc, cur, todo, cleanupPending>>
        /\ \A s \in Slots : Known(s)' => Known(s) /\ link[s] = link'[s]
    <3>1. CASE SecondPasses \/ UNCHANGED vars
      BY <3>1, Zenon DEF SecondPasses, vars
    <3>2. CASE Administrator
      BY <3>2, <1>t, Zenon DEF Administrator, AdminAddLink, AdminDelLink
    <3> QED
      BY <1>8, <3>1, <3>2, Zenon
  <2>2. \A r \in tunnels : Half(r)' => Half(r)
    <3>1. \A r \in tunnels : r \in Remotes /\ id[r] \in Slots
      BY <1>t, Zenon
    <3> QED
      BY <2>1, <3>1, Zenon DEF Half
  <2> QED
    BY <2>1, <2>2, Zenon DEF BuiltInv, Excused
<1> QED
  BY <1>1, <1>2, <1>3, <1>4, <1>5, <1>6, <1>7, <1>8, Zenon DEF Next, Work

\* A failure is used up.
LEMMA FaultsFall ==
  ASSUME faults \in Nat, faults <= MaxFaults, [DaemonNext]_allVars PROVE faults' <= MaxFaults
<1>a. \A o, can : Ends(o, can) => faults' <= MaxFaults
  BY DEF Ends
<1>b. faults' = faults => faults' <= MaxFaults
  OBVIOUS
<1>c. \A s : Overlooked(s) => faults' <= MaxFaults
  BY DEF Overlooked
<1>1. CASE Adding
  BY <1>1, <1>a, <1>b, <1>c, Zenon DEF Adding, Scan, ScanOverlooks, AddLink, GreAdd, AddHook, JumpInsert, AttachVlan,
     VlanAdd, AttachMaster, VlanMaster
<1>2. CASE Allowing
  BY <1>2, <1>a, <1>b, Zenon DEF Allowing, AllowCheck, AllowIn, AcceptInInsert, AllowOut,
     AcceptOutInsert, AllowUndo, AcceptInDelete
<1>3. CASE Deleting
  BY <1>3, <1>a, <1>b, <1>c, Zenon DEF Deleting, DelLink, GreDel, Unhook, JumpDelete, UnhookSkip, DelDone
<1>4. CASE DeletingAll
  BY <1>4, <1>a, <1>b, <1>c, Zenon DEF DeletingAll, DelallNext, DelallLink, GreDel, DelallUnhooked,
     DelallVisited
<1>5. CASE Resetting
  BY <1>5, <1>a, Zenon DEF Resetting, FlushIn, FlushOut, ChainFlush, Defaults, DefaultAppend
<1>6. CASE Reject \/ Sigusr1 \/ SecondPasses \/ Administrator
           \/ \E r \in Remotes, m \in Macs, v \in 0 .. NVlans : Packet(r, m, v)
  BY <1>6, <1>b, Zenon DEF Reject, Sigusr1, SecondPasses, Administrator, AdminAddLink,
     AdminDelLink, Packet
<1>7. CASE MainStep
  BY <1>7, <1>a, <1>b, ZenonT(60), ZenonT(60), ZenonT(60) DEF MainStep, EndTables, StartCommand, NewIn, NewOut, ChainNew,
     NewUndo, ChainDelete, InitDefaults, DefaultAppend, EndCommand, EndFlush, ChainFlush, EndDelete
<1>8. CASE Start \/ Stop \/ ProvisionEnd \/ Crash \/ Repair \/ UNCHANGED allVars
  BY <1>8, <1>b, Zenon DEF Start, Stop, ProvisionEnd, Crash, Repair, allVars, vars
<1> QED
  BY <1>1, <1>2, <1>3, <1>4, <1>5, <1>6, <1>7, <1>8, Zenon DEF DaemonNext, Next, Work

\* What goes with a tunnel interface while main is outside the loop: after the loop its
\* jumps, afterwards a chain, which stops the next process in iface_ebtables_init.
LeftInv ==
  \A s \in Slots : Known(s) =>
    /\ pc \in {"down", "new_in"} => chains # {}
    /\ pc \in {"new_out", "new_undo"} => "OUT" \in chains
    /\ phase = "starting" => pc # "defaults"
    /\ pc \in {"end_flush", "end_del"} => \A h \in Hooks : jumps[s][h] > 0

\* Nothing jumps to a chain that main has created but not used yet.
FreshInv ==
  phase = "starting" =>
    /\ pc \in {"new_out", "new_undo", "defaults"} => Unreferenced("IN")
    /\ pc = "defaults" => Unreferenced("OUT")

OwnedInv ==
  /\ faults <= MaxFaults
  /\ Loop => HooksInv /\ LinksInv /\ BuiltInv
  /\ LeftInv
  /\ FreshInv

\* In the loop the parts about the start and the end say nothing.
LEMMA LoopOwned == Loop /\ HooksInv /\ LinksInv /\ BuiltInv /\ faults <= MaxFaults => OwnedInv
<1> SUFFICES ASSUME Loop, HooksInv, LinksInv, BuiltInv, faults <= MaxFaults PROVE OwnedInv
  BY Zenon
<1>1. phase # "starting"
      /\ pc \notin {"down", "new_in", "new_out", "new_undo", "end_flush", "end_del"}
  BY Zenon DEF Loop, LoopPhases, Steps
<1> QED
  BY <1>1, Zenon DEF OwnedInv, LeftInv, FreshInv

\* A jump to a chain that did not exist there is none.
LEMMA NoChainNoJump ==
  ASSUME KernelTypeOK, HostInv, NEW c, c \notin chains PROVE Unreferenced(c)
<1>1. \A s \in Slots, h \in Hooks : jumps[s][h] \in Nat
  BY SMT DEF KernelTypeOK
<1>2. \A s \in Slots, h \in Hooks : HookTarget(h) = c => ~(jumps[s][h] > 0)
  BY Zenon DEF HostInv
<1> QED
  BY <1>1, <1>2, SMTT(60) DEF Unreferenced

\* The kernel hands nothing of an earlier process to a new one.
LEMMA OwnedStep ==
  ASSUME ~Ambiguous, MaxFaults <= 2, DaemonInv, OwnedInv, [DaemonNext]_allVars
  PROVE  OwnedInv'
<1>t. KernelTypeOK /\ HostInv /\ MainInv /\ chains \subseteq Chains /\ Chains = {"IN", "OUT"}
      /\ faults \in Nat /\ link \in [Slots -> Remotes \cup {Absent, Foreign}]
  BY Zenon DEF DaemonInv, KernelTypeOK, Chains
<1>f. faults' <= MaxFaults
  BY <1>t, FaultsFall, Zenon DEF OwnedInv
<1>l. ASSUME Loop', HooksInv', LinksInv', BuiltInv' PROVE OwnedInv'
  <2>1. (Loop /\ HooksInv /\ LinksInv /\ BuiltInv /\ faults <= MaxFaults => OwnedInv)'
    BY LoopOwned, PTL
  <2> QED
    BY <1>l, <1>f, <2>1, Zenon
<1>o. ASSUME ~Loop', LeftInv', FreshInv' PROVE OwnedInv'
  BY <1>o, <1>f, Zenon DEF OwnedInv
<1>1. CASE Loop /\ (Next \/ UNCHANGED vars) /\ UNCHANGED ghosts
  <2>1. IInv /\ chains = Chains /\ HooksInv /\ LinksInv /\ BuiltInv /\ [Next]_vars
    BY <1>1, InLoop, Zenon DEF OwnLoop, OwnedInv
  <2>2. HooksInv' /\ LinksInv' /\ BuiltInv'
    BY <2>1, HooksStep, LinksStep, BuiltStep, Zenon DEF OwnedInv
  <2>3. Loop'
    BY <2>1, NextIInv, Zenon DEF IInv, TypeOK, Loop
  <2> QED
    BY <2>2, <2>3, <1>l, Zenon
<1>2. CASE ~Loop /\ (Administrator \/ UNCHANGED vars) /\ UNCHANGED ghosts
  <2>1. UNCHANGED <<phase, pc, chains, jumps>>
        /\ \A s \in Slots : Known(s)' => Known(s)
    <3>1. CASE UNCHANGED vars
      BY <3>1, Zenon DEF vars
    <3>2. CASE Administrator
      BY <3>2, <1>t, Zenon DEF Administrator, AdminAddLink, AdminDelLink
    <3> QED
      BY <1>2, <3>1, <3>2, Zenon
  <2> QED
    BY <1>2, <2>1, <1>o, Zenon DEF OwnedInv, LeftInv, FreshInv, Unreferenced, Loop
<1>3. CASE Start
  <2>1. /\ pc = "down" /\ phase' = "starting" /\ pc' = "new_in"
        /\ UNCHANGED <<link, missed, chains, jumps>>
    BY <1>3, <1>t, Zenon DEF Start, MainInv, Loop, LoopPhases
  <2>2. ~Loop' /\ FreshInv'
    BY <2>1, Zenon DEF Loop, LoopPhases, FreshInv
  <2> QED
    BY <2>1, <2>2, <1>o, Zenon DEF OwnedInv, LeftInv
<1>4. CASE Stop \/ ProvisionEnd
  <2>1. Loop
    BY <1>4, <1>t, Zenon DEF Stop, ProvisionEnd, Loop, LoopPhases, Steps
  <2>2. HooksInv /\ LinksInv /\ BuiltInv /\ IInv
    BY <2>1, InLoop, Zenon DEF OwnedInv
  <2>3. CASE Stop
    <3>1. Loop' /\ HooksInv' /\ LinksInv'
      BY <2>2, <2>3 DEF Stop, Loop, LoopPhases, Steps, HooksInv, HookBitsExact, LinksInv
    <3>2. BuiltInv'
      BY <2>2, <2>3, Zenon DEF Stop, BuiltInv, Excused, Half
    <3> QED
      BY <3>1, <3>2, <1>l, ZenonT(60), ZenonT(60), ZenonT(60)
  <2>4. CASE ProvisionEnd
    <3>1. Loop'
      BY <2>4, ZenonT(60) DEF ProvisionEnd, Loop, LoopPhases, Steps
    <3>2. HookBitsExact'
      BY <2>2, <2>4 DEF ProvisionEnd, HooksInv, HookBitsExact
    <3>3. HooksInv'
      BY <3>2, <2>4, Zenon DEF ProvisionEnd, HooksInv, ResetSteps
    <3>4. LinksInv'
      BY <2>2, <2>4, Zenon DEF ProvisionEnd, LinksInv, ResetSteps
    <3>5. BuiltInv'
      BY <2>2, <2>4, Zenon DEF ProvisionEnd, BuiltInv, Excused, Half, ResetSteps
    <3> QED
      BY <3>1, <3>3, <3>4, <3>5, <1>l, Zenon
  <2> QED
    BY <1>4, <2>3, <2>4, Zenon
<1>5. CASE EndTables
  <2>1. Loop /\ phase = "ending" /\ pc = "end"
    BY <1>5, <1>t, Zenon DEF EndTables, MainInv, Loop, LoopPhases
  <2>2. HookBitsExact /\ LinksInv /\ BuiltInv /\ IInv
    BY <2>1, InLoop, Zenon DEF OwnedInv, HooksInv
  <2>3. ASSUME NEW s \in Slots, Known(s) PROVE \A h \in Hooks : jumps[s][h] > 0
    <3>1. link[s] \in tunnels /\ id[link[s]] = s
      BY <2>2, <2>3, Zenon DEF LinksInv
    <3>2. hooks[link[s]] = Hooks
      BY <2>1, <2>2, <2>3, <3>1, Zenon DEF BuiltInv, Half, Excused
    <3> QED
      BY <2>2, <3>1, <3>2, SMTT(60) DEF HookBitsExact
  <2>4. pc' = "end_flush" /\ UNCHANGED <<link, missed, jumps, phase>>
    BY <1>5, Zenon DEF EndTables
  <2>5. ~Loop' /\ LeftInv' /\ FreshInv'
    BY <2>1, <2>3, <2>4, Zenon DEF Loop, Steps, LeftInv, FreshInv
  <2> QED
    BY <2>5, <1>o, Zenon
<1>6. ASSUME NEW o \in Outcome, NewIn(o) PROVE OwnedInv'
  <2>1. /\ UNCHANGED <<link, missed, jumps>> /\ chains \subseteq chains' /\ pc = "new_in"
        /\ Ok(o) => "IN" \notin chains /\ phase' = "starting" /\ pc' = "new_out"
        /\ ~Ok(o) => phase' = "down" /\ pc' = "down"
    <3>1. ChainNew("IN", o) /\ "IN" \in Chains
      BY <1>6, <1>t, Zenon DEF NewIn
    <3>2. UNCHANGED <<link, missed, jumps>> /\ chains \subseteq chains' /\ (Ok(o) => "IN" \notin chains)
      BY <3>1, <1>t, NewKeeps, Zenon
    <3>3. pc = "new_in" /\ phase = "starting"
      BY <1>6, <1>t, Zenon DEF NewIn, MainInv, Loop, Steps
    <3> QED
      BY <1>6, <3>2, <3>3, Zenon DEF NewIn, Exit
  <2>2. Ok(o) => Unreferenced("IN")
    BY <2>1, <1>t, NoChainNoJump, Zenon
  <2>3. Ok(o) /\ chains # {} => "OUT" \in chains'
    BY <2>1, <1>t
  <2>4. chains # {} => chains' # {}
    BY <2>1
  <2>5. ~Loop' /\ FreshInv'
    BY <2>1, <2>2, Zenon DEF Loop, LoopPhases, Steps, FreshInv, Unreferenced
  <2>6. LeftInv'
    BY <2>1, <2>3, <2>4, Zenon DEF OwnedInv, LeftInv
  <2> QED
    BY <2>5, <2>6, <1>o, Zenon
<1>7. ASSUME NEW o \in Outcome, NewOut(o) PROVE OwnedInv'
  <2>1. /\ UNCHANGED <<link, missed, jumps, phase>> /\ chains \subseteq chains' /\ pc = "new_out"
        /\ Ok(o) => "OUT" \notin chains /\ pc' = "defaults"
        /\ ~Ok(o) => pc' = "new_undo"
        /\ phase = "starting"
    <3>1. ChainNew("OUT", o) /\ "OUT" \in Chains
      BY <1>7, <1>t, Zenon DEF NewOut
    <3>2. UNCHANGED <<link, missed, jumps>> /\ chains \subseteq chains' /\ (Ok(o) => "OUT" \notin chains)
      BY <3>1, <1>t, NewKeeps, Zenon
    <3>3. pc = "new_out" /\ phase = "starting"
      BY <1>7, <1>t, Zenon DEF NewOut, MainInv, Loop, Steps
    <3> QED
      BY <1>7, <3>2, <3>3, Zenon DEF NewOut
  <2>2. Ok(o) => Unreferenced("OUT")
    BY <2>1, <1>t, NoChainNoJump, Zenon
  <2>3. Unreferenced("IN")
    BY <2>1, Zenon DEF OwnedInv, FreshInv
  <2>4. ~Loop' /\ FreshInv'
    BY <2>1, <2>2, <2>3, Zenon DEF Loop, LoopPhases, FreshInv, Unreferenced
  <2>5. LeftInv'
    BY <2>1, Zenon DEF OwnedInv, LeftInv
  <2> QED
    BY <2>4, <2>5, <1>o, Zenon
<1>8. ASSUME NEW o \in Outcome, NewUndo(o) PROVE OwnedInv'
  <2>1. /\ UNCHANGED <<link, missed, jumps>> /\ pc = "new_undo" /\ phase' = "down" /\ pc' = "down"
        /\ "OUT" \in chains => "OUT" \in chains'
    BY <1>8, <1>t, Zenon DEF NewUndo, ChainDelete, Exit
  <2>2. ~Loop' /\ FreshInv'
    BY <2>1, Zenon DEF Loop, LoopPhases, FreshInv
  <2>3. LeftInv'
    BY <2>1, Zenon DEF OwnedInv, LeftInv
  <2> QED
    BY <2>2, <2>3, <1>o, Zenon
<1>9. ASSUME NEW o \in Outcome, InitDefaults(o) PROVE OwnedInv'
  <2>1. /\ UNCHANGED <<link, missed, jumps, tunnels, cleanupPending>> /\ pc = "defaults" /\ phase = "starting"
        /\ \/ pc' = "end_flush" /\ phase' = "starting"
           \/ pc' = "defaults" /\ phase' = "starting"
           \/ pc' = "idle" /\ phase' \in {"running", "stopping"}
    BY <1>9, Zenon DEF InitDefaults, DefaultAppend
  <2>2. /\ \A s \in Slots : ~Known(s)'
        /\ Unreferenced("IN") /\ Unreferenced("OUT") /\ tunnels = {}
    <3>1. \A s \in Slots : ~Known(s)
      BY <2>1, Zenon DEF OwnedInv, LeftInv
    <3>2. Unreferenced("IN") /\ Unreferenced("OUT") /\ tunnels = {}
      BY <2>1, Zenon DEF OwnedInv, FreshInv, DaemonInv, NoTables, Loop, LoopPhases
    <3> QED
      BY <2>1, <3>1, <3>2, Zenon
  <2>3. CASE phase' = "starting"
    <3>1. ~Loop' /\ LeftInv' /\ FreshInv'
      BY <2>1, <2>2, <2>3, Zenon DEF Loop, LoopPhases, LeftInv, FreshInv, Unreferenced
    <3> QED
      BY <3>1, <1>o, Zenon
  <2>4. CASE pc' = "idle" /\ phase' \in {"running", "stopping"}
    <3>1. \A s \in Slots, h \in Hooks : jumps'[s][h] = 0
      BY <2>1, <2>2, Zenon DEF Unreferenced, HookTarget
    <3>2. HookBitsExact'
      BY <2>1, <2>2, <3>1 DEF HookBitsExact
    <3>3. HooksInv' /\ LinksInv' /\ BuiltInv' /\ Loop'
      BY <2>1, <2>2, <2>4, <3>2, Zenon DEF HooksInv, LinksInv, BuiltInv, Loop, LoopPhases, Steps,
         ResetSteps
    <3> QED
      BY <3>3, <1>l, Zenon
  <2> QED
    BY <2>1, <2>3, <2>4, Zenon
<1>10. ASSUME NEW o \in Outcome, EndFlush(o) PROVE OwnedInv'
  <2>1. /\ UNCHANGED <<link, missed, jumps, phase>> /\ pc = "end_flush" /\ pc' \in {"end_flush", "end_del"}
    BY <1>10, Zenon DEF EndFlush, ChainFlush
  <2>2. ~Loop' /\ LeftInv' /\ FreshInv'
    BY <2>1, Zenon DEF OwnedInv, LeftInv, FreshInv, Loop, Steps
  <2> QED
    BY <2>2, <1>o, Zenon
<1>11. ASSUME NEW o \in Outcome, EndDelete(o) PROVE OwnedInv'
  <2>1. PICK c \in left : /\ ChainDelete(c, o)
                          /\ IF left = {c} THEN Exit ELSE UNCHANGED <<phase, pc, mine>>
    BY <1>11, Zenon DEF EndDelete
  <2>2. c \in Chains
    BY Zenon DEF DaemonInv
  <2>3. /\ UNCHANGED <<link, missed, jumps>> /\ pc = "end_del"
        /\ \A s \in Slots, h \in Hooks :
               HookTarget(h) \in chains /\ jumps[s][h] > 0 => HookTarget(h) \in chains'
    BY <1>11, <2>1, <2>2, <1>t, DeleteKeeps, Zenon DEF EndDelete
  <2>4. \/ phase' = "down" /\ pc' = "down"
        \/ UNCHANGED <<phase, pc>>
    BY <2>1, Zenon DEF Exit
  <2>5. ASSUME NEW s \in Slots, Known(s)'
        PROVE  (\A h \in Hooks : jumps'[s][h] > 0) /\ chains' # {}
    <3>1. 1 \in Hooks
      BY DEF Hooks
    <3> QED
      BY <2>3, <2>5, <3>1, <1>t, ZenonT(60) DEF OwnedInv, LeftInv, HostInv
  <2>6. ~Loop' /\ LeftInv' /\ FreshInv'
    BY <2>3, <2>4, <2>5, Zenon DEF LeftInv, FreshInv, Loop, LoopPhases, Steps
  <2> QED
    BY <2>6, <1>o, Zenon
<1>12. CASE Crash
  <2>1. UNCHANGED <<link, missed, jumps, chains>> /\ phase' = "down" /\ pc' = "down" /\ phase # "down"
    BY <1>12, Zenon DEF Crash, Exit
  <2>2. ASSUME NEW s \in Slots, Known(s) PROVE chains # {}
    <3>1. 1 \in Hooks /\ Chains # {}
      BY DEF Hooks, Chains
    <3>2. pc \in {"end_flush", "end_del"} => HookTarget(1) \in chains
      BY <2>2, <3>1, <1>t, Zenon DEF OwnedInv, LeftInv, HostInv
    <3> QED
      BY <2>1, <2>2, <3>1, <3>2, <1>t, Zenon DEF OwnedInv, LeftInv, MainInv
  <2>3. ~Loop' /\ LeftInv' /\ FreshInv'
    BY <2>1, <2>2, Zenon DEF LeftInv, FreshInv, Loop, LoopPhases
  <2> QED
    BY <2>3, <1>o, Zenon
<1>13. CASE Repair
  <2>1. /\ \A s \in Slots : link'[s] \notin Remotes
        /\ phase' = "down"
    BY <1>13, Zenon DEF Repair
  <2>2. ~Loop' /\ LeftInv' /\ FreshInv'
    BY <2>1, Zenon DEF LeftInv, FreshInv, Loop, LoopPhases
  <2> QED
    BY <2>2, <1>o, Zenon
<1>14. CASE Next /\ UNCHANGED ghosts
  BY <1>14, <1>1, <1>2, <1>t, OnlyAdministrator, Zenon
<1>15. CASE UNCHANGED allVars
  BY <1>15, <1>1, <1>2, Zenon DEF allVars
<1> QED
  BY <1>3, <1>4, <1>5, <1>6, <1>7, <1>8, <1>9, <1>10, <1>11, <1>12, <1>13, <1>14, <1>15, Zenon
     DEF DaemonNext, MainStep, StartCommand, EndCommand

\* A daemon in its loop owns every tunnel interface and every jump that is in the kernel
\* (iface_ebtables_init, provision_end and iface_ebtables_end together), however often it
\* crashed, was badly shut down or was refused before, if at most two commands fail and
\* have no effect; with three, an interface can outlive both chains.  An interface whose
\* deletion failed unnoticed (iface_gre.c:145) has no record left and is exempt.
THEOREM NothingEverInherited ==
  ASSUME ~Ambiguous, MaxFaults <= 2 PROVE DaemonSpec => []NothingInherited
<1>1. DaemonInit => OwnedInv
  <2> SUFFICES ASSUME DaemonInit PROVE OwnedInv
    BY Zenon
  <2>1. /\ \A s \in Slots : link[s] \notin Remotes
        /\ phase = "down" /\ faults = MaxFaults
    BY Zenon DEF DaemonInit, KernelInit
  <2>2. faults <= MaxFaults
    BY <2>1
  <2> QED
    BY <2>1, <2>2, Zenon DEF OwnedInv, LeftInv, FreshInv, Loop, LoopPhases
<1>2. DaemonInv /\ OwnedInv => NothingInherited
  <2> SUFFICES ASSUME DaemonInv, OwnedInv, phase \in {"running", "stopping"}
               PROVE  /\ chains = Chains
                      /\ HookBitsExact
                      /\ \A s \in Slots \ missed :
                            link[s] \in Remotes => link[s] \in tunnels /\ id[link[s]] = s
    BY Zenon DEF NothingInherited
  <2>1. Loop
    BY Zenon DEF DaemonInv, MainInv
  <2> QED
    BY <2>1, InLoop, Zenon DEF OwnLoop, OwnedInv, HooksInv, LinksInv
<1> QED
  BY <1>1, <1>2, DaemonInvariant, OwnedStep, PTL DEF DaemonSpec

=============================================================================
