---------------------------- MODULE PidFileProofs ---------------------------
(***************************************************************************)
(* For any number of processes and PID files: at most one process serves.  *)
(* The argument does not mention the lock.  It rests on ServerOwnsChains:  *)
(* chains are created by one process only, and leave its hands only when   *)
(* it stops serving.  The lock is what the number in the file rests on.    *)
(***************************************************************************)
EXTENDS PidFile, TLAPS

\* The host starts with no process and no chains.
LEMMA InitOwns == Init => ServerOwnsChains
BY PidFileAssumption DEF Init, ServerOwnsChains, TypeOK, Steps, Serves, Files

\* Closing pid_fd, by close or by the end of the process, keeps the types.
LEMMA ReleasedTypes ==
  ASSUME TypeOK, NEW p \in Procs, Released(p)
  PROVE  fd' \in [Procs -> Files \cup {None}] /\ lock' \in [Files -> Procs \cup {None}]
BY DEF TypeOK, Released

\* No system call of any process breaks the types or lets a second process serve.
LEMMA StepOwns == ServerOwnsChains /\ [Next]_vars => ServerOwnsChains'
<1> SUFFICES ASSUME ServerOwnsChains, [Next]_vars PROVE ServerOwnsChains'
  OBVIOUS
<1> USE DEF ServerOwnsChains, TypeOK, Serves
<1>1. CASE UNCHANGED vars
  BY <1>1 DEF vars
<1>2. CASE Repair
  BY <1>2 DEF Repair
<1>3. ASSUME NEW p \in Procs, Step(p) PROVE ServerOwnsChains'
  <2>1. CASE Open(p)
    <3>1. created' \in 0 .. MaxFiles /\ path' \in Files \cup {None}
      BY <2>1, PidFileAssumption DEF Open, Files
    <3>2. fd' \in [Procs -> Files \cup {None}]
      BY <2>1, PidFileAssumption DEF Open, Files
    <3> QED
      BY <2>1, <3>1, <3>2 DEF Open, Goto, Steps
  <2>2. CASE Fstat(p)
    BY <2>2, ReleasedTypes DEF Fstat, Goto, Steps
  <2>3. CASE Setlk(p)
    BY <2>3, ReleasedTypes DEF Setlk, Goto, Steps
  <2>4. CASE Write(p)
    BY <2>4, ReleasedTypes DEF Write, Goto, Steps
  <2>5. CASE EbtablesInit(p)
    BY <2>5, PidFileAssumption DEF EbtablesInit, Goto, Steps
  <2>6. CASE Stop(p)
    BY <2>6 DEF Stop, Goto, Steps
  <2>7. CASE EbtablesEnd(p)
    BY <2>7 DEF EbtablesEnd, Goto, Steps
  <2>8. CASE Unlink(p)
    BY <2>8 DEF Unlink, Goto, Steps
  <2>9. CASE Close(p)
    BY <2>9, ReleasedTypes DEF Close, Goto, Steps
  <2>10. CASE Crash(p)
    BY <2>10, ReleasedTypes DEF Crash, Goto, Steps
  <2> QED
    BY <1>3, <2>1, <2>2, <2>3, <2>4, <2>5, <2>6, <2>7, <2>8, <2>9, <2>10 DEF Step
<1> QED
  BY <1>1, <1>2, <1>3 DEF Next

\* At every moment a process that serves is the one that created the chains
\* (iface_ebtables_init).
THEOREM AlwaysOwns == Spec => []ServerOwnsChains
<1>1. Init => ServerOwnsChains
  BY InitOwns
<1>2. ServerOwnsChains /\ [Next]_vars => ServerOwnsChains'
  BY StepOwns
<1> QED
  BY <1>1, <1>2, PTL DEF Spec

\* However processes are started, stopped and killed around one PID file, no two of
\* them provision at the same time (softgred.c: iface_ebtables_init before the loop).
THEOREM OneAlwaysServes == Spec => []OneServes
<1>1. ServerOwnsChains => OneServes
  BY DEF ServerOwnsChains, OneServes
<1> QED
  BY <1>1, AlwaysOwns, PTL

-----------------------------------------------------------------------------
(* The number in the file.                                                 *)

\* The inductive invariant: from Setlk to Close a process has the lock of its file, and
\* from Write on its number is in it.
HolderOf(p) ==
  /\ pc[p] \in {"fstat", "lock"} => fd[p] \in Files
  /\ pc[p] \in {"write", "init", "run", "end", "unlink", "close"} => fd[p] \in Files /\ lock[fd[p]] = p
  /\ pc[p] \in {"init", "run", "end"} => pid[fd[p]] = p

\* A process loses its hold only by its own steps.
LEMMA OthersKeepHold ==
  ASSUME TypeOK, NEW p \in Procs, NEW q \in Procs, p # q, HolderOf(p), HolderOf(q), Step(p)
  PROVE  HolderOf(q)'
<1>1. pc'[q] = pc[q] /\ fd'[q] = fd[q]
  BY DEF Step, Open, Fstat, Setlk, Write, EbtablesInit, Stop, EbtablesEnd, Unlink, Close, Crash,
     Goto, Released, TypeOK
<1>2. \A f \in Files : lock[f] = q => lock'[f] = q
  BY PidFileAssumption DEF Step, Open, Fstat, Setlk, Write, EbtablesInit, Stop, EbtablesEnd, Unlink, Close,
     Crash, Goto, Released, TypeOK
<1>3. \A f \in Files : lock[f] = q => pid'[f] = pid[f]
  BY DEF Step, Open, Fstat, Setlk, Write, EbtablesInit, Stop, EbtablesEnd, Unlink, Close, Crash,
     HolderOf, TypeOK
<1> QED
  BY <1>1, <1>2, <1>3, Zenon DEF HolderOf

LEMMA OwnHold ==
  ASSUME TypeOK, NEW p \in Procs, HolderOf(p), Step(p)
  PROVE  HolderOf(p)'
<1> USE DEF HolderOf, TypeOK, Goto, Released
<1>1. CASE Open(p)
  <2>1. fd'[p] \in Files /\ pc'[p] = "fstat"
    BY <1>1, PidFileAssumption DEF Open, Files
  <2> QED
    BY <2>1
<1>2. CASE Fstat(p) \/ Setlk(p) \/ Write(p)
  BY <1>2 DEF Fstat, Setlk, Write
<1>3. CASE EbtablesInit(p) \/ Stop(p) \/ EbtablesEnd(p) \/ Unlink(p)
  BY <1>3 DEF EbtablesInit, Stop, EbtablesEnd, Unlink
<1>4. CASE Close(p) \/ Crash(p)
  BY <1>4 DEF Close, Crash
<1> QED
  BY <1>1, <1>2, <1>3, <1>4, Zenon DEF Step

HoldInv == \A p \in Procs : HolderOf(p)

LEMMA AlwaysHold == Spec => []HoldInv
<1>1. Init => HoldInv
  BY DEF Init, HolderOf, HoldInv
<1>2. ASSUME TypeOK, HoldInv, [Next]_vars PROVE HoldInv'
  <2>1. CASE UNCHANGED vars \/ Repair
    BY <1>2, <2>1, Zenon DEF vars, Repair, HolderOf, HoldInv
  <2>2. ASSUME NEW p \in Procs, Step(p) PROVE HoldInv'
    BY <1>2, <2>2, OthersKeepHold, OwnHold, Zenon DEF HoldInv
  <2> QED
    BY <1>2, <2>1, <2>2, Zenon DEF Next
<1>3. ServerOwnsChains => TypeOK
  BY Zenon DEF ServerOwnsChains
<1> QED
  BY <1>1, <1>2, <1>3, AlwaysOwns, PTL DEF Spec

\* While a process serves, the file it has open bears its number
\* (softgred_config_create_pid_file writes only under the lock).
THEOREM PidAlwaysOfOwner == Spec => []PidOfOwner
<1>1. HoldInv => PidOfOwner
  BY Zenon DEF HoldInv, HolderOf, PidOfOwner, Serves
<1> QED
  BY <1>1, AlwaysHold, PTL

\* Only a process with the lock takes the file away: one that was refused has
\* pid_fd = -1 and leaves it (softgred_config_remove_pid_file).
THEOREM RefusedAlwaysKeepsFile == Spec => RefusedKeepsFile
<1>1. ASSUME TypeOK, HoldInv, Next, path # None, path' = None
      PROVE  \E p \in Procs : pc[p] = "unlink" /\ fd[p] # None /\ lock[fd[p]] = p
  <2>1. PICK p \in Procs : Unlink(p)
    <3>1. ~Repair
      BY <1>1, Zenon DEF Repair
    <3>2. PICK p \in Procs : Step(p)
      BY <1>1, <3>1, Zenon DEF Next
    <3>3. Unlink(p)
      BY <1>1, <3>2 DEF Step, Open, Fstat, Setlk, Write, EbtablesInit, Stop, EbtablesEnd, Close, Crash
    <3> QED
      BY <3>3, Zenon
  <2>2. pc[p] = "unlink" /\ HolderOf(p)
    BY <1>1, <2>1, Zenon DEF Unlink, HoldInv
  <2>3. fd[p] \in Files /\ fd[p] # None /\ lock[fd[p]] = p
    BY <2>2, PidFileAssumption DEF HolderOf, Files
  <2> QED
    BY <2>2, <2>3, Zenon
<1>2. TypeOK /\ HoldInv /\ [Next]_vars =>
        [path # None /\ path' = None =>
           \E p \in Procs : pc[p] = "unlink" /\ fd[p] # None /\ lock[fd[p]] = p]_vars
  BY <1>1, Zenon
<1>3. ServerOwnsChains => TypeOK
  BY Zenon DEF ServerOwnsChains
<1> QED
  BY <1>2, <1>3, AlwaysOwns, AlwaysHold, PTL DEF Spec, RefusedKeepsFile

=============================================================================
