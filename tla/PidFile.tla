------------------------------ MODULE PidFile -------------------------------
(***************************************************************************)
(* Several softgred processes started on one host with one PID file:       *)
(* softgred_config_create_pid_file, the start up to iface_ebtables_init,   *)
(* the label end of main and softgred_config_remove_pid_file, system call  *)
(* by system call.                                                         *)
(*                                                                         *)
(* The path names a file (an inode) or nothing; a file that was unlinked   *)
(* lives on for the processes that have it open.  The firewall chains are  *)
(* one object here: Kernel and Daemon have them in detail.                 *)
(***************************************************************************)
EXTENDS Naturals, FiniteSets

CONSTANTS Procs,
          None,
          Left,       \* the owner of chains whose process is gone
          MaxFiles    \* bound: files ever created at the path

ASSUME PidFileAssumption ==
  /\ MaxFiles \in Nat
  /\ None \notin Procs \cup (1 .. MaxFiles)
  /\ Left \notin Procs /\ Left # None

Files == 1 .. MaxFiles

VARIABLES path,     \* the file the path names, or None
          created,  \* number of files created so far
          lock,     \* lock[f]: the process with the write lock on f, or None
          pid,      \* pid[f]: the process whose number is in f, or None
          fd,       \* fd[p]: pid_fd, the file p has open, or None
          chains,   \* who created the firewall chains: a process, Left or None
          pc

vars == <<path, created, lock, pid, fd, chains, pc>>

Steps == {"down", "fstat", "lock", "write", "init", "run", "end", "unlink", "close"}

TypeOK ==
  /\ path \in Files \cup {None}
  /\ created \in 0 .. MaxFiles
  /\ lock \in [Files -> Procs \cup {None}]
  /\ pid \in [Files -> Procs \cup {None}]
  /\ fd \in [Procs -> Files \cup {None}]
  /\ chains \in Procs \cup {Left, None}
  /\ pc \in [Procs -> Steps]

Init ==
  /\ path = None /\ created = 0
  /\ lock = [f \in Files |-> None]
  /\ pid = [f \in Files |-> None]
  /\ fd = [p \in Procs |-> None]
  /\ chains = None
  /\ pc = [p \in Procs |-> "down"]

Goto(p, step) == pc' = [pc EXCEPT ![p] = step]

\* p has no file open any more, and no lock: close, or the end of the process.
Released(p) ==
  /\ fd' = [fd EXCEPT ![p] = None]
  /\ lock' = [f \in Files |-> IF lock[f] = p THEN None ELSE lock[f]]

-----------------------------------------------------------------------------
(* softgred_config_create_pid_file.                                        *)

\* O_CREAT: the file that is there, whoever made it, or a new one.
Open(p) ==
  /\ pc[p] = "down"
  /\ IF path # None
     THEN fd' = [fd EXCEPT ![p] = path] /\ UNCHANGED <<path, created>>
     ELSE /\ created < MaxFiles
          /\ created' = created + 1
          /\ path' = created'
          /\ fd' = [fd EXCEPT ![p] = created']
  /\ Goto(p, "fstat")
  /\ UNCHANGED <<lock, pid, chains>>

\* A file that has been unlinked meanwhile is refused (st_nlink).
Fstat(p) ==
  /\ pc[p] = "fstat"
  /\ IF fd[p] = path
     THEN Goto(p, "lock") /\ UNCHANGED <<fd, lock>>
     ELSE Goto(p, "down") /\ Released(p)
  /\ UNCHANGED <<path, created, pid, chains>>

\* Mutant of Setlk: a process that is refused goes to label end with its file open.
SetlkKeepsFd(p) ==
  /\ pc[p] = "lock"
  /\ IF lock[fd[p]] = None
     THEN lock' = [lock EXCEPT ![fd[p]] = p] /\ Goto(p, "write")
     ELSE Goto(p, "unlink") /\ UNCHANGED lock
  /\ UNCHANGED <<path, created, pid, fd, chains>>

\* Mutant of Setlk: the lock is only advice.
SetlkIgnored(p) ==
  /\ pc[p] = "lock"
  /\ lock' = [lock EXCEPT ![fd[p]] = p]
  /\ Goto(p, "write")
  /\ UNCHANGED <<path, created, pid, fd, chains>>

\* F_SETLK does not wait: if another process has the lock the start is given up,
\* and with pid_fd = -1 the file stays.
Setlk(p) ==
  /\ pc[p] = "lock"
  /\ IF lock[fd[p]] = None
     THEN lock' = [lock EXCEPT ![fd[p]] = p] /\ Goto(p, "write") /\ UNCHANGED fd
     ELSE Goto(p, "down") /\ Released(p)
  /\ UNCHANGED <<path, created, pid, chains>>

\* ftruncate and write; when one fails the file stays, empty.
Write(p) ==
  /\ pc[p] = "write"
  /\ \/ /\ pid' = [pid EXCEPT ![fd[p]] = p]
        /\ Goto(p, "init")
        /\ UNCHANGED <<fd, lock>>
     \/ /\ pid' = [pid EXCEPT ![fd[p]] = None]
        /\ Goto(p, "down")
        /\ Released(p)
  /\ UNCHANGED <<path, created, chains>>

-----------------------------------------------------------------------------
(* main: from the PID file to the loop, and from the loop to the exit.     *)

\* Mutant of EbtablesInit: existing chains are adopted.
EbtablesInitAdopts(p) ==
  /\ pc[p] = "init"
  /\ \/ chains' = p /\ Goto(p, "run")
     \/ Goto(p, "unlink") /\ UNCHANGED chains
  /\ UNCHANGED <<path, created, lock, pid, fd>>

\* iface_ebtables_init creates the chains and refuses those that exist.  It, or
\* something before it (signals, capture, API, bridges), may fail.
EbtablesInit(p) ==
  /\ pc[p] = "init"
  /\ \/ chains = None /\ chains' = p /\ Goto(p, "run")
     \/ Goto(p, "unlink") /\ UNCHANGED chains
  /\ UNCHANGED <<path, created, lock, pid, fd>>

Stop(p) ==
  /\ pc[p] = "run"
  /\ Goto(p, "end")
  /\ UNCHANGED <<path, created, lock, pid, fd, chains>>

\* iface_ebtables_end, complete or not.
EbtablesEnd(p) ==
  /\ pc[p] = "end"
  /\ chains' \in {None, Left}
  /\ Goto(p, "unlink")
  /\ UNCHANGED <<path, created, lock, pid, fd>>

\* softgred_config_remove_pid_file unlinks whatever the path names ...
Unlink(p) ==
  /\ pc[p] = "unlink"
  /\ path' = None
  /\ Goto(p, "close")
  /\ UNCHANGED <<created, lock, pid, fd, chains>>

\* ... and then closes, which gives up the lock.
Close(p) ==
  /\ pc[p] = "close"
  /\ Released(p)
  /\ Goto(p, "down")
  /\ UNCHANGED <<path, created, pid, chains>>

\* SIGKILL at any step: the kernel closes the file, the rest stays.
Crash(p) ==
  /\ pc[p] # "down"
  /\ Released(p)
  /\ chains' = IF chains = p THEN Left ELSE chains
  /\ Goto(p, "down")
  /\ UNCHANGED <<path, created, pid>>

\* The administrator removes what is left behind, once no daemon runs.
Repair ==
  /\ chains = Left
  /\ \A p \in Procs : pc[p] = "down"
  /\ chains' = None
  /\ UNCHANGED <<path, created, lock, pid, fd, pc>>

Step(p) ==
  \/ Open(p) \/ Fstat(p) \/ Setlk(p) \/ Write(p)
  \/ EbtablesInit(p) \/ Stop(p) \/ EbtablesEnd(p) \/ Unlink(p) \/ Close(p) \/ Crash(p)

Next == Repair \/ \E p \in Procs : Step(p)

Spec == Init /\ [][Next]_vars

-----------------------------------------------------------------------------
(* Properties.                                                             *)

\* In the loop, or on the way out of it with the chains.
Serves(p) == pc[p] \in {"run", "end"}

\* The inductive invariant behind OneServes: a process that serves is the one that
\* created the chains which are there (iface_ebtables_init).
ServerOwnsChains == TypeOK /\ \A p \in Procs : Serves(p) => chains = p

\* Whatever the PID file does, two processes never provision at the same time: the
\* second is stopped by the chains (iface_ebtables_init), also when a race has let
\* it past the lock.
OneServes == \A p, q \in Procs : Serves(p) /\ Serves(q) => p = q

\* A process that was refused the lock never takes the file away from the daemon
\* that holds it: the path loses its file only to a process that has a lock on the
\* file it opened (pid_fd = -1 on every failure).
RefusedKeepsFile ==
  [][path # None /\ path' = None =>
       \E p \in Procs : pc[p] = "unlink" /\ fd[p] # None /\ lock[fd[p]] = p]_vars

\* The file a serving process has open bears its number to the end, so that while
\* the path names that file "kill $(cat /run/softgred.pid)" (configuration.md)
\* reaches the daemon: nobody writes to a file without its lock.
PidOfOwner == \A p \in Procs : Serves(p) => pid[fd[p]] = p

=============================================================================
