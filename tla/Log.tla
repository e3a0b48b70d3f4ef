-------------------------------- MODULE Log ---------------------------------
(***************************************************************************)
(* log.c: the log file and its descriptor, and logrotate, which renames    *)
(* the file, or puts something else at its path, at any time.              *)
(***************************************************************************)
EXTENDS Integers

NoFile == 0
Unfit == -1   \* not a regular file, linked twice, of another owner, world writable

VARIABLES
  atPath,   \* what the path of the log names: a file, NoFile or Unfit
  files,    \* files made so far
  log_fd,   \* the file of the descriptor, or NoFile
  opened    \* the one log_open has just opened, or NoFile

logVars == <<atPath, files, log_fd, opened>>

LogInit == atPath = NoFile /\ files = 0 /\ log_fd = NoFile /\ opened = NoFile

\* open of log_open; it may fail, and makes the file if there is none.
LogOpen(ok) ==
  /\ opened = NoFile
  /\ IF ~ok THEN UNCHANGED logVars
     ELSE /\ files' = IF atPath = NoFile THEN files + 1 ELSE files
          /\ atPath' = IF atPath = NoFile THEN files + 1 ELSE atPath
          /\ opened' = atPath'
          /\ UNCHANGED log_fd

\* Mutants of LogCheck: the old descriptor is closed first ...
LogCheckClosesFirst(ok) ==
  /\ opened # NoFile
  /\ ok => opened # Unfit
  /\ log_fd' = IF ok THEN opened ELSE NoFile
  /\ opened' = NoFile
  /\ UNCHANGED <<atPath, files>>

\* ... or kept.
LogCheckKeeps(ok) ==
  /\ opened # NoFile
  /\ ok => opened # Unfit
  /\ log_fd' = IF ok /\ log_fd = NoFile THEN opened ELSE log_fd
  /\ opened' = NoFile
  /\ UNCHANGED <<atPath, files>>

\* fstat and what follows.  A file that is not fit is closed again; one of ours may have
\* become unfit since (deleted: st_nlink is 0), or fstat fails.
LogCheck(ok) ==
  /\ opened # NoFile
  /\ ok => opened # Unfit
  /\ log_fd' = IF ok THEN opened ELSE log_fd
  /\ opened' = NoFile
  /\ UNCHANGED <<atPath, files>>

log_close == log_fd' = NoFile /\ UNCHANGED <<atPath, files, opened>>

\* The file is moved away; perhaps there is a new one, or something else.
Rotate ==
  /\ \/ atPath' = NoFile /\ atPath # NoFile /\ UNCHANGED files
     \/ atPath' = Unfit /\ atPath # Unfit /\ UNCHANGED files
     \/ atPath' = files + 1 /\ files' = files + 1
  /\ UNCHANGED <<log_fd, opened>>

=============================================================================
