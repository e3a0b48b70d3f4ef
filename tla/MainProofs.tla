----------------------------- MODULE MainProofs -----------------------------
(***************************************************************************)
(* What main guarantees for every number of signals, commands and faults:  *)
(* its commands, its log and what it tells the parent.                     *)
(***************************************************************************)
EXTENDS Main, TLAPS

-----------------------------------------------------------------------------
(* helper_exec.                                                            *)

\* The inductive invariant: what is known at each step of helper_exec.
HelperInv ==
  /\ helper \in {"idle", "wait", "clock", "kill", "reap"}
  /\ child \in {"none", "running", "done", "refused", "killed"}
  /\ helper = "idle" <=> child = "none"
  /\ child = "killed" => helper = "reap" \/ struck = TRUE
  /\ helper \in {"kill", "reap"} => expired = TRUE
  /\ child = "done" => effect = TRUE
  /\ child = "refused" => effect = FALSE
  /\ effect \in BOOLEAN /\ expired \in BOOLEAN /\ struck \in BOOLEAN
  /\ CommandIsOver

LEMMA HelperSteps ==
  ASSUME HelperInv, Call \/ HelperStep \/ Child \/ Expire
  PROVE  HelperInv'
<1> USE DEF HelperInv, CommandIsOver
<1>1. CASE Call
  BY <1>1, Zenon DEF Call
<1>2. CASE Wait
  BY <1>2, Zenon DEF Wait, Returns
<1>3. CASE Clock
  BY <1>3, Zenon DEF Clock
<1>4. CASE Kill
  BY <1>4, Zenon DEF Kill
<1>5. CASE Reap
  BY <1>5, Zenon DEF Reap, Returns
<1>6. CASE Child
  BY <1>6, Zenon DEF Child
<1>7. CASE Expire
  BY <1>7, Zenon DEF Expire
<1> QED
  BY <1>1, <1>2, <1>3, <1>4, <1>5, <1>6, <1>7, Zenon DEF HelperStep



\* Nothing else in main touches a command.
LEMMA OnlyHelper ==
  ASSUME [MainNext]_vars
  PROVE  UNCHANGED helperVars \/ Call \/ HelperStep \/ Child \/ Expire
<1>1. CASE UNCHANGED vars
  BY <1>1, Zenon DEF vars
<1>2. CASE Configuring \/ Start \/ Loop
  BY <1>2, Zenon DEF Configuring, Start, StartLog, local_address, Daemonize, TakePid, payload_loop_init,
     Acquire, Notify, Loop, Poll, ReadSignal, Reopen, CleanupDone, SignalsDone, Packets, ReceiveOne,
     provision_packet, Handled, PacketsDone, service_dispatch
<1>3. CASE Command \/ Parsing \/ Executing \/ End \/ Ended \/ Report
  BY <1>3, Zenon DEF Command, Parsing, Executing, End, Ended, Report
<1>4. CASE Filtering \/ Peer \/ Parent \/ Outside \/ (\E s \in Signals : Send(s)) \/ Rotates \/ Crash
           \/ ParentKilled
  BY <1>4, Zenon DEF Filtering, Peer, Parent, Outside, Send, Rotates, Crash, ParentKilled
<1> QED
  BY <1>1, <1>2, <1>3, <1>4, Zenon DEF MainNext, Daemon

LEMMA KeepsHelperInv == HelperInv /\ [MainNext]_vars => HelperInv'
<1>1. ASSUME HelperInv, UNCHANGED helperVars PROVE HelperInv'
  BY <1>1, Zenon DEF helperVars, HelperInv, CommandIsOver
<1> QED
  BY <1>1, OnlyHelper, HelperSteps, Zenon

\* When helper_exec returns, the command is over and its result says what became of it,
\* but for one that was cut off by the deadline or a signal of somebody else, at every
\* moment of main's life (helper.c:31-73).
THEOREM CommandsAreOver == MainSpec => []CommandIsOver
<1>1. MainInit => HelperInv
  BY Zenon DEF MainInit, HelperInit, HelperInv, CommandIsOver
<1>2. HelperInv => CommandIsOver
  BY Zenon DEF HelperInv
<1> QED
  BY <1>1, <1>2, KeepsHelperInv, PTL DEF MainSpec

-----------------------------------------------------------------------------
(* The log.                                                                *)

Stages == {"cli", "open", "read", "loaded", "logged", "addressed", "forked", "up", "loop", "end", "ending",
           "report", "exit", "failed", "dead"}
Rounds == {"poll", "signals", "log", "cleanup", "packets", "service"}
Logging == {"logged", "addressed", "forked", "up", "loop"}

\* The inductive invariant: there is a log from StartLog on, and a second descriptor only
\* within log_open.
LogInv ==
  /\ stage \in Stages /\ round \in Rounds
  /\ files \in Nat /\ atPath \in Int /\ atPath <= files /\ Unfit <= atPath
  /\ opened \in Int /\ opened <= files /\ Unfit <= opened
  /\ log_fd \in Nat
  /\ stage \in Logging => log_fd > 0
  /\ opened # NoFile => stage = "loaded" \/ (stage = "loop" /\ round = "log")

LEMMA LogOpens ==
  ASSUME LogInv, NEW ok \in BOOLEAN, LogOpen(ok)
  PROVE  /\ files' \in Nat /\ atPath' \in Int /\ atPath' <= files' /\ Unfit <= atPath'
         /\ opened' \in Int /\ opened' <= files' /\ Unfit <= opened'
         /\ log_fd' = log_fd
         /\ ~ok => opened' = NoFile
BY DEF LogInv, LogOpen, NoFile, Unfit, logVars

LEMMA LogChecks ==
  ASSUME LogInv, NEW ok \in BOOLEAN, LogCheck(ok)
  PROVE  /\ files' = files /\ atPath' = atPath /\ opened' = NoFile
         /\ log_fd' \in Nat /\ (log_fd > 0 => log_fd' > 0) /\ (ok => log_fd' > 0)
BY DEF LogInv, LogCheck, NoFile, Unfit

\* Steps that leave the log alone and stay where they are or go where there must be no log.
LEMMA LogFrame ==
  ASSUME LogInv, UNCHANGED logVars, stage' \in Stages, round' \in Rounds,
         stage' \in Logging => stage \in Logging,
         opened # NoFile => UNCHANGED <<stage, round>>
  PROVE  LogInv'
BY Zenon DEF LogInv, logVars

LEMMA LogSteps ==
  ASSUME LogInv, [MainNext]_vars
  PROVE  LogInv'
<1>1. CASE Configuring
  <2>1. /\ UNCHANGED logVars /\ stage' \in Stages /\ round' \in Rounds
        /\ (stage' \in Logging => stage \in Logging)
        /\ (opened # NoFile => UNCHANGED <<stage, round>>)
    BY <1>1 DEF Configuring, ConfigNext, Cli, Open, ReadLine, Load, Line, Fail, LogInv, Stages, Rounds, Logging, configVars, mainVars, roundVars
  <2> QED
    BY <2>1, LogFrame, Zenon
<1>2. CASE local_address
  <2>1. /\ UNCHANGED logVars /\ stage' \in Stages /\ round' \in Rounds
        /\ (stage' \in Logging => stage \in Logging)
        /\ (opened # NoFile => UNCHANGED <<stage, round>>)
    BY <1>2, Zenon DEF local_address, Go, LogInv, Stages, Rounds, Logging, configVars, mainVars,
       roundVars
  <2> QED
    BY <2>1, LogFrame, Zenon
<1>3. CASE Daemonize
  <2>1. /\ UNCHANGED logVars /\ stage' \in Stages /\ round' \in Rounds
        /\ (stage' \in Logging => stage \in Logging)
        /\ (opened # NoFile => UNCHANGED <<stage, round>>)
    BY <1>3, Zenon DEF Daemonize, Go, LogInv, Stages, Rounds, Logging, configVars, mainVars, roundVars
  <2> QED
    BY <2>1, LogFrame, Zenon
<1>4. CASE TakePid
  <2>1. /\ UNCHANGED logVars /\ stage' \in Stages /\ round' \in Rounds
        /\ (stage' \in Logging => stage \in Logging)
        /\ (opened # NoFile => UNCHANGED <<stage, round>>)
    BY <1>4, Zenon DEF TakePid, Go, LogInv, Stages, Rounds, Logging, configVars, mainVars, roundVars
  <2> QED
    BY <2>1, LogFrame, Zenon
<1>5. CASE payload_loop_init
  <2>1. /\ UNCHANGED logVars /\ stage' \in Stages /\ round' \in Rounds
        /\ (stage' \in Logging => stage \in Logging)
        /\ (opened # NoFile => UNCHANGED <<stage, round>>)
    BY <1>5, Zenon DEF payload_loop_init, Go, LogInv, Stages, Rounds, Logging, configVars, mainVars,
       roundVars
  <2> QED
    BY <2>1, LogFrame, Zenon
<1>6. CASE Acquire
  <2>1. /\ UNCHANGED logVars /\ stage' \in Stages /\ round' \in Rounds
        /\ (stage' \in Logging => stage \in Logging)
        /\ (opened # NoFile => UNCHANGED <<stage, round>>)
    BY <1>6, Zenon DEF Acquire, Go, LogInv, Stages, Rounds, Logging, configVars, mainVars, roundVars
  <2> QED
    BY <2>1, LogFrame, Zenon
<1>7. CASE Notify
  <2>1. /\ UNCHANGED logVars /\ stage' \in Stages /\ round' \in Rounds
        /\ (stage' \in Logging => stage \in Logging)
        /\ (opened # NoFile => UNCHANGED <<stage, round>>)
    BY <1>7, Zenon DEF Notify, Go, LogInv, Stages, Rounds, Logging, configVars, mainVars, roundVars
  <2> QED
    BY <2>1, LogFrame, Zenon
<1>8. CASE Poll
  <2>1. /\ UNCHANGED logVars /\ stage' \in Stages /\ round' \in Rounds
        /\ (stage' \in Logging => stage \in Logging)
        /\ (opened # NoFile => UNCHANGED <<stage, round>>)
    BY <1>8, Zenon DEF Poll, Go, LogInv, Stages, Rounds, Logging, configVars, mainVars, roundVars
  <2> QED
    BY <2>1, LogFrame, Zenon
<1>9. CASE ReadSignal
  <2>1. /\ UNCHANGED logVars /\ stage' \in Stages /\ round' \in Rounds
        /\ (stage' \in Logging => stage \in Logging)
        /\ (opened # NoFile => UNCHANGED <<stage, round>>)
    BY <1>9, Zenon DEF ReadSignal, LogInv, Stages, Rounds, Logging, configVars, mainVars, roundVars
  <2> QED
    BY <2>1, LogFrame, Zenon
<1>10. CASE CleanupDone
  <2>1. /\ UNCHANGED logVars /\ stage' \in Stages /\ round' \in Rounds
        /\ (stage' \in Logging => stage \in Logging)
        /\ (opened # NoFile => UNCHANGED <<stage, round>>)
    BY <1>10, Zenon DEF CleanupDone, LogInv, Stages, Rounds, Logging, configVars, mainVars, roundVars
  <2> QED
    BY <2>1, LogFrame, Zenon
<1>11. CASE SignalsDone
  <2>1. /\ UNCHANGED logVars /\ stage' \in Stages /\ round' \in Rounds
        /\ (stage' \in Logging => stage \in Logging)
        /\ (opened # NoFile => UNCHANGED <<stage, round>>)
    BY <1>11, Zenon DEF SignalsDone, Go, LogInv, Stages, Rounds, Logging, configVars, mainVars,
       roundVars
  <2> QED
    BY <2>1, LogFrame, Zenon
<1>12. CASE Packets
  <2>1. /\ UNCHANGED logVars /\ stage' \in Stages /\ round' \in Rounds
        /\ (stage' \in Logging => stage \in Logging)
        /\ (opened # NoFile => UNCHANGED <<stage, round>>)
    BY <1>12, Zenon DEF Packets, ReceiveOne, provision_packet, Handled, PacketsDone, Go, LogInv,
       Stages, Rounds, Logging, configVars, mainVars, roundVars
  <2> QED
    BY <2>1, LogFrame, Zenon
<1>13. CASE service_dispatch
  <2>1. /\ UNCHANGED logVars /\ stage' \in Stages /\ round' \in Rounds
        /\ (stage' \in Logging => stage \in Logging)
        /\ (opened # NoFile => UNCHANGED <<stage, round>>)
    BY <1>13, Zenon DEF service_dispatch, LogInv, Stages, Rounds, Logging, configVars, mainVars,
       roundVars
  <2> QED
    BY <2>1, LogFrame, Zenon
<1>14. CASE Command
  <2>1. /\ UNCHANGED logVars /\ stage' \in Stages /\ round' \in Rounds
        /\ (stage' \in Logging => stage \in Logging)
        /\ (opened # NoFile => UNCHANGED <<stage, round>>)
    BY <1>14, Zenon DEF Command, LogInv, Stages, Rounds, Logging, configVars, mainVars, roundVars
  <2> QED
    BY <2>1, LogFrame, Zenon
<1>15. CASE Parsing
  <2>1. /\ UNCHANGED logVars /\ stage' \in Stages /\ round' \in Rounds
        /\ (stage' \in Logging => stage \in Logging)
        /\ (opened # NoFile => UNCHANGED <<stage, round>>)
    BY <1>15, Zenon DEF Parsing, LogInv, Stages, Rounds, Logging, configVars, mainVars, roundVars
  <2> QED
    BY <2>1, LogFrame, Zenon
<1>16. CASE Executing
  <2>1. /\ UNCHANGED logVars /\ stage' \in Stages /\ round' \in Rounds
        /\ (stage' \in Logging => stage \in Logging)
        /\ (opened # NoFile => UNCHANGED <<stage, round>>)
    BY <1>16, Zenon DEF Executing, LogInv, Stages, Rounds, Logging, configVars, mainVars, roundVars
  <2> QED
    BY <2>1, LogFrame, Zenon
<1>17. CASE End
  <2>1. /\ UNCHANGED logVars /\ stage' \in Stages /\ round' \in Rounds
        /\ (stage' \in Logging => stage \in Logging)
        /\ (opened # NoFile => UNCHANGED <<stage, round>>)
    BY <1>17, Zenon DEF End, Go, LoopLeft, LogInv, Stages, Rounds, Logging, configVars, mainVars,
       roundVars
  <2> QED
    BY <2>1, LogFrame, Zenon
<1>18. CASE Ended
  <2>1. /\ UNCHANGED logVars /\ stage' \in Stages /\ round' \in Rounds
        /\ (stage' \in Logging => stage \in Logging)
        /\ (opened # NoFile => UNCHANGED <<stage, round>>)
    BY <1>18, Zenon DEF Ended, Go, LogInv, Stages, Rounds, Logging, configVars, mainVars, roundVars
  <2> QED
    BY <2>1, LogFrame, Zenon
<1>19. CASE Filtering
  <2>1. /\ UNCHANGED logVars /\ stage' \in Stages /\ round' \in Rounds
        /\ (stage' \in Logging => stage \in Logging)
        /\ (opened # NoFile => UNCHANGED <<stage, round>>)
    BY <1>19, Zenon DEF Filtering, LogInv, Stages, Rounds, Logging, configVars, mainVars, roundVars
  <2> QED
    BY <2>1, LogFrame, Zenon
<1>20. CASE Peer
  <2>1. /\ UNCHANGED logVars /\ stage' \in Stages /\ round' \in Rounds
        /\ (stage' \in Logging => stage \in Logging)
        /\ (opened # NoFile => UNCHANGED <<stage, round>>)
    BY <1>20, Zenon DEF Peer, LogInv, Stages, Rounds, Logging, configVars, mainVars, roundVars
  <2> QED
    BY <2>1, LogFrame, Zenon
<1>21. CASE Parent
  <2>1. /\ UNCHANGED logVars /\ stage' \in Stages /\ round' \in Rounds
        /\ (stage' \in Logging => stage \in Logging)
        /\ (opened # NoFile => UNCHANGED <<stage, round>>)
    BY <1>21, Zenon DEF Parent, LogInv, Stages, Rounds, Logging, configVars, mainVars, roundVars
  <2> QED
    BY <2>1, LogFrame, Zenon
<1>22. CASE Outside
  <2>1. /\ UNCHANGED logVars /\ stage' \in Stages /\ round' \in Rounds
        /\ (stage' \in Logging => stage \in Logging)
        /\ (opened # NoFile => UNCHANGED <<stage, round>>)
    BY <1>22, Zenon DEF Outside, LogInv, Stages, Rounds, Logging, configVars, mainVars, roundVars
  <2> QED
    BY <2>1, LogFrame, Zenon
<1>23. CASE \E s \in Signals : Send(s)
  <2>1. /\ UNCHANGED logVars /\ stage' \in Stages /\ round' \in Rounds
        /\ (stage' \in Logging => stage \in Logging)
        /\ (opened # NoFile => UNCHANGED <<stage, round>>)
    BY <1>23, Zenon DEF Send, LogInv, Stages, Rounds, Logging, configVars, mainVars, roundVars
  <2> QED
    BY <2>1, LogFrame, Zenon
<1>24. CASE ParentKilled
  <2>1. /\ UNCHANGED logVars /\ stage' \in Stages /\ round' \in Rounds
        /\ (stage' \in Logging => stage \in Logging)
        /\ (opened # NoFile => UNCHANGED <<stage, round>>)
    BY <1>24, Zenon DEF ParentKilled, LogInv, Stages, Rounds, Logging, configVars, mainVars, roundVars
  <2> QED
    BY <2>1, LogFrame, Zenon
<1>25. CASE StartLog
  <2>1. PICK ok \in BOOLEAN : \/ LogOpen(ok) /\ Go(IF ok THEN stage ELSE "end")
                              \/ LogCheck(ok) /\ Go(IF ok THEN "logged" ELSE "end")
    BY <1>25, Zenon DEF StartLog
  <2>2. stage = "loaded" /\ round' = round
    BY <1>25, Zenon DEF StartLog, mainVars, roundVars
  <2>3. CASE LogOpen(ok) /\ Go(IF ok THEN stage ELSE "end")
    BY <2>2, <2>3, LogOpens, Zenon DEF LogInv, Go, Stages, Logging
  <2>4. CASE LogCheck(ok) /\ Go(IF ok THEN "logged" ELSE "end")
    BY <2>2, <2>4, LogChecks DEF LogInv, Go, Stages, Logging, NoFile, Unfit
  <2> QED
    BY <2>1, <2>3, <2>4, Zenon
<1>26. CASE Reopen
  <2>1. PICK ok \in BOOLEAN : \/ LogOpen(ok) /\ round' = IF ok THEN round ELSE "signals"
                              \/ LogCheck(ok) /\ round' = "signals"
    BY <1>26, Zenon DEF Reopen
  <2>2. stage = "loop" /\ round = "log" /\ stage' = stage
    BY <1>26, Zenon DEF Reopen, configVars
  <2>3. CASE LogOpen(ok) /\ round' = IF ok THEN round ELSE "signals"
    BY <2>2, <2>3, LogOpens, Zenon DEF LogInv, Rounds
  <2>4. CASE LogCheck(ok) /\ round' = "signals"
    BY <2>2, <2>4, LogChecks DEF LogInv, Rounds, NoFile, Unfit
  <2> QED
    BY <2>1, <2>3, <2>4, Zenon
<1>27. CASE Report
  BY <1>27, Zenon DEF Report, log_close, NoFile, LogInv, Stages, Rounds, Logging, configVars,
     mainVars, roundVars
<1>28. CASE Rotates
  BY <1>28 DEF Rotates, Rotate, Unfit, NoFile, LogInv, Stages, Rounds, Logging, configVars, mainVars, roundVars
<1>29. CASE Crash
  BY <1>29 DEF Crash, LoopLeft, NoFile, Unfit, LogInv, Stages, Rounds, Logging, configVars, mainVars, roundVars
<1>30. CASE UNCHANGED vars
  BY <1>30, LogFrame, Zenon DEF vars, configVars, mainVars, roundVars, LogInv
<1> QED
  BY <1>1, <1>2, <1>3, <1>4, <1>5, <1>6, <1>7, <1>8, <1>9, <1>10, <1>11, <1>12, <1>13, <1>14, <1>15, <1>16, <1>17, <1>18, <1>19, <1>20, <1>21, <1>22, <1>23, <1>24, <1>25, <1>26, <1>27, <1>28, <1>29, <1>30, Zenon
     DEF MainNext, Daemon, Start, Loop

\* "A failed reopen keeps the previous descriptor": a daemon in its loop has a log, and
\* only one descriptor of it between rounds, whatever happens to the file (log.c:26-60).
THEOREM LogIsKept == MainSpec => []LogKept
<1>1. MainInit => LogInv
  <2>1. MainInit => stage = "cli" /\ round = "poll" /\ LogInit
    BY Zenon DEF MainInit, ConfigInit
  <2> QED
    BY <2>1 DEF LogInit, LogInv, Stages, Rounds, Logging, NoFile, Unfit
<1>2. LogInv => LogKept
  BY Zenon DEF LogInv, LogKept, Logging
<1> QED
  BY <1>1, <1>2, LogSteps, PTL DEF MainSpec


-----------------------------------------------------------------------------
(* A SIGHUP after a rotation.                                              *)

Starting == {"cli", "open", "read", "loaded", "logged", "addressed", "forked"}

\* The inductive invariant: a rotation that was announced is known, is being dealt with,
\* or has been.
FollowInv ==
  /\ LogInv
  /\ stage \in Starting \cup {"up"} => round = "poll"
  /\ stage \in Starting => due = FALSE
  /\ stage = "up" /\ due => "HUP" \in sigs
  /\ stage = "loop" /\ due /\ "HUP" \notin sigs =>
       IF round = "log" THEN opened \in {NoFile, atPath} ELSE log_fd = atPath

\* Steps that have to do with neither signals nor the log.
LEMMA FollowFrame ==
  ASSUME FollowInv, LogInv', UNCHANGED <<atPath, log_fd, opened, sigs, due>>,
         stage' \in Starting => stage \in Starting,
         stage' = "up" => stage \in {"forked", "up"},
         stage' = "loop" => stage \in {"up", "loop"},
         stage' \in Starting \cup {"up"} => round' = round,
         stage' = "loop" => (round' = "log" <=> round = "log")
  PROVE  FollowInv'
BY Zenon DEF FollowInv, Starting

LEMMA FollowSteps ==
  ASSUME FollowInv, [MainNext]_vars
  PROVE  FollowInv'
<1>0. LogInv /\ LogInv'
  BY LogSteps, Zenon DEF FollowInv
<1>1. CASE Configuring
  <2>1. /\ UNCHANGED <<atPath, log_fd, opened, sigs, due>>
        /\ (stage' \in Starting => stage \in Starting)
        /\ (stage' = "up" => stage \in {"forked", "up"})
        /\ (stage' = "loop" => stage \in {"up", "loop"})
        /\ (stage' \in Starting \cup {"up"} => round' = round)
        /\ (stage' = "loop" => (round' = "log" <=> round = "log"))
    BY <1>1 DEF Configuring, ConfigNext, Cli, Open, ReadLine, Load, Line, Fail, Starting, configVars, logVars, mainVars, roundVars, history
  <2> QED
    BY <1>0, <2>1, FollowFrame, Zenon
<1>2. CASE local_address
  <2>1. /\ UNCHANGED <<atPath, log_fd, opened, sigs, due>>
        /\ (stage' \in Starting => stage \in Starting)
        /\ (stage' = "up" => stage \in {"forked", "up"})
        /\ (stage' = "loop" => stage \in {"up", "loop"})
        /\ (stage' \in Starting \cup {"up"} => round' = round)
        /\ (stage' = "loop" => (round' = "log" <=> round = "log"))
    BY <1>2, Zenon DEF local_address, Go, Starting, configVars, logVars, mainVars, roundVars, history
  <2> QED
    BY <1>0, <2>1, FollowFrame, Zenon
<1>3. CASE Daemonize
  <2>1. /\ UNCHANGED <<atPath, log_fd, opened, sigs, due>>
        /\ (stage' \in Starting => stage \in Starting)
        /\ (stage' = "up" => stage \in {"forked", "up"})
        /\ (stage' = "loop" => stage \in {"up", "loop"})
        /\ (stage' \in Starting \cup {"up"} => round' = round)
        /\ (stage' = "loop" => (round' = "log" <=> round = "log"))
    BY <1>3, Zenon DEF Daemonize, Go, Starting, configVars, logVars, mainVars, roundVars, history
  <2> QED
    BY <1>0, <2>1, FollowFrame, Zenon
<1>4. CASE TakePid
  <2>1. /\ UNCHANGED <<atPath, log_fd, opened, sigs, due>>
        /\ (stage' \in Starting => stage \in Starting)
        /\ (stage' = "up" => stage \in {"forked", "up"})
        /\ (stage' = "loop" => stage \in {"up", "loop"})
        /\ (stage' \in Starting \cup {"up"} => round' = round)
        /\ (stage' = "loop" => (round' = "log" <=> round = "log"))
    BY <1>4, Zenon DEF TakePid, Go, Starting, configVars, logVars, mainVars, roundVars, history
  <2> QED
    BY <1>0, <2>1, FollowFrame, Zenon
<1>5. CASE payload_loop_init
  <2>1. /\ UNCHANGED <<atPath, log_fd, opened, sigs, due>>
        /\ (stage' \in Starting => stage \in Starting)
        /\ (stage' = "up" => stage \in {"forked", "up"})
        /\ (stage' = "loop" => stage \in {"up", "loop"})
        /\ (stage' \in Starting \cup {"up"} => round' = round)
        /\ (stage' = "loop" => (round' = "log" <=> round = "log"))
    BY <1>5, Zenon DEF payload_loop_init, Go, Starting, configVars, logVars, mainVars, roundVars,
       history
  <2> QED
    BY <1>0, <2>1, FollowFrame, Zenon
<1>6. CASE Acquire
  <2>1. /\ UNCHANGED <<atPath, log_fd, opened, sigs, due>>
        /\ (stage' \in Starting => stage \in Starting)
        /\ (stage' = "up" => stage \in {"forked", "up"})
        /\ (stage' = "loop" => stage \in {"up", "loop"})
        /\ (stage' \in Starting \cup {"up"} => round' = round)
        /\ (stage' = "loop" => (round' = "log" <=> round = "log"))
    BY <1>6, Zenon DEF Acquire, Go, Starting, configVars, logVars, mainVars, roundVars, history
  <2> QED
    BY <1>0, <2>1, FollowFrame, Zenon
<1>7. CASE Notify
  <2>1. /\ UNCHANGED <<atPath, log_fd, opened, sigs, due>>
        /\ (stage' \in Starting => stage \in Starting)
        /\ (stage' = "up" => stage \in {"forked", "up"})
        /\ (stage' = "loop" => stage \in {"up", "loop"})
        /\ (stage' \in Starting \cup {"up"} => round' = round)
        /\ (stage' = "loop" => (round' = "log" <=> round = "log"))
    BY <1>7, Zenon DEF Notify, Go, Starting, configVars, logVars, mainVars, roundVars, history
  <2> QED
    BY <1>0, <2>1, FollowFrame, Zenon
<1>8. CASE Poll
  <2>1. /\ UNCHANGED <<atPath, log_fd, opened, sigs, due>>
        /\ (stage' \in Starting => stage \in Starting)
        /\ (stage' = "up" => stage \in {"forked", "up"})
        /\ (stage' = "loop" => stage \in {"up", "loop"})
        /\ (stage' \in Starting \cup {"up"} => round' = round)
        /\ (stage' = "loop" => (round' = "log" <=> round = "log"))
    BY <1>8, Zenon DEF Poll, Go, Starting, configVars, logVars, mainVars, roundVars, history
  <2> QED
    BY <1>0, <2>1, FollowFrame, Zenon
<1>9. CASE CleanupDone
  <2>1. /\ UNCHANGED <<atPath, log_fd, opened, sigs, due>>
        /\ (stage' \in Starting => stage \in Starting)
        /\ (stage' = "up" => stage \in {"forked", "up"})
        /\ (stage' = "loop" => stage \in {"up", "loop"})
        /\ (stage' \in Starting \cup {"up"} => round' = round)
        /\ (stage' = "loop" => (round' = "log" <=> round = "log"))
    BY <1>9, Zenon DEF CleanupDone, Starting, configVars, logVars, mainVars, roundVars, history
  <2> QED
    BY <1>0, <2>1, FollowFrame, Zenon
<1>10. CASE SignalsDone
  <2>1. /\ UNCHANGED <<atPath, log_fd, opened, sigs, due>>
        /\ (stage' \in Starting => stage \in Starting)
        /\ (stage' = "up" => stage \in {"forked", "up"})
        /\ (stage' = "loop" => stage \in {"up", "loop"})
        /\ (stage' \in Starting \cup {"up"} => round' = round)
        /\ (stage' = "loop" => (round' = "log" <=> round = "log"))
    BY <1>10, Zenon DEF SignalsDone, Go, Starting, configVars, logVars, mainVars, roundVars, history
  <2> QED
    BY <1>0, <2>1, FollowFrame, Zenon
<1>11. CASE Packets
  <2>1. /\ UNCHANGED <<atPath, log_fd, opened, sigs, due>>
        /\ (stage' \in Starting => stage \in Starting)
        /\ (stage' = "up" => stage \in {"forked", "up"})
        /\ (stage' = "loop" => stage \in {"up", "loop"})
        /\ (stage' \in Starting \cup {"up"} => round' = round)
        /\ (stage' = "loop" => (round' = "log" <=> round = "log"))
    BY <1>11, Zenon DEF Packets, ReceiveOne, provision_packet, Handled, PacketsDone, Go, Starting,
       configVars, logVars, mainVars, roundVars, history
  <2> QED
    BY <1>0, <2>1, FollowFrame, Zenon
<1>12. CASE service_dispatch
  <2>1. /\ UNCHANGED <<atPath, log_fd, opened, sigs, due>>
        /\ (stage' \in Starting => stage \in Starting)
        /\ (stage' = "up" => stage \in {"forked", "up"})
        /\ (stage' = "loop" => stage \in {"up", "loop"})
        /\ (stage' \in Starting \cup {"up"} => round' = round)
        /\ (stage' = "loop" => (round' = "log" <=> round = "log"))
    BY <1>12, Zenon DEF service_dispatch, Starting, configVars, logVars, mainVars, roundVars, history
  <2> QED
    BY <1>0, <2>1, FollowFrame, Zenon
<1>13. CASE Command
  <2>1. /\ UNCHANGED <<atPath, log_fd, opened, sigs, due>>
        /\ (stage' \in Starting => stage \in Starting)
        /\ (stage' = "up" => stage \in {"forked", "up"})
        /\ (stage' = "loop" => stage \in {"up", "loop"})
        /\ (stage' \in Starting \cup {"up"} => round' = round)
        /\ (stage' = "loop" => (round' = "log" <=> round = "log"))
    BY <1>13, Zenon DEF Command, Starting, configVars, logVars, mainVars, roundVars, history
  <2> QED
    BY <1>0, <2>1, FollowFrame, Zenon
<1>14. CASE Parsing
  <2>1. /\ UNCHANGED <<atPath, log_fd, opened, sigs, due>>
        /\ (stage' \in Starting => stage \in Starting)
        /\ (stage' = "up" => stage \in {"forked", "up"})
        /\ (stage' = "loop" => stage \in {"up", "loop"})
        /\ (stage' \in Starting \cup {"up"} => round' = round)
        /\ (stage' = "loop" => (round' = "log" <=> round = "log"))
    BY <1>14, Zenon DEF Parsing, Starting, configVars, logVars, mainVars, roundVars, history
  <2> QED
    BY <1>0, <2>1, FollowFrame, Zenon
<1>15. CASE Executing
  <2>1. /\ UNCHANGED <<atPath, log_fd, opened, sigs, due>>
        /\ (stage' \in Starting => stage \in Starting)
        /\ (stage' = "up" => stage \in {"forked", "up"})
        /\ (stage' = "loop" => stage \in {"up", "loop"})
        /\ (stage' \in Starting \cup {"up"} => round' = round)
        /\ (stage' = "loop" => (round' = "log" <=> round = "log"))
    BY <1>15, Zenon DEF Executing, Starting, configVars, logVars, mainVars, roundVars, history
  <2> QED
    BY <1>0, <2>1, FollowFrame, Zenon
<1>16. CASE End
  <2>1. /\ UNCHANGED <<atPath, log_fd, opened, sigs, due>>
        /\ (stage' \in Starting => stage \in Starting)
        /\ (stage' = "up" => stage \in {"forked", "up"})
        /\ (stage' = "loop" => stage \in {"up", "loop"})
        /\ (stage' \in Starting \cup {"up"} => round' = round)
        /\ (stage' = "loop" => (round' = "log" <=> round = "log"))
    BY <1>16, Zenon DEF End, Go, LoopLeft, Starting, configVars, logVars, mainVars, roundVars, history
  <2> QED
    BY <1>0, <2>1, FollowFrame, Zenon
<1>17. CASE Ended
  <2>1. /\ UNCHANGED <<atPath, log_fd, opened, sigs, due>>
        /\ (stage' \in Starting => stage \in Starting)
        /\ (stage' = "up" => stage \in {"forked", "up"})
        /\ (stage' = "loop" => stage \in {"up", "loop"})
        /\ (stage' \in Starting \cup {"up"} => round' = round)
        /\ (stage' = "loop" => (round' = "log" <=> round = "log"))
    BY <1>17, Zenon DEF Ended, Go, Starting, configVars, logVars, mainVars, roundVars, history
  <2> QED
    BY <1>0, <2>1, FollowFrame, Zenon
<1>18. CASE Filtering
  <2>1. /\ UNCHANGED <<atPath, log_fd, opened, sigs, due>>
        /\ (stage' \in Starting => stage \in Starting)
        /\ (stage' = "up" => stage \in {"forked", "up"})
        /\ (stage' = "loop" => stage \in {"up", "loop"})
        /\ (stage' \in Starting \cup {"up"} => round' = round)
        /\ (stage' = "loop" => (round' = "log" <=> round = "log"))
    BY <1>18, Zenon DEF Filtering, Starting, configVars, logVars, mainVars, roundVars, history
  <2> QED
    BY <1>0, <2>1, FollowFrame, Zenon
<1>19. CASE Peer
  <2>1. /\ UNCHANGED <<atPath, log_fd, opened, sigs, due>>
        /\ (stage' \in Starting => stage \in Starting)
        /\ (stage' = "up" => stage \in {"forked", "up"})
        /\ (stage' = "loop" => stage \in {"up", "loop"})
        /\ (stage' \in Starting \cup {"up"} => round' = round)
        /\ (stage' = "loop" => (round' = "log" <=> round = "log"))
    BY <1>19, Zenon DEF Peer, Starting, configVars, logVars, mainVars, roundVars, history
  <2> QED
    BY <1>0, <2>1, FollowFrame, Zenon
<1>20. CASE Parent
  <2>1. /\ UNCHANGED <<atPath, log_fd, opened, sigs, due>>
        /\ (stage' \in Starting => stage \in Starting)
        /\ (stage' = "up" => stage \in {"forked", "up"})
        /\ (stage' = "loop" => stage \in {"up", "loop"})
        /\ (stage' \in Starting \cup {"up"} => round' = round)
        /\ (stage' = "loop" => (round' = "log" <=> round = "log"))
    BY <1>20, Zenon DEF Parent, Starting, configVars, logVars, mainVars, roundVars, history
  <2> QED
    BY <1>0, <2>1, FollowFrame, Zenon
<1>21. CASE Outside
  <2>1. /\ UNCHANGED <<atPath, log_fd, opened, sigs, due>>
        /\ (stage' \in Starting => stage \in Starting)
        /\ (stage' = "up" => stage \in {"forked", "up"})
        /\ (stage' = "loop" => stage \in {"up", "loop"})
        /\ (stage' \in Starting \cup {"up"} => round' = round)
        /\ (stage' = "loop" => (round' = "log" <=> round = "log"))
    BY <1>21, Zenon DEF Outside, Starting, configVars, logVars, mainVars, roundVars, history
  <2> QED
    BY <1>0, <2>1, FollowFrame, Zenon
<1>22. CASE ParentKilled
  <2>1. /\ UNCHANGED <<atPath, log_fd, opened, sigs, due>>
        /\ (stage' \in Starting => stage \in Starting)
        /\ (stage' = "up" => stage \in {"forked", "up"})
        /\ (stage' = "loop" => stage \in {"up", "loop"})
        /\ (stage' \in Starting \cup {"up"} => round' = round)
        /\ (stage' = "loop" => (round' = "log" <=> round = "log"))
    BY <1>22, Zenon DEF ParentKilled, Starting, configVars, logVars, mainVars, roundVars, history
  <2> QED
    BY <1>0, <2>1, FollowFrame, Zenon
<1>23. CASE UNCHANGED vars
  <2>1. /\ UNCHANGED <<atPath, log_fd, opened, sigs, due>>
        /\ (stage' \in Starting => stage \in Starting)
        /\ (stage' = "up" => stage \in {"forked", "up"})
        /\ (stage' = "loop" => stage \in {"up", "loop"})
        /\ (stage' \in Starting \cup {"up"} => round' = round)
        /\ (stage' = "loop" => (round' = "log" <=> round = "log"))
    BY <1>23, Zenon DEF vars, Starting, configVars, logVars, mainVars, roundVars, history
  <2> QED
    BY <1>0, <2>1, FollowFrame, Zenon
<1>24. CASE ReadSignal
  <2>1. PICK s \in sigs : /\ sigs' = sigs \ {s}
                          /\ round' = CASE s = "HUP" -> "log" [] s = "USR1" -> "cleanup" [] OTHER -> round
    BY <1>24, Zenon DEF ReadSignal
  <2>2. stage = "loop" /\ stage' = stage /\ round = "signals" /\ UNCHANGED <<atPath, log_fd, opened, due>>
    BY <1>24, Zenon DEF ReadSignal, configVars, logVars, history
  <2>3. opened = NoFile
    BY <1>0, <2>2, Zenon DEF LogInv
  <2>4. CASE s = "HUP"
    BY <1>0, <2>1, <2>2, <2>3, <2>4, Zenon DEF FollowInv, Starting
  <2>5. CASE s # "HUP"
    <3>1. round' # "log" /\ ("HUP" \in sigs' <=> "HUP" \in sigs)
      BY <2>1, <2>2, <2>5, Zenon
    <3> QED
      BY <1>0, <2>2, <3>1, Zenon DEF FollowInv, Starting
  <2> QED
    BY <2>4, <2>5, Zenon
<1>25. CASE StartLog
  <2>1. /\ stage = "loaded" /\ stage' \in Starting \cup {"end"} /\ round' = round /\ due' = due
    BY <1>25, Zenon DEF StartLog, Go, Starting, mainVars, roundVars, history
  <2> QED
    BY <1>0, <2>1, Zenon DEF FollowInv, Starting
<1>26. CASE Reopen
  <2>1. PICK ok \in BOOLEAN : /\ \/ LogOpen(ok) /\ round' = IF ok THEN round ELSE "signals"
                                 \/ LogCheck(ok) /\ round' = "signals"
                              /\ due' = IF ok THEN due ELSE "HUP" \in sigs
    BY <1>26, Zenon DEF Reopen
  <2>2. stage = "loop" /\ round = "log" /\ stage' = stage /\ sigs' = sigs
    BY <1>26, Zenon DEF Reopen, configVars
  <2>3. CASE ~ok
    <3>1. stage' = "loop" /\ (due' => "HUP" \in sigs')
      BY <2>1, <2>2, <2>3, Zenon
    <3> QED
      BY <1>0, <3>1, Zenon DEF FollowInv, Starting
  <2>4. CASE ok /\ LogOpen(ok) /\ round' = round
    <3>1. opened' = atPath'
      BY <2>4, Zenon DEF LogOpen
    <3> QED
      BY <1>0, <2>2, <2>4, <3>1, Zenon DEF FollowInv, Starting
  <2>5. CASE ok /\ LogCheck(ok) /\ round' = "signals"
    <3>1. opened # NoFile /\ log_fd' = opened /\ atPath' = atPath /\ due' = due
      BY <2>1, <2>5, Zenon DEF LogCheck
    <3> QED
      BY <1>0, <2>2, <2>5, <3>1, Zenon DEF FollowInv, Starting
  <2> QED
    BY <2>1, <2>3, <2>4, <2>5, Zenon
<1>27. CASE Report \/ Crash
  <2>1. stage' \in {"exit", "dead"}
    BY <1>27, Zenon DEF Report, Crash
  <2> QED
    BY <1>0, <2>1, Zenon DEF FollowInv, Starting
<1>28. CASE Rotates
  <2>1. due' = FALSE /\ UNCHANGED <<stage, round>>
    BY <1>28, Zenon DEF Rotates, configVars, mainVars, roundVars
  <2> QED
    BY <1>0, <2>1, Zenon DEF FollowInv
<1>29. ASSUME NEW s \in Signals, Send(s) PROVE FollowInv'
  <2>1. /\ stage \in {"up", "loop"} /\ sigs' = sigs \cup {s} /\ due' = (due \/ s = "HUP")
        /\ UNCHANGED <<stage, round, atPath, log_fd, opened>>
    BY <1>29, Zenon DEF Send, configVars, logVars, roundVars
  <2>2. CASE s = "HUP"
    BY <1>0, <2>1, <2>2, Zenon DEF FollowInv, Starting
  <2>3. CASE s # "HUP"
    <3>1. (due' <=> due) /\ ("HUP" \in sigs' <=> "HUP" \in sigs)
      BY <2>1, <2>3, Zenon
    <3> QED
      BY <1>0, <2>1, <3>1, Zenon DEF FollowInv, Starting
  <2> QED
    BY <2>2, <2>3, Zenon
<1> QED
  BY <1>1, <1>2, <1>3, <1>4, <1>5, <1>6, <1>7, <1>8, <1>9, <1>10, <1>11, <1>12, <1>13, <1>14, <1>15, <1>16, <1>17, <1>18, <1>19, <1>20, <1>21, <1>22, <1>23, <1>24, <1>25, <1>26, <1>27, <1>28, <1>29, Zenon
     DEF MainNext, Daemon, Start, Loop

\* No announced rotation is lost, for any number of rotations and signals, which merge
\* while they are pending (softgred.c:173-191, log.c:26-52).
THEOREM RotationsAreFollowed == MainSpec => []LogFollows
<1>1. MainInit => FollowInv
  <2>1. MainInit => stage = "cli" /\ round = "poll" /\ LogInit /\ due = FALSE
    BY Zenon DEF MainInit, ConfigInit
  <2> QED
    BY <2>1 DEF LogInit, LogInv, FollowInv, Stages, Rounds, Logging, Starting, NoFile, Unfit
<1>2. FollowInv => LogFollows
  BY Zenon DEF FollowInv, LogFollows
<1> QED
  BY <1>1, <1>2, FollowSteps, PTL DEF MainSpec


-----------------------------------------------------------------------------
(* The parent.                                                             *)

Unbusy == Stages \ {"up", "loop", "end", "ending", "dead"}
Everything == {"pid", "api", "bridges", "firewall"}

\* The inductive invariant: what main holds at each stage, and what the parent can know.
StartInv ==
  /\ stage \in Stages
  /\ notify \in {"none", "open", "success", "failure", "eof"}
  /\ parent \in {"none", "waiting", "ok", "failed", "gone"}
  /\ held \subseteq Everything \cup {"chains"}
  /\ stage \in Unbusy => left = 0 /\ helper = "idle" /\ capture = "closed" /\ pc = "idle"
  /\ stage = "ending" => capture = "closed" /\ pc = "idle" /\ "api" \notin held
  /\ stage \in Starting \cup {"failed"} => held = {}
  /\ stage \in {"report", "exit"} => "pid" \notin held /\ "api" \notin held
  /\ stage = "up" => /\ "pid" \in held /\ ("api" \in held => capture = "filtered")
                     /\ ("bridges" \in held => "api" \in held)
                     /\ ("firewall" \in held => "bridges" \in held) /\ "chains" \notin held
  /\ stage = "loop" => capture = "filtered" /\ held = Everything /\ notify \in {"none", "success"}
  /\ stage \in {"end", "ending", "report"} /\ notify = "open" /\ "firewall" \in held => parent = "gone"
  /\ notify = "success" => stage \in {"loop", "end", "ending", "report", "exit", "dead"}
  /\ notify = "failure" => stage = "exit" /\ ("firewall" \in held => parent = "gone")
  /\ notify = "eof" => stage = "dead"
  /\ parent = "none" <=> notify = "none"
  /\ parent = "ok" => notify = "success"
  /\ parent = "failed" => notify \in {"failure", "eof"}

\* Steps that get nowhere and only handle packets, signals or commands.
LEMMA StartFrame ==
  ASSUME StartInv, UNCHANGED <<stage, capture, held, notify, parent>>,
         stage \in Unbusy => UNCHANGED <<left, helper, pc>>,
         stage = "ending" => UNCHANGED pc
  PROVE  StartInv'
BY DEF StartInv

LEMMA StartSteps ==
  ASSUME StartInv, [MainNext]_vars
  PROVE  StartInv'
<1> USE DEF Stages, Unbusy, Starting
<1>1. CASE ReadSignal
  <2>1. /\ UNCHANGED <<stage, capture, held, notify, parent>>
        /\ (stage \in Unbusy => UNCHANGED <<left, helper, pc>>)
        /\ (stage = "ending" => UNCHANGED pc)
    BY <1>1, Zenon DEF ReadSignal, StartInv, configVars, helperVars, mainVars, roundVars, payloadVars
  <2> QED
    BY <2>1, StartFrame, Zenon
<1>2. CASE Reopen
  <2>1. /\ UNCHANGED <<stage, capture, held, notify, parent>>
        /\ (stage \in Unbusy => UNCHANGED <<left, helper, pc>>)
        /\ (stage = "ending" => UNCHANGED pc)
    BY <1>2, Zenon DEF Reopen, StartInv, configVars, helperVars, mainVars, roundVars, payloadVars
  <2> QED
    BY <2>1, StartFrame, Zenon
<1>3. CASE CleanupDone
  <2>1. /\ UNCHANGED <<stage, capture, held, notify, parent>>
        /\ (stage \in Unbusy => UNCHANGED <<left, helper, pc>>)
        /\ (stage = "ending" => UNCHANGED pc)
    BY <1>3, Zenon DEF CleanupDone, StartInv, configVars, helperVars, mainVars, roundVars, payloadVars
  <2> QED
    BY <2>1, StartFrame, Zenon
<1>4. CASE ReceiveOne
  <2>1. /\ UNCHANGED <<stage, capture, held, notify, parent>>
        /\ (stage \in Unbusy => UNCHANGED <<left, helper, pc>>)
        /\ (stage = "ending" => UNCHANGED pc)
    BY <1>4, Zenon DEF ReceiveOne, Receive, StartInv, configVars, helperVars, mainVars, roundVars,
       payloadVars
  <2> QED
    BY <2>1, StartFrame, Zenon
<1>5. CASE provision_packet
  <2>1. /\ UNCHANGED <<stage, capture, held, notify, parent>>
        /\ (stage \in Unbusy => UNCHANGED <<left, helper, pc>>)
        /\ (stage = "ending" => UNCHANGED pc)
    BY <1>5, Zenon DEF provision_packet, StartInv, configVars, helperVars, mainVars, roundVars,
       payloadVars
  <2> QED
    BY <2>1, StartFrame, Zenon
<1>6. CASE Handled
  <2>1. /\ UNCHANGED <<stage, capture, held, notify, parent>>
        /\ (stage \in Unbusy => UNCHANGED <<left, helper, pc>>)
        /\ (stage = "ending" => UNCHANGED pc)
    BY <1>6, Zenon DEF Handled, StartInv, configVars, helperVars, mainVars, roundVars, payloadVars
  <2> QED
    BY <2>1, StartFrame, Zenon
<1>7. CASE service_dispatch
  <2>1. /\ UNCHANGED <<stage, capture, held, notify, parent>>
        /\ (stage \in Unbusy => UNCHANGED <<left, helper, pc>>)
        /\ (stage = "ending" => UNCHANGED pc)
    BY <1>7, Zenon DEF service_dispatch, StartInv, configVars, helperVars, mainVars, roundVars,
       payloadVars
  <2> QED
    BY <2>1, StartFrame, Zenon
<1>8. CASE Command
  <2>1. /\ UNCHANGED <<stage, capture, held, notify, parent>>
        /\ (stage \in Unbusy => UNCHANGED <<left, helper, pc>>)
        /\ (stage = "ending" => UNCHANGED pc)
    BY <1>8 DEF Command, StartInv, configVars, helperVars, mainVars, roundVars, payloadVars
  <2> QED
    BY <2>1, StartFrame, Zenon
<1>9. CASE Parsing
  <2>1. /\ UNCHANGED <<stage, capture, held, notify, parent>>
        /\ (stage \in Unbusy => UNCHANGED <<left, helper, pc>>)
        /\ (stage = "ending" => UNCHANGED pc)
    BY <1>9, Zenon DEF Parsing, Parse, ParseEther, ParseTag, ParseIp, ParseGre, ParseInner, Discard,
       StartInv, configVars, helperVars, mainVars, roundVars, payloadVars
  <2> QED
    BY <2>1, StartFrame, Zenon
<1>10. CASE Executing
  <2>1. /\ UNCHANGED <<stage, capture, held, notify, parent>>
        /\ (stage \in Unbusy => UNCHANGED <<left, helper, pc>>)
        /\ (stage = "ending" => UNCHANGED pc)
    BY <1>10, Zenon DEF Executing, HelperStep, Wait, Clock, Kill, Reap, StartInv, configVars,
       helperVars, mainVars, roundVars, payloadVars
  <2> QED
    BY <2>1, StartFrame, Zenon
<1>11. CASE Filtering
  <2>1. /\ UNCHANGED <<stage, capture, held, notify, parent>>
        /\ (stage \in Unbusy => UNCHANGED <<left, helper, pc>>)
        /\ (stage = "ending" => UNCHANGED pc)
    BY <1>11, Zenon DEF Filtering, Filter, Drop, StartInv, configVars, helperVars, mainVars,
       roundVars, payloadVars
  <2> QED
    BY <2>1, StartFrame, Zenon
<1>12. CASE Peer
  <2>1. /\ UNCHANGED <<stage, capture, held, notify, parent>>
        /\ (stage \in Unbusy => UNCHANGED <<left, helper, pc>>)
        /\ (stage = "ending" => UNCHANGED pc)
    BY <1>12, Zenon DEF Peer, Arrive, StartInv, configVars, helperVars, mainVars, roundVars,
       payloadVars
  <2> QED
    BY <2>1, StartFrame, Zenon
<1>13. CASE Outside
  <2>1. /\ UNCHANGED <<stage, capture, held, notify, parent>>
        /\ (stage \in Unbusy => UNCHANGED <<left, helper, pc>>)
        /\ (stage = "ending" => UNCHANGED pc)
    BY <1>13, Zenon DEF Outside, Child, Expire, StartInv, configVars, helperVars, mainVars, roundVars,
       payloadVars
  <2> QED
    BY <2>1, StartFrame, Zenon
<1>14. CASE \E s \in Signals : Send(s)
  <2>1. /\ UNCHANGED <<stage, capture, held, notify, parent>>
        /\ (stage \in Unbusy => UNCHANGED <<left, helper, pc>>)
        /\ (stage = "ending" => UNCHANGED pc)
    BY <1>14, Zenon DEF Send, StartInv, configVars, helperVars, mainVars, roundVars, payloadVars
  <2> QED
    BY <2>1, StartFrame, Zenon
<1>15. CASE Rotates
  <2>1. /\ UNCHANGED <<stage, capture, held, notify, parent>>
        /\ (stage \in Unbusy => UNCHANGED <<left, helper, pc>>)
        /\ (stage = "ending" => UNCHANGED pc)
    BY <1>15, Zenon DEF Rotates, StartInv, configVars, helperVars, mainVars, roundVars, payloadVars
  <2> QED
    BY <2>1, StartFrame, Zenon
<1>16. CASE UNCHANGED vars
  <2>1. /\ UNCHANGED <<stage, capture, held, notify, parent>>
        /\ (stage \in Unbusy => UNCHANGED <<left, helper, pc>>)
        /\ (stage = "ending" => UNCHANGED pc)
    BY <1>16, Zenon DEF vars, StartInv, configVars, helperVars, mainVars, roundVars, payloadVars
  <2> QED
    BY <2>1, StartFrame, Zenon
<1>17. CASE Configuring
  BY <1>17 DEF Configuring, ConfigNext, Cli, Open, ReadLine, Load, Line, Fail, StartInv, configVars, helperVars, mainVars, roundVars, payloadVars
<1>18. CASE StartLog
  BY <1>18, Zenon DEF StartLog, Go, StartInv, configVars, helperVars, mainVars, roundVars,
     payloadVars
<1>19. CASE local_address
  BY <1>19, Zenon DEF local_address, Go, StartInv, configVars, helperVars, mainVars, roundVars,
     payloadVars
<1>20. CASE Daemonize
  BY <1>20, Zenon DEF Daemonize, Go, StartInv, configVars, helperVars, mainVars, roundVars,
     payloadVars
<1>21. CASE TakePid
  BY <1>21, Zenon DEF TakePid, Go, Everything, StartInv, configVars, helperVars, mainVars,
     roundVars, payloadVars
<1>22. CASE payload_loop_init
  BY <1>22, Zenon DEF payload_loop_init, Go, Socket, Configure, Everything, StartInv, configVars,
     helperVars, mainVars, roundVars, payloadVars
<1>23. CASE Acquire
  <2>1. \/ held' = held \cup {"api"} /\ stage' = stage
        \/ "api" \in held /\ held' = held \cup {"bridges"} /\ stage' = stage
        \/ {"api", "bridges"} \subseteq held /\ held' = held \cup {"firewall"} /\ stage' = stage
        \/ ~({"api", "bridges", "firewall"} \subseteq held) /\ stage' = "end"
           /\ (UNCHANGED held \/ held' = held \cup {"chains"})
    BY <1>23 DEF Acquire, Go, Resources
  <2>2. stage = "up" /\ capture = "filtered" /\ UNCHANGED <<capture, notify, parent>>
    BY <1>23, Zenon DEF Acquire, payloadVars
  <2> QED
    BY <2>1, <2>2, Zenon DEF StartInv, Everything
<1>24. CASE Notify
  <2>1. {"api", "bridges", "firewall"} \subseteq held
    <3>1. Resources[1] = "api" /\ Resources[2] = "bridges" /\ Resources[3] = "firewall"
      BY Zenon DEF Resources
    <3>2. \A k \in 1 .. 3 : Resources[k] \in held
      BY <1>24, Zenon DEF Notify, Ready
    <3> QED
      BY <3>1, <3>2
  <2>2. /\ stage = "up" /\ UNCHANGED <<capture, held, parent>>
        /\ \/ notify = "none" /\ stage' = "loop" /\ UNCHANGED notify
           \/ notify = "open" /\ parent # "gone" /\ notify' = "success" /\ stage' = "loop"
           \/ notify = "open" /\ parent = "gone" /\ stage' = "end" /\ UNCHANGED notify
    BY <1>24, Zenon DEF Notify, Go, payloadVars
  <2> QED
    BY <2>1, <2>2, Zenon DEF StartInv, Everything
<1>25. CASE Poll
  BY <1>25, Zenon DEF Poll, Go, StartInv, configVars, helperVars, mainVars, roundVars, payloadVars
<1>26. CASE SignalsDone
  BY <1>26, Zenon DEF SignalsDone, Go, StartInv, configVars, helperVars, mainVars, roundVars,
     payloadVars
<1>27. CASE PacketsDone
  BY <1>27, Zenon DEF PacketsDone, Go, StartInv, configVars, helperVars, mainVars, roundVars,
     payloadVars
<1>28. CASE End
  BY <1>28, Zenon DEF End, Go, Forgotten, StartInv, configVars, helperVars, mainVars, roundVars,
     payloadVars
<1>29. CASE Ended
  BY <1>29, Zenon DEF Ended, Go, Idle, StartInv, configVars, helperVars, mainVars, roundVars,
     payloadVars
<1>30. CASE Report
  BY <1>30, Zenon DEF Report, Told, StartInv, configVars, helperVars, mainVars, roundVars,
     payloadVars
<1>31. CASE Crash
  BY <1>31, Zenon DEF Crash, HungUp, Forgotten, Loaded, StartInv, configVars, helperVars, mainVars,
     roundVars, payloadVars
<1>32. CASE Parent
  BY <1>32, Zenon DEF Parent, StartInv, configVars, helperVars, mainVars, roundVars, payloadVars
<1>33. CASE ParentKilled
  BY <1>33 DEF ParentKilled, StartInv, configVars, helperVars, mainVars, roundVars, payloadVars
<1> QED
  BY <1>1, <1>2, <1>3, <1>4, <1>5, <1>6, <1>7, <1>8, <1>9, <1>10, <1>11, <1>12, <1>13, <1>14, <1>15, <1>16, <1>17, <1>18, <1>19, <1>20, <1>21, <1>22, <1>23, <1>24, <1>25, <1>26, <1>27, <1>28, <1>29, <1>30, <1>31, <1>32, <1>33, Zenon
     DEF MainNext, Daemon, Start, Loop, Packets

\* "Background startup reports success only after capture, API, bridges and firewall are
\* ready", and failure only when main is done and holds nothing but its bridges and chains
\* a failed start could not remove (softgred.c:78-101, 152-158, 202-217;
\* iface_ebtables.c:68-80).
THEOREM ParentHearsTruth == MainSpec => []ParentToldTruth
<1>1. MainInit => StartInv
  <2>1. MainInit => /\ stage = "cli" /\ notify = "none" /\ parent = "none" /\ held = {} /\ left = 0
                    /\ helper = "idle" /\ capture = "closed" /\ pc = "idle"
    BY Zenon DEF MainInit, ConfigInit, HelperInit, PayloadInit
  <2> QED
    BY <2>1, Zenon DEF StartInv, Stages, Unbusy, Starting, Everything
<1>2. MainInit => HelperInv
  BY Zenon DEF MainInit, HelperInit, HelperInv, CommandIsOver
<1>3. StartInv /\ HelperInv => ParentToldTruth
  BY Zenon DEF StartInv, HelperInv, ParentToldTruth, Unbusy, Stages, Everything
<1> QED
  BY <1>1, <1>2, <1>3, StartSteps, KeepsHelperInv, PTL DEF MainSpec

=============================================================================
