------------------------------- MODULE Helper -------------------------------
(***************************************************************************)
(* helper.c: helper_exec, the ebtables process it forks, and the three     *)
(* seconds it is given.  Kernel models a command as one step with an       *)
(* outcome; here is why that is right.                                     *)
(***************************************************************************)
EXTENDS Naturals

VARIABLES
  helper,   \* "idle", or the next step: "wait", "clock", "kill", "reap"
  child,    \* "none", "running", or how it ended: "done", "refused", "killed"
  expired,  \* the deadline is past
  effect,   \* the rules are changed as the command says
  result,   \* what the last call returned: "none", "0" or "-1"
  struck    \* history: a signal of somebody else has ended the child

helperVars == <<helper, child, expired, effect, result, struck>>

HelperInit ==
  /\ helper = "idle" /\ child = "none" /\ expired = FALSE
  /\ effect = FALSE /\ result = "none" /\ struck = FALSE

\* fork, which may fail.
Call ==
  /\ helper = "idle"
  /\ expired' = FALSE /\ effect' = FALSE /\ struck' = FALSE
  /\ \/ helper' = "wait" /\ child' = "running" /\ UNCHANGED result
     \/ result' = "-1" /\ UNCHANGED <<helper, child>>

Returns(r) == helper' = "idle" /\ child' = "none" /\ result' = r

\* waitpid with WNOHANG.
Wait ==
  /\ helper = "wait"
  /\ IF child = "running"
     THEN helper' = "clock" /\ UNCHANGED <<child, result>>
     ELSE Returns(IF child = "done" THEN "0" ELSE "-1")
  /\ UNCHANGED <<expired, effect, struck>>

\* Mutant of Clock: there is no deadline.
ClockNever ==
  /\ helper = "clock"
  /\ helper' = "wait"
  /\ UNCHANGED <<child, expired, effect, result, struck>>

\* The time is looked at; before the next round the daemon sleeps a millisecond.
Clock ==
  /\ helper = "clock"
  /\ helper' = IF expired THEN "kill" ELSE "wait"
  /\ UNCHANGED <<child, expired, effect, result, struck>>

\* Mutant of Kill: the child is left to itself.
KillNot ==
  /\ helper = "kill"
  /\ helper' = "idle" /\ result' = "-1"
  /\ UNCHANGED <<child, expired, effect, struck>>

\* SIGKILL; the child may have ended by itself since it was looked at.
Kill ==
  /\ helper = "kill"
  /\ child' = IF child = "running" THEN "killed" ELSE child
  /\ helper' = "reap"
  /\ UNCHANGED <<expired, effect, result, struck>>

\* waitpid without WNOHANG.
Reap ==
  /\ helper = "reap" /\ child # "running"
  /\ Returns("-1")
  /\ UNCHANGED <<expired, effect, struck>>

HelperStep == Wait \/ Clock \/ Kill \/ Reap

\* ebtables: it changes the rules in one go, then says so; or it refuses, or hangs.  At
\* any time it may die of a signal, which it does not block as the daemon does: Ctrl-C
\* on the terminal, the service manager's SIGTERM to all processes, memory exhausted.
Child ==
  /\ child = "running"
  /\ \/ ~effect /\ effect' = TRUE /\ UNCHANGED <<child, struck>>
     \/ child' = (IF effect THEN "done" ELSE "refused") /\ UNCHANGED <<effect, struck>>
     \/ child' = "killed" /\ struck' = TRUE /\ UNCHANGED effect
  /\ UNCHANGED <<helper, expired, result>>

Expire ==
  /\ helper # "idle" /\ ~expired
  /\ expired' = TRUE
  /\ UNCHANGED <<helper, child, effect, result, struck>>

-----------------------------------------------------------------------------
(* Properties.                                                             *)

\* A command is over when helper_exec returns: its result is 0 only if it took effect,
\* it took effect in spite of -1 only when its time was up or somebody else killed it,
\* and no process is left that could still change the rules.
CommandIsOver ==
  helper = "idle" =>
    /\ child = "none"
    /\ result = "0" => effect
    /\ result = "-1" /\ effect => expired \/ struck

=============================================================================
