------------------------------ MODULE Timeout ------------------------------
(***************************************************************************)
(* run_with_timeout of src/sandbox/mod.rs: a command runs in a process     *)
(* group of its own, may leave processes in the background that hold its   *)
(* output, and is killed with its group when the time of the step is over. *)
(* Two threads drain the output; they end when nobody holds it any more.   *)
(***************************************************************************)
EXTENDS Verdicts, Integers

CONSTANTS
  Background,   \* processes the command may start
  CommandCodes  \* its exit codes; -1 stands for a signal

VARIABLES
  tpc,       \* idle, poll (try_wait is next), late (the clock is next), wait, join, returned
  timed,     \* a timeout was given
  child,     \* "none", "running" or "ended"
  own,       \* the code the command ended with
  alive,     \* background processes that hold the output
  escaped,   \* those of them in a process group of their own
  overdue,   \* the deadline is past
  timedOut,  \* the command was killed for it
  tcode      \* the exit code that is returned

timeoutVars == <<tpc, timed, child, own, alive, escaped, overdue, timedOut, tcode>>

ASSUME TimeoutAssumption == CommandCodes \subseteq Int /\ None \notin Int

----------------------------------------------------------------------------
\* spawn, with the threads that read; without a timeout `output` waits for the command.
StartCommand(t) ==
  /\ tpc = "idle"
  /\ timed' = t /\ child' = "running"
  /\ tpc' = IF t THEN "poll" ELSE "wait"
  /\ UNCHANGED <<own, alive, escaped, overdue, timedOut, tcode>>

\* The command starts a process, which may leave the group, and may end or let go of the
\* output at any time, or never.
StartBackground(b) ==
  /\ child = "running" /\ b \notin alive
  /\ alive' = alive \cup {b}
  /\ UNCHANGED <<tpc, timed, child, own, escaped, overdue, timedOut, tcode>>

LeaveGroup(b) ==
  /\ b \in alive \ escaped
  /\ escaped' = escaped \cup {b}
  /\ UNCHANGED <<tpc, timed, child, own, alive, overdue, timedOut, tcode>>

EndBackground(b) ==
  /\ b \in alive
  /\ alive' = alive \ {b} /\ escaped' = escaped \ {b}
  /\ UNCHANGED <<tpc, timed, child, own, overdue, timedOut, tcode>>

EndCommand(c) ==
  /\ child = "running"
  /\ child' = "ended" /\ own' = c
  /\ UNCHANGED <<tpc, timed, alive, escaped, overdue, timedOut, tcode>>

Deadline ==
  /\ tpc \in {"poll", "late"} /\ ~ overdue
  /\ overdue' = TRUE
  /\ UNCHANGED <<tpc, timed, child, own, alive, escaped, timedOut, tcode>>

\* try_wait
PollChild ==
  /\ tpc = "poll"
  /\ IF child = "ended" THEN tpc' = "join" /\ tcode' = own
                        ELSE tpc' = "late" /\ UNCHANGED tcode
  /\ UNCHANGED <<timed, child, own, alive, escaped, overdue, timedOut>>

\* Fault: the command is killed, not its group.
CheckClockKillsChild ==
  /\ tpc = "late"
  /\ IF overdue
     THEN tpc' = "join" /\ timedOut' = TRUE /\ tcode' = 124 /\ child' = "ended"
     ELSE tpc' = "poll" /\ UNCHANGED <<timedOut, tcode, child>>
  /\ UNCHANGED <<timed, own, alive, escaped, overdue>>

\* Past the deadline the group is killed and the command waited for, even if it ended
\* since try_wait; else there is another turn, 25 ms later.
CheckClock ==
  /\ tpc = "late"
  /\ IF overdue
     THEN /\ tpc' = "join" /\ timedOut' = TRUE /\ tcode' = 124 /\ child' = "ended"
          /\ alive' = alive \cap escaped
     ELSE tpc' = "poll" /\ UNCHANGED <<timedOut, tcode, child, alive>>
  /\ UNCHANGED <<timed, own, escaped, overdue>>

\* The command without a deadline has ended.
WaitChild ==
  /\ tpc = "wait" /\ child = "ended"
  /\ tpc' = "join" /\ tcode' = own
  /\ UNCHANGED <<timed, child, own, alive, escaped, overdue, timedOut>>

\* The reading threads are joined: they end with the last process that holds the output.
JoinReaders ==
  /\ tpc = "join" /\ alive = {}
  /\ tpc' = "returned"
  /\ UNCHANGED <<timed, child, own, alive, escaped, overdue, timedOut, tcode>>

TimeoutInit ==
  /\ tpc = "idle" /\ timed = FALSE /\ child = "none" /\ own = None
  /\ alive = {} /\ escaped = {} /\ overdue = FALSE /\ timedOut = FALSE /\ tcode = None

TimeoutNext ==
  \/ \E t \in BOOLEAN : StartCommand(t)
  \/ \E b \in Background : StartBackground(b) \/ LeaveGroup(b) \/ EndBackground(b)
  \/ \E c \in CommandCodes : EndCommand(c)
  \/ Deadline \/ PollChild \/ CheckClock \/ WaitChild \/ JoinReaders

\* The clock goes on, and so does the process that waits; nothing is assumed of the
\* command and of what it leaves behind.
TimeoutFairness ==
  /\ WF_timeoutVars(Deadline) /\ WF_timeoutVars(PollChild) /\ WF_timeoutVars(CheckClock)
  /\ WF_timeoutVars(WaitChild) /\ WF_timeoutVars(JoinReaders)

TimeoutSpec == TimeoutInit /\ [][TimeoutNext]_timeoutVars /\ TimeoutFairness

----------------------------------------------------------------------------
\* A step with a timeout ends, however its command behaves: "the whole process group is
\* killed" (sandbox/mod.rs:817), and what it left behind cannot hold the step up.  The one
\* exception is a process out of the deadline's reach: of a command that ended in time,
\* after which the clock is not looked at any more, or in a group of its own.
TimeoutReturns ==
  timed ~> \/ tpc = "returned"
           \/ tpc = "join" /\ alive # {} /\ (timedOut => alive \subseteq escaped)
=============================================================================
