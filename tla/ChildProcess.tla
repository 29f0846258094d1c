---------------------------- MODULE ChildProcess ----------------------------
(***************************************************************************)
(* DuplexProcess on POSIX: pipes, fork, the descriptors every process      *)
(* holds, and the destructor that reaps the child.                         *)
(*                                                                         *)
(* The threads of the router share one descriptor table, and the pipes are *)
(* not marked close-on-exec: a child inherits the ends of every other      *)
(* session that are open when it is forked.  So do the commands that other *)
(* threads start with system and popen; they are the process Tool.         *)
(*                                                                         *)
(* Each operation is an action on the variables of this module.  The user  *)
(* of a DuplexProcess (CodexSession) composes them with its own.  The two  *)
(* closes after a fork are one step, and what a child does between fork    *)
(* and exec belongs to the fork.  SIGPIPE is ignored, as httplib::Server,  *)
(* a member of the API server, leaves it: a broken pipe is an error.       *)
(***************************************************************************)
EXTENDS Integers, Sequences

CONSTANTS
  Session,    \* the threads that use a child
  Router,     \* the process they belong to
  Tool,       \* a command some other thread runs
  Capacity    \* how many messages a pipe holds

ASSUME ChildProcessAssumption ==
  /\ Router \notin Session
  /\ Tool \notin Session
  /\ Router # Tool
  /\ Capacity \in Nat \ {0}

VARIABLES
  stage,      \* where the constructor or the destructor of each session is
  fds,        \* the pipe ends each process holds
  child,      \* the state of each child
  signalled,  \* SIGTERM has been sent to it
  toChild, fromChild,   \* the contents of the two pipes
  tools       \* how many commands are still to be run

process == <<stage, fds, child, signalled, toChild, fromChild, tools>>

PipeEnd == {"stdinRead", "stdinWrite", "stdoutRead", "stdoutWrite"}

Process == Session \cup {Router, Tool}

Stage == {"absent", "onePipe", "twoPipes", "forked", "open", "aborting",
          "closing", "draining", "waiting", "terminated", "gone"}

\* A descriptor is open in some process.
Held(s, end) == \E p \in Process : <<s, end>> \in fds[p]

ProcessInit ==
  /\ stage = [s \in Session |-> "absent"]
  /\ fds = [p \in Process |-> {}]
  /\ child = [s \in Session |-> "none"]
  /\ signalled = [s \in Session |-> FALSE]
  /\ toChild = [s \in Session |-> <<>>]
  /\ fromChild = [s \in Session |-> <<>>]

Enter(s, next) == stage' = [stage EXCEPT ![s] = next]

Opens(s, ends)  == fds' = [fds EXCEPT ![Router] = @ \cup ({s} \X ends)]
Closes(s, ends) == fds' = [fds EXCEPT ![Router] = @ \ ({s} \X ends)]

-----------------------------------------------------------------------------
(* The constructor.                                                        *)

NoChild == UNCHANGED <<child, signalled, toChild, fromChild, tools>>

FirstPipe(s) ==
  /\ stage[s] = "absent"
  /\ Opens(s, {"stdinRead", "stdinWrite"})
  /\ Enter(s, "onePipe")
  /\ NoChild

FirstPipeFails(s) ==
  /\ stage[s] = "absent"
  /\ Enter(s, "gone")
  /\ UNCHANGED fds /\ NoChild

SecondPipe(s) ==
  /\ stage[s] = "onePipe"
  /\ Opens(s, {"stdoutRead", "stdoutWrite"})
  /\ Enter(s, "twoPipes")
  /\ NoChild

\* Slip: the first pipe is left open.
SecondPipeFails_Leaks(s) ==
  /\ stage[s] = "onePipe"
  /\ Enter(s, "gone")
  /\ UNCHANGED fds /\ NoChild

SecondPipeFails(s) ==
  /\ stage[s] = "onePipe"
  /\ Closes(s, {"stdinRead", "stdinWrite"})
  /\ Enter(s, "gone")
  /\ NoChild

\* Slip: the end the child writes to is closed with the others.
Fork_NoOutput(s) ==
  /\ stage[s] = "twoPipes"
  /\ fds' = [fds EXCEPT ![s] = fds[Router] \ ({s} \X (PipeEnd \ {"stdinRead"}))]
  /\ child' = [child EXCEPT ![s] = "running"]
  /\ Enter(s, "forked")
  /\ UNCHANGED <<signalled, toChild, fromChild, tools>>

\* The child keeps its own ends of its pipes, and everything else it inherits.
Fork(s) ==
  /\ stage[s] = "twoPipes"
  /\ fds' = [fds EXCEPT ![s] = fds[Router] \ ({s} \X {"stdinWrite", "stdoutRead"})]
  /\ child' = [child EXCEPT ![s] = "running"]
  /\ Enter(s, "forked")
  /\ UNCHANGED <<signalled, toChild, fromChild, tools>>

ForkFails(s) ==
  /\ stage[s] = "twoPipes"
  /\ Closes(s, PipeEnd)
  /\ Enter(s, "gone")
  /\ NoChild

\* The parent closes the ends of the child and wraps its own in streams.
OpenStreams(s) ==
  /\ stage[s] = "forked"
  /\ Closes(s, {"stdinRead", "stdoutWrite"})
  /\ Enter(s, "open")
  /\ NoChild

\* Otherwise it closes them too and kills the child before it throws.
StreamsFail(s) ==
  /\ stage[s] = "forked"
  /\ Closes(s, PipeEnd)
  /\ signalled' = [signalled EXCEPT ![s] = TRUE]
  /\ Enter(s, "aborting")
  /\ UNCHANGED <<child, toChild, fromChild, tools>>

-----------------------------------------------------------------------------
(* writeLine and readLine.                                                 *)

Writes(s, m) ==
  /\ stage[s] = "open"
  /\ Held(s, "stdinRead")
  /\ Len(toChild[s]) < Capacity
  /\ toChild' = [toChild EXCEPT ![s] = Append(@, m)]
  /\ UNCHANGED <<stage, fds, child, signalled, fromChild, tools>>

\* The write fails with EPIPE.
InputBroken(s) == stage[s] = "open" /\ ~ Held(s, "stdinRead")

Reads(s) ==
  /\ stage[s] = "open"
  /\ fromChild[s] # <<>>
  /\ fromChild' = [fromChild EXCEPT ![s] = Tail(@)]

AtEof(s) == stage[s] = "open" /\ fromChild[s] = <<>> /\ ~ Held(s, "stdoutWrite")

-----------------------------------------------------------------------------
(* The destructor.                                                         *)

CloseInput(s) ==
  /\ stage[s] = "closing"
  /\ Closes(s, {"stdinWrite"})
  /\ Enter(s, "draining")
  /\ NoChild

CloseOutput(s) ==
  /\ stage[s] = "draining"
  /\ Closes(s, {"stdoutRead"})
  /\ Enter(s, "waiting")
  /\ NoChild

\* waitpid finds the child: within the 300 ms, or after the signal.
Reap(s) ==
  /\ stage[s] \in {"waiting", "terminated", "aborting"}
  /\ child[s] = "zombie"
  /\ child' = [child EXCEPT ![s] = "reaped"]
  /\ Enter(s, "gone")
  /\ UNCHANGED <<fds, signalled, toChild, fromChild, tools>>

\* Slip: after the signal the child is not waited for.
TimedOut_NoWait(s) ==
  /\ stage[s] = "waiting"
  /\ child[s] = "running"
  /\ signalled' = [signalled EXCEPT ![s] = TRUE]
  /\ Enter(s, "gone")
  /\ UNCHANGED <<fds, child, toChild, fromChild, tools>>

TimedOut(s) ==
  /\ stage[s] = "waiting"
  /\ child[s] = "running"
  /\ signalled' = [signalled EXCEPT ![s] = TRUE]
  /\ Enter(s, "terminated")
  /\ UNCHANGED <<fds, child, toChild, fromChild, tools>>

-----------------------------------------------------------------------------
(* The child and the commands.                                             *)

ChildGone(s) ==
  /\ child[s] = "running"
  /\ child' = [child EXCEPT ![s] = "zombie"]
  /\ fds' = [fds EXCEPT ![s] = {}]
  /\ UNCHANGED <<stage, signalled, toChild, fromChild, tools>>

\* At the end of its input and at SIGTERM the child exits.
Dismissed(s) ==
  \/ signalled[s]
  \/ toChild[s] = <<>> /\ ~ Held(s, "stdinWrite")

ToolStarts ==
  /\ tools > 0
  /\ fds[Tool] = {} /\ fds[Router] # {}
  /\ fds' = [fds EXCEPT ![Tool] = fds[Router]]
  /\ tools' = tools - 1
  /\ UNCHANGED <<stage, child, signalled, toChild, fromChild>>

ToolExits ==
  /\ fds[Tool] # {}
  /\ fds' = [fds EXCEPT ![Tool] = {}]
  /\ UNCHANGED <<stage, child, signalled, toChild, fromChild, tools>>

=============================================================================
