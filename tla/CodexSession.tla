---------------------------- MODULE CodexSession ----------------------------
(***************************************************************************)
(* CodexAppServerClient: one session with a codex app server, from the     *)
(* start of its process to the destructor, by several threads at a time.   *)
(*                                                                         *)
(* A session reads the profile or the limits of an account, or runs one    *)
(* prompt, with the deltas collected or handed to a consumer.  Requests    *)
(* carry ids, answers are matched by them, and every other message that    *)
(* arrives while an answer is awaited is dropped.  The prompt is the one   *)
(* message that may be larger than a pipe.                                 *)
(*                                                                         *)
(* The app server is not part of the repository.  It is taken to answer    *)
(* each request, to end each turn and to obey SIGTERM unless it dies       *)
(* first; it may answer with errors, send notifications of other turns,    *)
(* requests of its own and lines that are not JSON, and it may report on a *)
(* turn before it has answered the request that started it.                *)
(***************************************************************************)
EXTENDS ChildProcess

CONSTANTS
  Workloads,    \* what the sessions do, and how much happens around them
  PromptSize,   \* how many writes turn/start takes
  MaxDeltas     \* bound on the deltas of a turn

Job == {"none", "read", "prompt", "stream"}

ASSUME CodexSessionAssumption ==
  /\ Workloads \subseteq [job : [Session -> Job], tools : Nat, noise : Nat]
  /\ PromptSize \in Nat \ {0}
  /\ MaxDeltas \in Nat

VARIABLES
  job,       \* what the session does, if it is needed at all
  step,      \* the message of its script it is at
  phase,     \* "sending" it, "awaiting" its answer, or in the "turn"
  written,   \* how much of it has been written
  text,      \* the deltas received, by number
  outcome,   \* what the call returned
  owed,      \* the requests the app server has read and not answered
  turn,      \* the turn in the app server: "none", "running" or "over"
  told,      \* how many deltas of it the app server has written
  early,     \* how many of them before it answered turn/start
  missed,    \* the end of the turn came before that answer
  noise      \* how many messages it may still write that concern nobody

caller  == <<job, step, phase, written, text, outcome>>
server  == <<owed, turn, told, early, missed, noise>>
vars    == <<process, caller, server>>

Outcome == {"none", "ok", "cancelled", "refused", "closed", "failed"}

\* n is the id of a request or an answer, or the number of a delta.
Message ==
  [kind : {"result", "refusal", "ask", "delta", "completed", "failed",
           "other", "garbage"}, n : Nat]

Request == [kind : {"initialize", "initialized", "read", "thread", "part", "turn"}, n : Nat]

TypeOK ==
  /\ stage \in [Session -> Stage]
  /\ fds \in [Process -> SUBSET (Session \X PipeEnd)]
  /\ child \in [Session -> {"none", "running", "zombie", "reaped"}]
  /\ signalled \in [Session -> BOOLEAN]
  /\ toChild \in [Session -> Seq(Request)]
  /\ fromChild \in [Session -> Seq(Message)]
  /\ tools \in Nat
  /\ job \in [Session -> Job]
  /\ step \in [Session -> 1 .. 4]
  /\ phase \in [Session -> {"sending", "awaiting", "turn"}]
  /\ written \in [Session -> Nat]
  /\ text \in [Session -> Seq(Nat)]
  /\ outcome \in [Session -> Outcome]
  /\ owed \in [Session -> SUBSET Nat]
  /\ turn \in [Session -> {"none", "running", "over"}]
  /\ told \in [Session -> Nat]
  /\ early \in [Session -> Nat]
  /\ missed \in [Session -> BOOLEAN]
  /\ noise \in [Session -> Nat]

Init ==
  /\ ProcessInit
  /\ \E w \in Workloads :
       /\ job = w.job
       /\ tools = w.tools
       /\ noise = [s \in Session |-> w.noise]
  /\ step = [s \in Session |-> 1]
  /\ phase = [s \in Session |-> "sending"]
  /\ written = [s \in Session |-> 0]
  /\ text = [s \in Session |-> <<>>]
  /\ outcome = [s \in Session |-> "none"]
  /\ owed = [s \in Session |-> {}]
  /\ turn = [s \in Session |-> "none"]
  /\ told = [s \in Session |-> 0]
  /\ early = [s \in Session |-> 0]
  /\ missed = [s \in Session |-> FALSE]

\* The messages of the session, in order.
Script(s) ==
  IF job[s] = "read" THEN <<"initialize", "initialized", "read">>
                     ELSE <<"initialize", "initialized", "thread", "turn">>

Now(s) == Script(s)[step[s]]

Size(s) == IF Now(s) = "turn" THEN PromptSize ELSE 1

\* nextRequestId_ counts the requests; "initialized" is none.
RequestId(s) == IF step[s] = 1 THEN 1 ELSE step[s] - 1

\* An exception or a return: the client goes out of scope.
Leave(s, o) ==
  /\ outcome' = [outcome EXCEPT ![s] = o]
  /\ Enter(s, "closing")

\* The constructor has thrown: there is nothing to destroy.
Thrown(s) == outcome' = [outcome EXCEPT ![s] = "failed"]

Speak(s, kind, n) ==
  fromChild' = [fromChild EXCEPT ![s] = Append(@, [kind |-> kind, n |-> n])]

-----------------------------------------------------------------------------
(* The client is constructed and destroyed.                                *)

\* The runtime may be missing, or a system call fail.
ConstructorThrows(s) ==
  /\ FirstPipeFails(s) \/ SecondPipeFails(s) \/ ForkFails(s) \/ StreamsFail(s)
  /\ Thrown(s)
  /\ UNCHANGED <<job, step, phase, written, text, server>>

Construct(s) ==
  /\ FirstPipe(s) \/ SecondPipe(s) \/ Fork(s) \/ OpenStreams(s)
  /\ UNCHANGED <<caller, server>>

Destroy(s) ==
  /\ CloseInput(s) \/ CloseOutput(s) \/ TimedOut(s) \/ Reap(s)
  /\ UNCHANGED <<caller, server>>

-----------------------------------------------------------------------------
(* request and notify.                                                     *)

Send(s) ==
  /\ phase[s] = "sending"
  /\ LET whole == written[s] + 1 = Size(s)
         kind  == IF whole THEN Now(s) ELSE "part"
     IN  /\ Writes(s, [kind |-> kind, n |-> RequestId(s)])
         /\ written' = [written EXCEPT ![s] = IF whole THEN 0 ELSE @ + 1]
         /\ phase' = [phase EXCEPT ![s] = IF whole /\ Now(s) # "initialized"
                                          THEN "awaiting" ELSE @]
         /\ step' = [step EXCEPT ![s] = IF Now(s) = "initialized" THEN @ + 1 ELSE @]
  /\ UNCHANGED <<job, text, outcome, server>>

SendFails(s) ==
  /\ phase[s] = "sending"
  /\ InputBroken(s)
  /\ Leave(s, "closed")
  /\ UNCHANGED <<fds, child, signalled, toChild, fromChild, tools,
                 job, step, phase, written, text, server>>

\* Slip: the end of the output is taken for an empty line.
Closed_Ignored(s) ==
  /\ phase[s] # "sending"
  /\ AtEof(s)
  /\ UNCHANGED vars

\* readMessage finds the end of the output.
Closed(s) ==
  /\ phase[s] # "sending"
  /\ AtEof(s)
  /\ Leave(s, "closed")
  /\ UNCHANGED <<fds, child, signalled, toChild, fromChild, tools,
                 job, step, phase, written, text, server>>

Garbled(s) ==
  /\ phase[s] # "sending"
  /\ Reads(s)
  /\ Head(fromChild[s]).kind = "garbage"
  /\ Leave(s, "refused")
  /\ UNCHANGED <<fds, child, signalled, toChild, tools,
                 job, step, phase, written, text, server>>

\* The message carries the id that is awaited.
Answers(s, m) ==
  m.kind \in {"result", "refusal", "ask"} /\ m.n = RequestId(s)

\* readResponse drops what is not the answer.
Dropped(s) ==
  /\ phase[s] = "awaiting"
  /\ Reads(s)
  /\ LET m == Head(fromChild[s]) IN ~ Answers(s, m) /\ m.kind # "garbage"
  /\ UNCHANGED <<stage, fds, child, signalled, toChild, tools, caller, server>>

\* Slip: every result moves on to the next message.
Proceeds_Past(s) ==
  /\ step' = [step EXCEPT ![s] = @ + 1]
  /\ \/ Now(s) = "read" /\ Leave(s, "ok") /\ UNCHANGED phase
     \/ /\ Now(s) # "read"
        /\ phase' = [phase EXCEPT ![s] = IF Now(s) = "turn" THEN "turn" ELSE "sending"]
        /\ UNCHANGED <<stage, outcome>>

\* The last result ends a read, that of turn/start begins the turn.
Proceeds(s) ==
  \/ /\ Now(s) = "read"
     /\ Leave(s, "ok")
     /\ UNCHANGED <<phase, step>>
  \/ /\ Now(s) = "turn"
     /\ phase' = [phase EXCEPT ![s] = "turn"]
     /\ UNCHANGED <<step, stage, outcome>>
  \/ /\ Now(s) \in {"initialize", "thread"}
     /\ phase' = [phase EXCEPT ![s] = "sending"]
     /\ step' = [step EXCEPT ![s] = @ + 1]
     /\ UNCHANGED <<stage, outcome>>

\* An error, or an answer without a result of the shape that is needed, throws.
Answered(s) ==
  /\ phase[s] = "awaiting"
  /\ Reads(s)
  /\ Answers(s, Head(fromChild[s]))
  /\ IF Head(fromChild[s]).kind = "result"
     THEN Proceeds(s)
     ELSE Leave(s, "refused") /\ UNCHANGED <<phase, step>>
  /\ UNCHANGED <<fds, child, signalled, toChild, tools, job, written, text, server>>

-----------------------------------------------------------------------------
(* The turn.                                                               *)

AtTurn(s, kind) ==
  /\ phase[s] = "turn"
  /\ Reads(s)
  /\ Head(fromChild[s]).kind = kind
  /\ UNCHANGED <<fds, child, signalled, toChild, tools, job, step, phase, written, server>>

\* Slip: deltas of every turn are taken.
Delta_AnyTurn(s) ==
  /\ AtTurn(s, "delta")
  /\ text' = [text EXCEPT ![s] = Append(@, Head(fromChild[s]).n)]
  /\ \/ UNCHANGED <<stage, outcome>>
     \/ job[s] = "stream" /\ Leave(s, "cancelled")

\* A delta of this turn is added to the text before the consumer is asked,
\* which may refuse it.  Those of other turns have number 0.
Delta(s) ==
  /\ AtTurn(s, "delta")
  /\ LET n == Head(fromChild[s]).n
     IN  \/ n = 0 /\ UNCHANGED <<text, stage, outcome>>
         \/ /\ n # 0
            /\ text' = [text EXCEPT ![s] = Append(@, n)]
            /\ \/ UNCHANGED <<stage, outcome>>
               \/ job[s] = "stream" /\ Leave(s, "cancelled")

\* turn/completed of this turn, whatever its status says.
TurnCompleted(s) ==
  /\ \/ AtTurn(s, "completed") /\ Leave(s, "ok")
     \/ AtTurn(s, "failed") /\ Leave(s, "refused")
  /\ UNCHANGED text

\* Messages without a method, or with one the loop does not know.
Ignored(s) ==
  /\ \E kind \in {"result", "refusal", "ask", "other"} : AtTurn(s, kind)
  /\ UNCHANGED <<text, stage, outcome>>

-----------------------------------------------------------------------------
(* The app server.                                                         *)

Alive(s) == child[s] = "running"

\* There is room in its output, which somebody can still read.
CanSpeak(s) ==
  /\ Alive(s)
  /\ Held(s, "stdoutRead")
  /\ Len(fromChild[s]) < Capacity

ServerReads(s) ==
  /\ Alive(s)
  /\ toChild[s] # <<>>
  /\ LET m == Head(toChild[s])
     IN  /\ owed' = [owed EXCEPT ![s] = IF m.kind \in {"initialized", "part"}
                                        THEN @ ELSE @ \cup {m.n}]
         /\ turn' = [turn EXCEPT ![s] = IF m.kind = "turn" THEN "running" ELSE @]
  /\ toChild' = [toChild EXCEPT ![s] = Tail(@)]
  /\ UNCHANGED <<stage, fds, child, signalled, fromChild, tools, caller,
                 told, early, missed, noise>>

\* A turn whose request is refused does not run.
ServerAnswers(s) ==
  /\ CanSpeak(s)
  /\ \E id \in owed[s] :
       /\ owed' = [owed EXCEPT ![s] = @ \ {id}]
       /\ \/ Speak(s, "result", id) /\ UNCHANGED turn
          \/ /\ Speak(s, "refusal", id)
             /\ turn' = [turn EXCEPT ![s] = IF id = 3 THEN "over" ELSE @]
  /\ UNCHANGED <<stage, fds, child, signalled, toChild, tools, caller,
                 told, early, missed, noise>>

\* turn/start has been read and not answered.
TurnUnanswered(s) == 3 \in owed[s]

ServerDelta(s) ==
  /\ CanSpeak(s)
  /\ turn[s] = "running" /\ told[s] < MaxDeltas
  /\ told' = [told EXCEPT ![s] = @ + 1]
  /\ early' = [early EXCEPT ![s] = IF TurnUnanswered(s) THEN @ + 1 ELSE @]
  /\ Speak(s, "delta", told[s] + 1)
  /\ UNCHANGED <<stage, fds, child, signalled, toChild, tools, caller,
                 owed, turn, missed, noise>>

ServerEndsTurn(s) ==
  /\ CanSpeak(s)
  /\ turn[s] = "running"
  /\ turn' = [turn EXCEPT ![s] = "over"]
  /\ missed' = [missed EXCEPT ![s] = TurnUnanswered(s)]
  /\ \E kind \in {"completed", "failed"} : Speak(s, kind, 0)
  /\ UNCHANGED <<stage, fds, child, signalled, toChild, tools, caller,
                 owed, told, early, noise>>

ServerNoise(s) ==
  /\ CanSpeak(s)
  /\ noise[s] > 0
  /\ noise' = [noise EXCEPT ![s] = @ - 1]
  /\ \/ \E kind \in {"delta", "other", "garbage"} : Speak(s, kind, 0)
     \/ \E id \in 1 .. 3 : Speak(s, "ask", id)
  /\ UNCHANGED <<stage, fds, child, signalled, toChild, tools, caller,
                 owed, turn, told, early, missed>>

ServerExits(s) ==
  /\ Dismissed(s)
  /\ ChildGone(s)
  /\ UNCHANGED <<caller, server>>

ServerCrashes(s) ==
  /\ ChildGone(s)
  /\ UNCHANGED <<caller, server>>

-----------------------------------------------------------------------------

Begin(s) ==
  /\ job[s] # "none"
  /\ stage[s] = "absent"
  /\ Construct(s) \/ ConstructorThrows(s)

Client(s) ==
  \/ stage[s] # "absent" /\ (Construct(s) \/ ConstructorThrows(s))
  \/ Send(s) \/ SendFails(s) \/ Closed(s) \/ Garbled(s) \/ Dropped(s) \/ Answered(s)
  \/ Delta(s) \/ TurnCompleted(s) \/ Ignored(s)
  \/ Destroy(s)

AppServer(s) ==
  \/ ServerReads(s) \/ ServerAnswers(s) \/ ServerDelta(s) \/ ServerEndsTurn(s)
  \/ ServerNoise(s) \/ ServerExits(s) \/ ServerCrashes(s)

Command == (ToolStarts \/ ToolExits) /\ UNCHANGED <<caller, server>>

Next ==
  \/ \E s \in Session : Begin(s) \/ Client(s) \/ AppServer(s)
  \/ Command

Spec == Init /\ [][Next]_vars

\* Threads are scheduled.  The app server reads, answers, ends its turns and
\* obeys, and a command comes to an end; nothing in the code bounds any of these.
Fairness ==
  /\ \A s \in Session :
       /\ WF_vars(Client(s))
       /\ WF_vars(ServerReads(s)) /\ WF_vars(ServerAnswers(s))
       /\ WF_vars(ServerEndsTurn(s)) /\ WF_vars(ServerExits(s))
  /\ WF_vars(ToolExits /\ UNCHANGED <<caller, server>>)

FairSpec == Spec /\ Fairness

-----------------------------------------------------------------------------
(* Properties.                                                             *)

\* A session that is over has reaped its child and closed its descriptors,
\* whichever call failed on the way.
NothingLeft ==
  \A s \in Session : stage[s] = "gone" =>
    /\ child[s] \in {"none", "reaped"}
    /\ \A end \in PipeEnd : <<s, end>> \notin fds[Router]

\* "Codex app-server closed unexpectedly", and a failed write, are reported of a
\* child that has exited, whatever descriptors other processes hold.
ClosedIsDead ==
  \A s \in Session : outcome[s] = "closed" => child[s] \in {"zombie", "reaped"}

\* The text of a turn has no hole and nothing of another turn in it: it is what
\* the app server said after its answer to turn/start, and all of that when the
\* call succeeds.
TextIsWhole ==
  \A s \in Session :
    /\ text[s] = [i \in 1 .. Len(text[s]) |-> early[s] + i]
    /\ outcome[s] = "ok" => early[s] + Len(text[s]) = told[s]

\* The end of a turn came before the answer to turn/start and was dropped.
Hangs(s) == missed[s] /\ stage[s] = "open"

\* Every session that was begun comes to its end at last and its child is
\* reaped, though other processes hold ends of its pipes; unless the end of its
\* turn was dropped before the answer to turn/start, or the child of a session
\* that hangs for this reason holds an end of its pipes.
SessionEnds ==
  \A s \in Session :
    <>[](\/ stage[s] \in {"absent", "gone"}
         \/ Hangs(s)
         \/ \E u \in Session : Hangs(u) /\ \E end \in PipeEnd : <<s, end>> \in fds[u])

=============================================================================
