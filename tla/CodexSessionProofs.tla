------------------------- MODULE CodexSessionProofs -------------------------
(***************************************************************************)
(* Theorems about CodexSession, for every number of sessions and commands, *)
(* every size of pipe and prompt, and without a bound on what an app       *)
(* server says: type correctness, that a session leaves neither a child    *)
(* nor a descriptor behind and takes no living child for a dead one, and   *)
(* that the text of a turn is whole.                                       *)
(***************************************************************************)
EXTENDS CodexSession, TLAPS

(***************************************************************************)
(* What the router holds of a session's pipes, and what has become of the  *)
(* child, follow from the stage of the constructor or destructor.          *)
(***************************************************************************)

EndsAt(st) ==
  CASE st = "onePipe"              -> {"stdinRead", "stdinWrite"}
    [] st \in {"twoPipes", "forked"} -> PipeEnd
    [] st \in {"open", "closing"}  -> {"stdinWrite", "stdoutRead"}
    [] st = "draining"             -> {"stdoutRead"}
    [] OTHER                       -> {}

ChildAt(st) ==
  CASE st \in {"absent", "onePipe", "twoPipes"} -> {"none"}
    [] st = "gone"                              -> {"none", "reaped"}
    [] OTHER                                    -> {"running", "zombie"}

RouterHolds(s) ==
  \A end \in PipeEnd : <<s, end>> \in fds[Router] <=> end \in EndsAt(stage[s])

ChildKnown(s) == child[s] \in ChildAt(stage[s])

\* A living child keeps its ends of its pipes.
ChildHolds(s) ==
  child[s] = "running" => {<<s, "stdinRead">>, <<s, "stdoutWrite">>} \subseteq fds[s]

ClosedKnown(s) == outcome[s] = "closed" => child[s] \in {"zombie", "reaped"}

SessionOK(s) == RouterHolds(s) /\ ChildKnown(s) /\ ChildHolds(s) /\ ClosedKnown(s)

Inv == TypeOK /\ \A s \in Session : SessionOK(s)

-----------------------------------------------------------------------------
(* Type correctness.                                                       *)

LEMMA InitOK == Init => Inv
<1> USE ChildProcessAssumption, CodexSessionAssumption
<1>1. Init => TypeOK
  <2> SUFFICES ASSUME Init PROVE TypeOK
    OBVIOUS
  <2>1. PICK w \in Workloads :
          job = w.job /\ tools = w.tools /\ noise = [s \in Session |-> w.noise]
    BY DEF Init
  <2>2. w.job \in [Session -> Job] /\ w.tools \in Nat /\ w.noise \in Nat
    BY <2>1
  <2> QED BY <2>1, <2>2 DEF Init, ProcessInit, TypeOK, Process, Stage, Outcome
<1>2. ASSUME Init, NEW s \in Session PROVE SessionOK(s)
  BY <1>2 DEF Init, ProcessInit, SessionOK, RouterHolds, ChildKnown, ChildHolds,
              ClosedKnown, EndsAt, ChildAt, Process, PipeEnd
<1> QED BY <1>1, <1>2 DEF Inv

\* The changes of the operations of a process keep the types.
LEMMA ClosesType ==
  ASSUME TypeOK, NEW s \in Session, NEW ends \in SUBSET PipeEnd,
         Closes(s, ends) \/ Opens(s, ends)
  PROVE  fds' \in [Process -> SUBSET (Session \X PipeEnd)]
BY DEF TypeOK, Closes, Opens, Process

LEMMA EntersType ==
  ASSUME TypeOK, NEW s \in Session, NEW st \in Stage, Enter(s, st)
  PROVE  stage' \in [Session -> Stage]
BY DEF TypeOK, Enter

LEMMA ConstructType ==
  ASSUME TypeOK, NEW s \in Session, Construct(s) \/ ConstructorThrows(s) \/ Destroy(s)
  PROVE  TypeOK'
<1> USE DEF PipeEnd, NoChild, Stage, Outcome
<1>1. CASE Construct(s)
  <2>1. CASE FirstPipe(s)
    BY <1>1, <2>1, ClosesType, EntersType DEF FirstPipe, Construct, TypeOK, caller, server
  <2>2. CASE SecondPipe(s)
    BY <1>1, <2>2, ClosesType, EntersType DEF SecondPipe, Construct, TypeOK, caller, server
  <2>3. CASE Fork(s)
    BY <1>1, <2>3, EntersType DEF Fork, Construct, TypeOK, caller, server, Process
  <2>4. CASE OpenStreams(s)
    BY <1>1, <2>4, ClosesType, EntersType DEF OpenStreams, Construct, TypeOK, caller, server
  <2> QED BY <1>1, <2>1, <2>2, <2>3, <2>4 DEF Construct
<1>2. CASE ConstructorThrows(s)
  <2>0. outcome' \in [Session -> Outcome]
    BY <1>2 DEF ConstructorThrows, Thrown, TypeOK
  <2>1. CASE FirstPipeFails(s)
    BY <1>2, <2>0, <2>1, EntersType DEF FirstPipeFails, ConstructorThrows, TypeOK, server
  <2>2. CASE SecondPipeFails(s)
    BY <1>2, <2>0, <2>2, ClosesType, EntersType
    DEF SecondPipeFails, ConstructorThrows, TypeOK, server
  <2>3. CASE ForkFails(s)
    BY <1>2, <2>0, <2>3, ClosesType, EntersType
    DEF ForkFails, ConstructorThrows, TypeOK, server
  <2>4. CASE StreamsFail(s)
    BY <1>2, <2>0, <2>4, ClosesType, EntersType
    DEF StreamsFail, ConstructorThrows, TypeOK, server
  <2> QED BY <1>2, <2>1, <2>2, <2>3, <2>4 DEF ConstructorThrows
<1>3. CASE Destroy(s)
  <2>1. CASE CloseInput(s)
    BY <1>3, <2>1, ClosesType, EntersType DEF CloseInput, Destroy, TypeOK, caller, server
  <2>2. CASE CloseOutput(s)
    BY <1>3, <2>2, ClosesType, EntersType DEF CloseOutput, Destroy, TypeOK, caller, server
  <2>3. CASE TimedOut(s)
    BY <1>3, <2>3, EntersType DEF TimedOut, Destroy, TypeOK, caller, server
  <2>4. CASE Reap(s)
    BY <1>3, <2>4, EntersType DEF Reap, Destroy, TypeOK, caller, server
  <2> QED BY <1>3, <2>1, <2>2, <2>3, <2>4 DEF Destroy
<1> QED BY <1>1, <1>2, <1>3

LEMMA LeaveType ==
  ASSUME TypeOK, NEW s \in Session, NEW o \in Outcome, Leave(s, o)
  PROVE  stage' \in [Session -> Stage] /\ outcome' \in [Session -> Outcome]
BY EntersType DEF TypeOK, Leave, Stage

LEMMA ReadsType ==
  ASSUME TypeOK, NEW s \in Session, Reads(s)
  PROVE  fromChild' \in [Session -> Seq(Message)] /\ Head(fromChild[s]) \in Message
BY DEF TypeOK, Reads

\* A session that reads has no fourth message.
StepKnown(s) == job[s] = "read" => step[s] # 4

LEMMA ScriptKnown ==
  ASSUME TypeOK, NEW s \in Session, StepKnown(s)
  PROVE  /\ RequestId(s) \in Nat
         /\ Now(s) = CASE step[s] = 1 -> "initialize"
                       [] step[s] = 2 -> "initialized"
                       [] step[s] = 3 -> IF job[s] = "read" THEN "read" ELSE "thread"
                       [] OTHER       -> "turn"
<1>1. step[s] \in {1, 2, 3, 4}
  BY DEF TypeOK
<1>2. CASE job[s] = "read"
  BY <1>1, <1>2 DEF StepKnown, RequestId, Now, Script
<1>3. CASE job[s] # "read"
  BY <1>1, <1>3 DEF RequestId, Now, Script
<1> QED BY <1>2, <1>3

LEMMA SendType ==
  ASSUME TypeOK, NEW s \in Session, StepKnown(s), Send(s)
  PROVE  TypeOK' /\ StepKnown(s)'
<1> DEFINE whole == written[s] + 1 = Size(s)
           m == [kind |-> IF whole THEN Now(s) ELSE "part", n |-> RequestId(s)]
<1>0. step[s] \in 1 .. 4
  BY DEF TypeOK
<1>1. m \in Request
  BY <1>0, ScriptKnown DEF Request
<1>2. toChild' \in [Session -> Seq(Request)]
  BY <1>1 DEF Send, Writes, TypeOK
<1>3. Now(s) = "initialized" <=> step[s] = 2
  BY <1>0, ScriptKnown
<1>4. step' \in [Session -> 1 .. 4] /\ step'[s] = (IF step[s] = 2 THEN 3 ELSE step[s])
  BY <1>3 DEF Send, TypeOK
<1>5. phase' \in [Session -> {"sending", "awaiting", "turn"}]
  BY DEF Send, TypeOK
<1>6. written' \in [Session -> Nat]
  BY DEF Send, TypeOK
<1>7. StepKnown(s)'
  BY <1>0, <1>4 DEF Send, StepKnown
<1> QED BY <1>2, <1>4, <1>5, <1>6, <1>7 DEF Send, Writes, TypeOK, server

LEMMA AnsweredType ==
  ASSUME TypeOK, NEW s \in Session, StepKnown(s), Answered(s)
  PROVE  TypeOK' /\ StepKnown(s)'
<1>0. step[s] \in 1 .. 4
  BY DEF TypeOK
<1>1. fromChild' \in [Session -> Seq(Message)]
  BY ReadsType DEF Answered
<1>2. stage' \in [Session -> Stage] /\ outcome' \in [Session -> Outcome]
  BY LeaveType DEF Answered, Proceeds, Outcome, TypeOK
<1>3. phase' \in [Session -> {"sending", "awaiting", "turn"}]
  <2>1. phase' \in {phase, [phase EXCEPT ![s] = "turn"], [phase EXCEPT ![s] = "sending"]}
    BY DEF Answered, Proceeds
  <2> QED BY <2>1 DEF TypeOK
<1>4. /\ step' \in [Session -> 1 .. 4]
      /\ step'[s] = step[s] \/ (step'[s] = step[s] + 1 /\ Now(s) \in {"initialize", "thread"})
  <2>1. \/ step' = step
        \/ step' = [step EXCEPT ![s] = @ + 1] /\ Now(s) \in {"initialize", "thread"}
    BY DEF Answered, Proceeds
  <2>2. Now(s) \in {"initialize", "thread"} => step[s] # 4
    BY <1>0, ScriptKnown
  <2>3. CASE step' = step
    BY <2>3 DEF TypeOK
  <2>4. CASE step' # step
    <3>1. step[s] \in 1 .. 4 /\ step[s] # 4
      BY <2>1, <2>2, <2>4 DEF TypeOK
    <3>2. step[s] + 1 \in 1 .. 4
      BY <3>1
    <3>3. step' = [step EXCEPT ![s] = step[s] + 1]
      BY <2>1, <2>4
    <3>4. step'[s] = step[s] + 1
      BY <3>3 DEF TypeOK
    <3>5. step' \in [Session -> 1 .. 4]
      BY <3>2, <3>3 DEF TypeOK
    <3> QED BY <2>1, <2>4, <3>4, <3>5
  <2> QED BY <2>3, <2>4
<1>5. StepKnown(s)'
  BY <1>0, <1>4, ScriptKnown DEF StepKnown, Answered, Proceeds
<1> QED BY <1>1, <1>2, <1>3, <1>4, <1>5 DEF Answered, TypeOK, server

LEMMA ClientType ==
  ASSUME TypeOK, NEW s \in Session, StepKnown(s), Client(s) \/ Begin(s)
  PROVE  TypeOK' /\ StepKnown(s)'
<1>1. CASE Construct(s) \/ ConstructorThrows(s) \/ Destroy(s)
  BY <1>1, ConstructType
  DEF StepKnown, Construct, ConstructorThrows, Destroy, caller
<1>2. CASE Send(s)
  BY <1>2, SendType
<1>3. CASE Answered(s)
  BY <1>3, AnsweredType
<1>4. CASE SendFails(s) \/ Closed(s)
  BY <1>4, LeaveType DEF SendFails, Closed, Outcome, TypeOK, server, StepKnown
<1>5. CASE Garbled(s)
  BY <1>5, LeaveType, ReadsType DEF Garbled, Outcome, TypeOK, server, StepKnown
<1>6. CASE Dropped(s)
  BY <1>6, ReadsType DEF Dropped, TypeOK, caller, server, StepKnown
<1>7. CASE Delta(s)
  <2>1. Head(fromChild[s]) \in Message /\ fromChild' \in [Session -> Seq(Message)]
    BY <1>7, ReadsType DEF Delta, AtTurn
  <2>2. text' \in [Session -> Seq(Nat)]
    <3>1. \/ text' = text
          \/ text' = [text EXCEPT ![s] = Append(@, Head(fromChild[s]).n)]
      BY <1>7 DEF Delta
    <3>2. Head(fromChild[s]).n \in Nat
      BY <2>1 DEF Message
    <3>3. Append(text[s], Head(fromChild[s]).n) \in Seq(Nat)
      BY <3>2 DEF TypeOK
    <3> QED BY <3>1, <3>3 DEF TypeOK
  <2>3. stage' \in [Session -> Stage] /\ outcome' \in [Session -> Outcome]
    BY <1>7, LeaveType DEF Delta, Outcome, TypeOK
  <2> QED BY <1>7, <2>1, <2>2, <2>3 DEF Delta, AtTurn, TypeOK, server, StepKnown
<1>8. CASE TurnCompleted(s)
  <2>1. fromChild' \in [Session -> Seq(Message)]
    BY <1>8, ReadsType DEF TurnCompleted, AtTurn
  <2>2. stage' \in [Session -> Stage] /\ outcome' \in [Session -> Outcome]
    BY <1>8, LeaveType DEF TurnCompleted, Outcome
  <2> QED BY <1>8, <2>1, <2>2 DEF TurnCompleted, AtTurn, TypeOK, server, StepKnown
<1>9. CASE Ignored(s)
  BY <1>9, ReadsType DEF Ignored, AtTurn, TypeOK, server, StepKnown
<1> QED BY <1>1, <1>2, <1>3, <1>4, <1>5, <1>6, <1>7, <1>8, <1>9 DEF Client, Begin

\* Something is said in room there is.
LEMMA SpeakType ==
  ASSUME TypeOK, NEW s \in Session, NEW n \in Nat, NEW kind,
         [kind |-> kind, n |-> n] \in Message, Speak(s, kind, n)
  PROVE  fromChild' \in [Session -> Seq(Message)]
BY DEF TypeOK, Speak

LEMMA ServerType ==
  ASSUME TypeOK, NEW s \in Session, AppServer(s)
  PROVE  TypeOK' /\ UNCHANGED caller
<1>1. CASE ServerReads(s)
  <2>1. Head(toChild[s]) \in Request /\ toChild' \in [Session -> Seq(Request)]
    BY <1>1 DEF ServerReads, TypeOK
  <2>2. owed' \in [Session -> SUBSET Nat] /\ turn' \in [Session -> {"none", "running", "over"}]
    BY <1>1, <2>1 DEF ServerReads, TypeOK, Request
  <2> QED BY <1>1, <2>1, <2>2 DEF ServerReads, TypeOK, caller
<1>2. CASE ServerAnswers(s)
  <2>1. fromChild' \in [Session -> Seq(Message)]
    BY <1>2, SpeakType DEF ServerAnswers, Message, TypeOK
  <2>2. owed' \in [Session -> SUBSET Nat] /\ turn' \in [Session -> {"none", "running", "over"}]
    <3>1. PICK id : owed' = [owed EXCEPT ![s] = @ \ {id}]
      BY <1>2 DEF ServerAnswers
    <3>2. \/ turn' = turn
          \/ \E n \in owed[s] : turn' = [turn EXCEPT ![s] = IF n = 3 THEN "over" ELSE @]
      BY <1>2 DEF ServerAnswers
    <3> QED BY <3>1, <3>2 DEF TypeOK
  <2> QED BY <1>2, <2>1, <2>2 DEF ServerAnswers, TypeOK, caller
<1>3. CASE ServerDelta(s)
  <2>1. fromChild' \in [Session -> Seq(Message)]
    BY <1>3, SpeakType DEF ServerDelta, Message, TypeOK
  <2>2. told' \in [Session -> Nat] /\ early' \in [Session -> Nat]
    BY <1>3 DEF ServerDelta, TypeOK
  <2> QED BY <1>3, <2>1, <2>2 DEF ServerDelta, TypeOK, caller
<1>4. CASE ServerEndsTurn(s)
  <2>1. fromChild' \in [Session -> Seq(Message)]
    BY <1>4, SpeakType DEF ServerEndsTurn, Message
  <2>2. TurnUnanswered(s) \in BOOLEAN
    BY DEF TurnUnanswered
  <2>3. missed' \in [Session -> BOOLEAN]
    BY <1>4, <2>2 DEF ServerEndsTurn, TypeOK
  <2>4. turn' \in [Session -> {"none", "running", "over"}]
    BY <1>4 DEF ServerEndsTurn, TypeOK
  <2> QED BY <1>4, <2>1, <2>3, <2>4 DEF ServerEndsTurn, TypeOK, caller
<1>5. CASE ServerNoise(s)
  <2>1. fromChild' \in [Session -> Seq(Message)]
    BY <1>5, SpeakType DEF ServerNoise, Message
  <2>2. noise' \in [Session -> Nat]
    BY <1>5 DEF ServerNoise, TypeOK
  <2> QED BY <1>5, <2>1, <2>2 DEF ServerNoise, TypeOK, caller
<1>6. CASE ServerExits(s) \/ ServerCrashes(s)
  BY <1>6 DEF ServerExits, ServerCrashes, ChildGone, TypeOK, caller, server, Process
<1> QED BY <1>1, <1>2, <1>3, <1>4, <1>5, <1>6 DEF AppServer, ServerReads

-----------------------------------------------------------------------------
(* The descriptors.                                                        *)

\* The invariant of a session speaks of these only.
Unmoved(s) ==
  /\ stage'[s] = stage[s] /\ child'[s] = child[s] /\ outcome'[s] = outcome[s]
  /\ fds'[s] = fds[s]
  /\ \A end \in PipeEnd : <<s, end>> \in fds'[Router] <=> <<s, end>> \in fds[Router]

LEMMA UnmovedOK ==
  ASSUME NEW s \in Session, SessionOK(s), Unmoved(s)
  PROVE  SessionOK(s)'
BY DEF Unmoved, SessionOK, RouterHolds, ChildKnown, ChildHolds, ClosedKnown

\* A session that only reads and writes, and perhaps leaves its scope.
LEMMA LeavingOK ==
  ASSUME TypeOK, NEW s \in Session, SessionOK(s), stage[s] = "open",
         UNCHANGED <<fds, child>>,
         \/ UNCHANGED <<stage, outcome>>
         \/ \E o \in Outcome : Leave(s, o) /\ (o = "closed" => child[s] # "running")
  PROVE  SessionOK(s)'
BY DEF SessionOK, RouterHolds, ChildKnown, ChildHolds, ClosedKnown, EndsAt, ChildAt,
       TypeOK, Leave, Enter, Stage

\* The constructor and the destructor of session s.
LEMMA StagesOK ==
  ASSUME TypeOK, NEW s \in Session, SessionOK(s),
         Construct(s) \/ ConstructorThrows(s) \/ Destroy(s)
  PROVE  SessionOK(s)'
<1> USE DEF SessionOK, RouterHolds, ChildKnown, ChildHolds, ClosedKnown, EndsAt, ChildAt,
            TypeOK, Enter, Stage, PipeEnd, NoChild
<1>1. Router \in Process /\ s \in Process /\ Router # s
  BY ChildProcessAssumption DEF Process
<1>2. CASE Construct(s)
  <2>1. CASE FirstPipe(s)
    BY <1>1, <1>2, <2>1 DEF FirstPipe, Opens, Construct, caller
  <2>2. CASE SecondPipe(s)
    BY <1>1, <1>2, <2>2 DEF SecondPipe, Opens, Construct, caller
  <2>3. CASE Fork(s)
    BY <1>1, <1>2, <2>3 DEF Fork, Construct, caller
  <2>4. CASE OpenStreams(s)
    BY <1>1, <1>2, <2>4 DEF OpenStreams, Closes, Construct, caller
  <2> QED BY <1>2, <2>1, <2>2, <2>3, <2>4 DEF Construct
<1>3. CASE ConstructorThrows(s)
  <2>1. CASE FirstPipeFails(s)
    BY <1>1, <1>3, <2>1 DEF FirstPipeFails, ConstructorThrows, Thrown
  <2>2. CASE SecondPipeFails(s)
    BY <1>1, <1>3, <2>2 DEF SecondPipeFails, Closes, ConstructorThrows, Thrown
  <2>3. CASE ForkFails(s)
    BY <1>1, <1>3, <2>3 DEF ForkFails, Closes, ConstructorThrows, Thrown
  <2>4. CASE StreamsFail(s)
    BY <1>1, <1>3, <2>4 DEF StreamsFail, Closes, ConstructorThrows, Thrown
  <2> QED BY <1>3, <2>1, <2>2, <2>3, <2>4 DEF ConstructorThrows
<1>4. CASE Destroy(s)
  <2>1. CASE CloseInput(s)
    BY <1>1, <1>4, <2>1 DEF CloseInput, Closes, Destroy, caller
  <2>2. CASE CloseOutput(s)
    BY <1>1, <1>4, <2>2 DEF CloseOutput, Closes, Destroy, caller
  <2>3. CASE TimedOut(s)
    BY <1>1, <1>4, <2>3 DEF TimedOut, Destroy, caller
  <2>4. CASE Reap(s)
    BY <1>1, <1>4, <2>4 DEF Reap, Destroy, caller
  <2> QED BY <1>4, <2>1, <2>2, <2>3, <2>4 DEF Destroy
<1> QED BY <1>2, <1>3, <1>4

\* What session s does in these stages is nothing to another.
LEMMA StagesOther ==
  ASSUME TypeOK, NEW s \in Session, NEW t \in Session, t # s,
         Construct(s) \/ ConstructorThrows(s) \/ Destroy(s)
  PROVE  Unmoved(t)
<1> USE DEF Unmoved, TypeOK, Enter, NoChild
<1>1. Router \in Process /\ s \in Process /\ t \in Process /\ Router # s /\ Router # t
  BY ChildProcessAssumption DEF Process
<1>2. CASE Construct(s)
  <2>1. CASE FirstPipe(s)
    BY <1>1, <1>2, <2>1 DEF FirstPipe, Opens, Construct, caller
  <2>2. CASE SecondPipe(s)
    BY <1>1, <1>2, <2>2 DEF SecondPipe, Opens, Construct, caller
  <2>3. CASE OpenStreams(s)
    BY <1>1, <1>2, <2>3 DEF OpenStreams, Closes, Construct, caller
  <2>4. CASE Fork(s)
    BY <1>1, <1>2, <2>4 DEF Fork, Construct, caller
  <2> QED BY <1>2, <2>1, <2>2, <2>3, <2>4 DEF Construct
<1>3. CASE ConstructorThrows(s)
  <2>1. CASE FirstPipeFails(s)
    BY <1>1, <1>3, <2>1 DEF FirstPipeFails, ConstructorThrows, Thrown
  <2>2. CASE SecondPipeFails(s)
    BY <1>1, <1>3, <2>2 DEF SecondPipeFails, Closes, ConstructorThrows, Thrown
  <2>3. CASE ForkFails(s)
    BY <1>1, <1>3, <2>3 DEF ForkFails, Closes, ConstructorThrows, Thrown
  <2>4. CASE StreamsFail(s)
    BY <1>1, <1>3, <2>4 DEF StreamsFail, Closes, ConstructorThrows, Thrown
  <2> QED BY <1>3, <2>1, <2>2, <2>3, <2>4 DEF ConstructorThrows
<1>4. CASE Destroy(s)
  <2>1. CASE CloseInput(s) \/ CloseOutput(s)
    BY <1>1, <1>4, <2>1 DEF CloseInput, CloseOutput, Closes, Destroy, caller
  <2>2. CASE TimedOut(s) \/ Reap(s)
    BY <1>1, <1>4, <2>2 DEF TimedOut, Reap, Destroy, caller
  <2> QED BY <1>4, <2>1, <2>2 DEF Destroy
<1> QED BY <1>2, <1>3, <1>4

\* A client step is a stage step, or it happens while the process is open.
LEMMA ClientSteps ==
  ASSUME TypeOK, NEW s \in Session, Client(s) \/ Begin(s)
  PROVE  \/ Construct(s) \/ ConstructorThrows(s) \/ Destroy(s)
         \/ /\ stage[s] = "open"
            /\ UNCHANGED <<fds, child>>
            /\ \/ UNCHANGED <<stage, outcome>>
               \/ \E o \in Outcome \ {"closed"} : Leave(s, o)
               \/ Leave(s, "closed")
                  /\ (~ Held(s, "stdinRead") \/ ~ Held(s, "stdoutWrite"))
<1>1. CASE Send(s)
  BY <1>1 DEF Send, Writes
<1>2. CASE SendFails(s) \/ Closed(s)
  BY <1>2 DEF SendFails, InputBroken, Closed, AtEof
<1>3. CASE Garbled(s) \/ Dropped(s)
  BY <1>3 DEF Garbled, Dropped, Reads, caller, Outcome
<1>4. CASE Answered(s)
  BY <1>4 DEF Answered, Proceeds, Reads, Outcome
<1>5. CASE Delta(s)
  BY <1>5 DEF Delta, AtTurn, Reads, Outcome
<1>6. CASE TurnCompleted(s) \/ Ignored(s)
  BY <1>6 DEF TurnCompleted, Ignored, AtTurn, Reads, Outcome
<1> QED BY <1>1, <1>2, <1>3, <1>4, <1>5, <1>6 DEF Client, Begin

LEMMA ClientOK ==
  ASSUME TypeOK, NEW s \in Session, Client(s) \/ Begin(s),
         NEW t \in Session, SessionOK(t)
  PROVE  SessionOK(t)'
<1>1. CASE Construct(s) \/ ConstructorThrows(s) \/ Destroy(s)
  BY <1>1, StagesOK, StagesOther, UnmovedOK
<1>2. CASE ~ (Construct(s) \/ ConstructorThrows(s) \/ Destroy(s)) /\ t = s
  <2>1. ASSUME ~ Held(s, "stdinRead") \/ ~ Held(s, "stdoutWrite") PROVE child[s] # "running"
    BY <1>2, <2>1 DEF Held, SessionOK, ChildHolds, Process
  <2>2. "closed" \in Outcome
    BY DEF Outcome
  <2> QED BY <1>2, <2>1, <2>2, ClientSteps, LeavingOK
<1>3. CASE ~ (Construct(s) \/ ConstructorThrows(s) \/ Destroy(s)) /\ t # s
  <2>1. /\ UNCHANGED <<fds, child>>
        /\ UNCHANGED <<stage, outcome>> \/ \E o \in Outcome : Leave(s, o)
    BY <1>3, ClientSteps DEF Outcome
  <2>2. stage'[t] = stage[t] /\ outcome'[t] = outcome[t]
    BY <1>3, <2>1 DEF Leave, Enter, TypeOK
  <2>3. Unmoved(t)
    BY <2>1, <2>2 DEF Unmoved
  <2> QED BY <2>3, UnmovedOK
<1> QED BY <1>1, <1>2, <1>3

\* The app server does not touch the stages, and loses its descriptors when it dies.
LEMMA ServerOK ==
  ASSUME TypeOK, NEW s \in Session, AppServer(s), NEW t \in Session, SessionOK(t)
  PROVE  SessionOK(t)'
<1>1. Router \in Process /\ Router # s /\ s \in Process /\ t \in Process
  BY ChildProcessAssumption DEF Process
<1>2. CASE ServerExits(s) \/ ServerCrashes(s)
  BY <1>1, <1>2
  DEF ServerExits, ServerCrashes, ChildGone, caller, TypeOK, SessionOK, RouterHolds,
      ChildKnown, ChildHolds, ClosedKnown, ChildAt
<1>3. CASE ~ (ServerExits(s) \/ ServerCrashes(s))
  <2>1. Unmoved(t)
    BY <1>3 DEF AppServer, ServerReads, ServerAnswers, ServerDelta, ServerEndsTurn,
                ServerNoise, caller, Unmoved
  <2> QED BY <2>1, UnmovedOK
<1> QED BY <1>2, <1>3

LEMMA CommandType ==
  ASSUME TypeOK, Command
  PROVE  /\ TypeOK'
         /\ fds' \in {[fds EXCEPT ![Tool] = fds[Router]], [fds EXCEPT ![Tool] = {}]}
         /\ UNCHANGED <<stage, child, caller>>
<1>1. Tool \in Process /\ Router \in Process
  BY DEF Process
<1>2. /\ fds' \in {[fds EXCEPT ![Tool] = fds[Router]], [fds EXCEPT ![Tool] = {}]}
      /\ UNCHANGED <<stage, child, signalled, toChild, fromChild, caller, server>>
  BY DEF Command, ToolStarts, ToolExits
<1>3. fds' \in [Process -> SUBSET (Session \X PipeEnd)]
  BY <1>1, <1>2 DEF TypeOK
<1>4. tools' \in Nat
  <2>1. CASE ToolStarts
    BY <2>1 DEF ToolStarts, TypeOK
  <2>2. CASE ToolExits
    BY <2>2 DEF ToolExits, TypeOK
  <2> QED BY <2>1, <2>2 DEF Command
<1> QED BY <1>2, <1>3, <1>4 DEF TypeOK, caller, server

LEMMA CommandOK ==
  ASSUME TypeOK, Command, NEW t \in Session, SessionOK(t)
  PROVE  SessionOK(t)'
<1>1. Tool \in Process /\ Router \in Process /\ Tool # Router /\ Tool # t /\ t \in Process
  BY ChildProcessAssumption DEF Process
<1>2. fds'[t] = fds[t] /\ fds'[Router] = fds[Router]
  <2>1. CASE fds' = [fds EXCEPT ![Tool] = fds[Router]]
    BY <1>1, <2>1 DEF TypeOK
  <2>2. CASE fds' = [fds EXCEPT ![Tool] = {}]
    BY <1>1, <2>2 DEF TypeOK
  <2> QED BY <2>1, <2>2, CommandType
<1>3. Unmoved(t)
  BY <1>2, CommandType DEF caller, Unmoved
<1> QED BY <1>3, UnmovedOK

-----------------------------------------------------------------------------
(* The theorems.                                                           *)

IInv == Inv /\ \A s \in Session : StepKnown(s)

LEMMA IInvNext ==
  ASSUME IInv, [Next]_vars
  PROVE  IInv'
<1> USE DEF IInv, Inv
<1>1. ASSUME NEW s \in Session, Client(s) \/ Begin(s) PROVE IInv'
  <2>1. TypeOK' /\ StepKnown(s)'
    BY <1>1, ClientType
  <2>2. ASSUME NEW t \in Session, t # s PROVE StepKnown(t)'
    BY <1>1, <2>2
    DEF Client, Begin, Construct, ConstructorThrows, Destroy, Send, SendFails, Closed,
        Garbled, Dropped, Answered, Proceeds, Delta, TurnCompleted, Ignored, AtTurn, caller,
        StepKnown, TypeOK
  <2> QED BY <1>1, <2>1, <2>2, ClientOK
<1>2. ASSUME NEW s \in Session, AppServer(s) PROVE IInv'
  BY <1>2, ServerType, ServerOK DEF caller, StepKnown
<1>3. ASSUME Command PROVE IInv'
  BY <1>3, CommandType, CommandOK DEF caller, StepKnown
<1>4. ASSUME UNCHANGED vars PROVE IInv'
  BY <1>4 DEF vars, process, caller, server, TypeOK, SessionOK, RouterHolds, ChildKnown,
              ChildHolds, ClosedKnown, StepKnown
<1> QED BY <1>1, <1>2, <1>3, <1>4 DEF Next

THEOREM SessionInvariance == Spec => []IInv
<1>1. Init => IInv
  BY InitOK DEF IInv, Init, StepKnown
<1> QED BY <1>1, IInvNext, PTL DEF Spec

\* The variables keep their types.
THEOREM SessionTypeCorrect == Spec => []TypeOK
BY SessionInvariance, PTL DEF IInv, Inv

\* However a session ends, and whichever system call failed on the way, its child
\* has been reaped and the router holds no end of its pipes.
THEOREM LeavesNothing == Spec => []NothingLeft
<1>1. IInv => NothingLeft
  BY DEF IInv, Inv, SessionOK, RouterHolds, ChildKnown, EndsAt, ChildAt, NothingLeft
<1> QED BY <1>1, SessionInvariance, PTL

\* The end of the output, and a broken input, are found only of a child that has
\* exited, in whatever order threads fork and close.
THEOREM ClosedMeansDead == Spec => []ClosedIsDead
<1>1. IInv => ClosedIsDead
  BY DEF IInv, Inv, SessionOK, ClosedKnown, ClosedIsDead
<1> QED BY <1>1, SessionInvariance, PTL

-----------------------------------------------------------------------------
(* The text of a turn.  The request for it is on its way to the app server *)
(* at most once, its result on the way back at most once, and the deltas   *)
(* behind that result are the ones the text still lacks, in their order.   *)

\* A delta of the turn of the session: those of other turns have number 0.
Own(q, i) == q[i].kind = "delta" /\ q[i].n # 0

\* The deltas behind the first r messages.
Rest(q, r) == {q[i].n : i \in {j \in DOMAIN q : r < j /\ Own(q, j)}}

\* The answers to turn/start, which has id 3, and the ends of the turn.
Results(q) == {i \in DOMAIN q : q[i].kind = "result" /\ q[i].n = 3}
Ends(q)    == {i \in DOMAIN q : q[i].kind \in {"completed", "failed"}}

Ascending(q) == \A i, j \in DOMAIN q : i < j /\ Own(q, i) /\ Own(q, j) => q[i].n < q[j].n
EndIsLast(q) == \A i \in Ends(q), j \in DOMAIN q : i < j => ~ Own(q, j)

\* The whole turn/start has been sent.
Asked(s) == step[s] = 4 /\ phase[s] # "sending"

Starts(s) == {i \in DOMAIN toChild[s] : toChild[s][i].kind = "turn"}

\* The app server has not answered turn/start, and perhaps not even read it.
Unanswered(s) == TurnUnanswered(s) \/ turn[s] = "none"

RequestsOK(s) ==
  /\ \A i \in DOMAIN toChild[s] :
       /\ toChild[s][i].n = 3 => toChild[s][i].kind \in {"part", "turn"}
       /\ toChild[s][i].kind = "turn" => toChild[s][i].n = 3
  /\ \A i, j \in Starts(s) : i = j
  /\ Starts(s) # {} => turn[s] = "none" /\ Asked(s)
  /\ TurnUnanswered(s) => turn[s] # "none"
  /\ turn[s] # "none" => Asked(s)

SpeechOK(s) ==
  /\ Ascending(fromChild[s]) /\ EndIsLast(fromChild[s])
  /\ Rest(fromChild[s], 0) \subseteq 1 .. told[s]
  /\ Ends(fromChild[s]) # {} => turn[s] = "over"

AnswerOK(s) ==
  /\ \A i, j \in Results(fromChild[s]) : i = j
  /\ \A r \in Results(fromChild[s]) : Rest(fromChild[s], r) = early[s] + 1 .. told[s]
  /\ Unanswered(s) =>
       told[s] = early[s] /\ Results(fromChild[s]) = {} /\ phase[s] # "turn"
  /\ phase[s] = "turn" =>
       /\ Results(fromChild[s]) = {}
       /\ Rest(fromChild[s], 0) = early[s] + Len(text[s]) + 1 .. told[s]

TextKnown(s) ==
  /\ \A i \in 1 .. Len(text[s]) : text[s][i] = early[s] + i
  /\ early[s] + Len(text[s]) <= told[s]
  /\ phase[s] # "turn" => Len(text[s]) = 0

Left == {"closing", "draining", "waiting", "terminated", "gone"}

\* After a success nothing is asked or said any more.
SuccessKnown(s) ==
  outcome[s] = "ok" =>
    /\ stage[s] \in Left /\ turn[s] # "running" /\ Starts(s) = {}
    /\ early[s] + Len(text[s]) = told[s]

TextOK(s) == RequestsOK(s) /\ SpeechOK(s) /\ AnswerOK(s) /\ TextKnown(s) /\ SuccessKnown(s)


\* What one more message changes.
LEMMA Spoken ==
  ASSUME NEW q \in Seq(Message), NEW m \in Message, NEW t, t = Append(q, m)
  PROVE  /\ t \in Seq(Message) /\ Len(t) = Len(q) + 1
         /\ Results(q) \subseteq 1 .. Len(q)
         /\ Results(t) = Results(q) \cup
              (IF m.kind = "result" /\ m.n = 3 THEN {Len(q) + 1} ELSE {})
         /\ Ends(t) # {} => Ends(q) # {} \/ m.kind \in {"completed", "failed"}
         /\ Rest(t, Len(q) + 1) = {}
<1>1. /\ t \in Seq(Message) /\ Len(t) = Len(q) + 1 /\ Len(q) \in Nat
      /\ DOMAIN t = 1 .. Len(q) + 1 /\ DOMAIN q = 1 .. Len(q)
      /\ \A i \in 1 .. Len(q) : t[i] = q[i]
      /\ t[Len(q) + 1] = m
  OBVIOUS
<1> DEFINE n == Len(q)
<1> HIDE DEF n
<1>2. /\ n \in Nat /\ DOMAIN t = 1 .. n + 1 /\ DOMAIN q = 1 .. n
      /\ \A i \in 1 .. n : t[i] = q[i]
      /\ t[n + 1] = m
  BY <1>1 DEF n
<1>3. 1 .. n + 1 = 1 .. n \cup {n + 1} /\ n + 1 \notin 1 .. n
  BY <1>2
<1>4. /\ Results(q) \subseteq 1 .. n
      /\ Results(t) = Results(q) \cup (IF m.kind = "result" /\ m.n = 3 THEN {n + 1} ELSE {})
  BY <1>2, <1>3 DEF Results
<1>5. Ends(t) # {} => Ends(q) # {} \/ m.kind \in {"completed", "failed"}
  BY <1>2, <1>3 DEF Ends
<1>6. Rest(t, n + 1) = {}
  BY <1>2 DEF Rest
<1> QED BY <1>1, <1>4, <1>5, <1>6 DEF n

\* What one more message adds to the deltas behind those that are there.
LEMMA SpokenRest ==
  ASSUME NEW q \in Seq(Message), NEW m \in Message, NEW r \in 0 .. Len(q)
  PROVE  /\ m.kind = "delta" /\ m.n # 0 =>
              \A k : k \in Rest(Append(q, m), r) <=> k \in Rest(q, r) \/ k = m.n
         /\ ~ (m.kind = "delta" /\ m.n # 0) => Rest(Append(q, m), r) = Rest(q, r)
<1> DEFINE n == Len(q)
           t == Append(q, m)
           T == {j \in DOMAIN t : r < j /\ Own(t, j)}
           Q == {j \in DOMAIN q : r < j /\ Own(q, j)}
<1>1. /\ n \in Nat /\ DOMAIN t = 1 .. n + 1 /\ DOMAIN q = 1 .. n
      /\ \A i \in 1 .. n : t[i] = q[i]
      /\ t[n + 1] = m /\ r \in 0 .. n
  OBVIOUS
<1> HIDE DEF n, t
<1>2. 1 .. n + 1 = 1 .. n \cup {n + 1} /\ n + 1 \notin 1 .. n /\ r < n + 1
  BY <1>1
<1>3. T = Q \cup (IF m.kind = "delta" /\ m.n # 0 THEN {n + 1} ELSE {})
  BY <1>1, <1>2 DEF Own
<1>4. \A i \in Q : t[i] = q[i]
  BY <1>1
<1>5. Rest(t, r) = {t[i].n : i \in T} /\ Rest(q, r) = {q[i].n : i \in Q}
  BY DEF Rest
<1> HIDE DEF T, Q
<1>6. {t[i].n : i \in Q} = {q[i].n : i \in Q}
  BY <1>4
<1>7. ASSUME m.kind = "delta" /\ m.n # 0
      PROVE  \A k : k \in Rest(t, r) <=> k \in Rest(q, r) \/ k = m.n
  <2>1. T = Q \cup {n + 1}
    BY <1>3, <1>7
  <2>2. {t[i].n : i \in T} = {t[i].n : i \in Q} \cup {t[n + 1].n}
    BY <2>1
  <2> QED BY <1>1, <1>5, <1>6, <1>7, <2>2
<1>8. ASSUME ~ (m.kind = "delta" /\ m.n # 0)
      PROVE  Rest(t, r) = Rest(q, r)
  BY <1>3, <1>5, <1>6, <1>8
<1> QED BY <1>7, <1>8 DEF t

\* The order of what is said, with one more message.
LEMMA SpokenInOrder ==
  ASSUME NEW q \in Seq(Message), NEW m \in Message, NEW t, t = Append(q, m),
         Ascending(q), EndIsLast(q),
         m.kind = "delta" /\ m.n # 0 => Ends(q) = {} /\ \A k \in Rest(q, 0) : k < m.n
  PROVE  Ascending(t) /\ EndIsLast(t)
<1> DEFINE n == Len(q)
<1>1. /\ n \in Nat /\ DOMAIN t = 1 .. n + 1 /\ DOMAIN q = 1 .. n
      /\ \A i \in 1 .. n : t[i] = q[i]
      /\ t[n + 1] = m
  OBVIOUS
<1> HIDE DEF n
<1>2. ASSUME NEW i \in DOMAIN t, NEW j \in DOMAIN t, i < j PROVE i \in DOMAIN q /\ t[i] = q[i]
  BY <1>1, <1>2
<1>3. ASSUME NEW i \in DOMAIN q, Own(q, i) PROVE q[i].n \in Rest(q, 0)
  BY <1>1, <1>3 DEF Rest
<1>4. Ascending(t)
  <2> SUFFICES ASSUME NEW i \in DOMAIN t, NEW j \in DOMAIN t, i < j, Own(t, i), Own(t, j)
               PROVE  t[i].n < t[j].n
    BY DEF Ascending
  <2>1. i \in DOMAIN q /\ t[i] = q[i] /\ Own(q, i)
    BY <1>2 DEF Own
  <2>2. CASE j \in DOMAIN q
    BY <1>1, <2>1, <2>2 DEF Ascending, Own
  <2>3. CASE j \notin DOMAIN q
    <3>1. j = n + 1 /\ t[j] = m
      BY <1>1, <2>3
    <3> QED BY <1>3, <2>1, <3>1 DEF Own
  <2> QED BY <2>2, <2>3
<1>5. EndIsLast(t)
  <2> SUFFICES ASSUME NEW i \in Ends(t), NEW j \in DOMAIN t, i < j, Own(t, j)
               PROVE  FALSE
    BY DEF EndIsLast
  <2>1. i \in Ends(q)
    BY <1>2 DEF Ends
  <2>2. CASE j \in DOMAIN q
    BY <1>1, <2>1, <2>2 DEF EndIsLast, Own
  <2>3. CASE j \notin DOMAIN q
    <3>1. j = n + 1 /\ t[j] = m
      BY <1>1, <2>3
    <3> QED BY <2>1, <3>1 DEF Own
  <2> QED BY <2>2, <2>3
<1> QED BY <1>4, <1>5

\* What the loss of the first message changes.
LEMMA Heard ==
  ASSUME NEW q \in Seq(Message), q # <<>>, NEW t, t = Tail(q)
  PROVE  /\ t \in Seq(Message)
         /\ Results(t) = {r - 1 : r \in Results(q) \ {1}}
         /\ Ends(t) # {} => Ends(q) # {}
         /\ \A r \in Nat : Rest(t, r) = Rest(q, r + 1)
         /\ Ascending(q) => Ascending(t)
         /\ EndIsLast(q) => EndIsLast(t)
         /\ 1 \in DOMAIN q /\ Head(q) = q[1] /\ Results(q) \subseteq Nat \ {0}
<1> DEFINE n == Len(q)
<1>1. /\ t \in Seq(Message) /\ n \in Nat \ {0}
      /\ DOMAIN t = 1 .. n - 1 /\ DOMAIN q = 1 .. n
      /\ \A i \in 1 .. n - 1 : t[i] = q[i + 1]
      /\ Head(q) = q[1]
  OBVIOUS
<1> HIDE DEF n
<1>2. /\ \A i \in DOMAIN t : i + 1 \in DOMAIN q \ {1} /\ t[i] = q[i + 1] /\ i = (i + 1) - 1
                             /\ (Own(t, i) <=> Own(q, i + 1))
      /\ \A j \in DOMAIN q \ {1} : j - 1 \in DOMAIN t /\ j = (j - 1) + 1
  BY <1>1 DEF Own
<1>3. Results(t) = {r - 1 : r \in Results(q) \ {1}}
  <2>1. ASSUME NEW i \in Results(t) PROVE i + 1 \in Results(q) \ {1} /\ i = (i + 1) - 1
    BY <1>2 DEF Results
  <2>2. ASSUME NEW r \in Results(q) \ {1} PROVE r - 1 \in Results(t)
    <3>1. r \in DOMAIN q \ {1} /\ q[r].kind = "result" /\ q[r].n = 3
      BY DEF Results
    <3>2. r - 1 \in DOMAIN t /\ t[r - 1] = q[r]
      BY <1>2, <3>1
    <3> QED BY <3>1, <3>2 DEF Results
  <2> QED BY <2>1, <2>2
<1>4. Ends(t) # {} => Ends(q) # {}
  BY <1>2 DEF Ends
<1>5. ASSUME NEW r \in Nat PROVE Rest(t, r) = Rest(q, r + 1)
  <2> DEFINE T == {j \in DOMAIN t : r < j /\ Own(t, j)}
             Q == {j \in DOMAIN q : r + 1 < j /\ Own(q, j)}
  <2>1. \A i \in T : i + 1 \in Q /\ t[i].n = q[i + 1].n
    BY <1>1, <1>2
  <2>2. ASSUME NEW j \in Q PROVE j - 1 \in T /\ t[j - 1].n = q[j].n
    <3>1. j \in DOMAIN q /\ j # 1 /\ r < j - 1
      BY <1>1
    <3>2. j - 1 \in DOMAIN t /\ j = (j - 1) + 1
      BY <1>2, <3>1
    <3>3. t[j - 1] = q[j] /\ Own(t, j - 1)
      BY <1>2, <3>2 DEF Own
    <3> QED BY <3>1, <3>2, <3>3
  <2>3. Rest(t, r) = {t[i].n : i \in T} /\ Rest(q, r + 1) = {q[i].n : i \in Q}
    BY DEF Rest
  <2> HIDE DEF T, Q
  <2>4. {t[i].n : i \in T} \subseteq {q[i].n : i \in Q}
    BY <2>1
  <2>5. {q[i].n : i \in Q} \subseteq {t[i].n : i \in T}
    <3> SUFFICES ASSUME NEW j \in Q PROVE q[j].n \in {t[i].n : i \in T}
      OBVIOUS
    <3>1. PICK i \in T : t[i].n = q[j].n
      BY <2>2
    <3> QED BY <3>1
  <2> QED BY <2>3, <2>4, <2>5
<1>6. ASSUME Ascending(q) PROVE Ascending(t)
  <2> SUFFICES ASSUME NEW i \in DOMAIN t, NEW j \in DOMAIN t, i < j, Own(t, i), Own(t, j)
               PROVE  t[i].n < t[j].n
    BY DEF Ascending
  <2>1. i + 1 < j + 1
    BY <1>1
  <2> QED BY <1>2, <1>6, <2>1 DEF Ascending
<1>7. ASSUME EndIsLast(q) PROVE EndIsLast(t)
  <2> SUFFICES ASSUME NEW i \in Ends(t), NEW j \in DOMAIN t, i < j PROVE ~ Own(t, j)
    BY DEF EndIsLast
  <2>1. i \in DOMAIN t /\ i + 1 \in Ends(q)
    BY <1>2 DEF Ends
  <2>2. i + 1 < j + 1
    BY <1>1, <2>1
  <2> QED BY <1>2, <1>7, <2>1, <2>2 DEF EndIsLast
<1>8. 1 \in DOMAIN q /\ Results(q) \subseteq Nat \ {0}
  BY <1>1 DEF Results
<1> QED BY <1>1, <1>3, <1>4, <1>5, <1>6, <1>7, <1>8

\* The first message is the next delta, the end, or concerns no delta.
LEMMA HeardFirst ==
  ASSUME NEW q \in Seq(Message), q # <<>>, Ascending(q), EndIsLast(q)
  PROVE  /\ ~ Own(q, 1) => Rest(q, 1) = Rest(q, 0)
         /\ Own(q, 1) => Rest(q, 0) = Rest(q, 1) \cup {q[1].n} /\ \A k \in Rest(q, 1) : q[1].n < k
         /\ q[1].kind \in {"completed", "failed"} => Rest(q, 0) = {} /\ Ends(q) # {}
<1> DEFINE after == {j \in DOMAIN q : 1 < j /\ Own(q, j)}
           all   == {j \in DOMAIN q : 0 < j /\ Own(q, j)}
<1>1. DOMAIN q = 1 .. Len(q) /\ Len(q) \in Nat \ {0}
  OBVIOUS
<1>2. all = after \cup (IF Own(q, 1) THEN {1} ELSE {})
  BY <1>1
<1>3. Rest(q, 0) = {q[i].n : i \in all} /\ Rest(q, 1) = {q[i].n : i \in after}
  BY DEF Rest
<1>4. Own(q, 1) => \A j \in after : q[1].n < q[j].n
  BY <1>1 DEF Ascending
<1>5. q[1].kind \in {"completed", "failed"} => 1 \in Ends(q) /\ after = {} /\ ~ Own(q, 1)
  <2>1. q[1].kind \in {"completed", "failed"} => 1 \in Ends(q) /\ ~ Own(q, 1)
    BY <1>1 DEF Ends, Own
  <2> QED BY <2>1 DEF EndIsLast
<1> HIDE DEF after, all
<1> QED BY <1>2, <1>3, <1>4, <1>5


\* The text, and what is under way of it, stay as they are.
Kept(s) ==
  /\ toChild'[s] = toChild[s] /\ fromChild'[s] = fromChild[s]
  /\ step'[s] = step[s] /\ phase'[s] = phase[s] /\ text'[s] = text[s]
  /\ owed'[s] = owed[s] /\ turn'[s] = turn[s] /\ told'[s] = told[s] /\ early'[s] = early[s]
  /\ outcome'[s] = "ok" => outcome[s] = "ok"
  /\ stage[s] \in Left => stage'[s] \in Left

LEMMA KeptOK ==
  ASSUME NEW s \in Session, TextOK(s), Kept(s)
  PROVE  TextOK(s)'
<1>1. RequestsOK(s)'
  BY DEF TextOK, Kept, RequestsOK, Asked, Starts, TurnUnanswered
<1>2. SpeechOK(s)'
  BY DEF TextOK, Kept, SpeechOK
<1>3. AnswerOK(s)'
  BY DEF TextOK, Kept, AnswerOK, Unanswered, TurnUnanswered
<1>4. TextKnown(s)'
  BY DEF TextOK, Kept, TextKnown
<1>5. SuccessKnown(s)'
  BY DEF TextOK, Kept, SuccessKnown, Starts
<1> QED BY <1>1, <1>2, <1>3, <1>4, <1>5 DEF TextOK

\* What one session does is nothing to another.
LEMMA TextOther ==
  ASSUME TypeOK, NEW s \in Session, NEW t \in Session, t # s,
         Client(s) \/ Begin(s) \/ AppServer(s)
  PROVE  Kept(t)
<1> USE DEF Kept, TypeOK
<1>1. CASE Construct(s)
  BY <1>1 DEF Construct, FirstPipe, SecondPipe, Fork, OpenStreams, NoChild, Enter, caller, server
<1>2. CASE ConstructorThrows(s)
  BY <1>2 DEF ConstructorThrows, FirstPipeFails, SecondPipeFails, ForkFails, StreamsFail, NoChild,
              Enter, Thrown, server
<1>3. CASE Destroy(s)
  BY <1>3 DEF Destroy, CloseInput, CloseOutput, TimedOut, Reap, NoChild, Enter, caller, server
<1>4. CASE Send(s)
  BY <1>4 DEF Send, Writes, server
<1>5. CASE SendFails(s) \/ Closed(s) \/ Garbled(s)
  BY <1>5 DEF SendFails, Closed, Garbled, Reads, Leave, Enter, server
<1>6. CASE Dropped(s) \/ Answered(s)
  BY <1>6 DEF Dropped, Answered, Proceeds, Reads, Leave, Enter, caller, server
<1>7. CASE Delta(s) \/ TurnCompleted(s) \/ Ignored(s)
  BY <1>7 DEF Delta, TurnCompleted, Ignored, AtTurn, Reads, Leave, Enter, server
<1>8. CASE AppServer(s)
  <2>1. CASE ServerReads(s) \/ ServerAnswers(s)
    BY <2>1 DEF ServerReads, ServerAnswers, Speak, caller, server
  <2>2. CASE ServerDelta(s) \/ ServerEndsTurn(s) \/ ServerNoise(s)
    BY <2>2 DEF ServerDelta, ServerEndsTurn, ServerNoise, Speak, caller, server
  <2>3. CASE ServerExits(s) \/ ServerCrashes(s)
    BY <2>3 DEF ServerExits, ServerCrashes, ChildGone, caller, server
  <2> QED BY <1>8, <2>1, <2>2, <2>3 DEF AppServer
<1> QED BY <1>1, <1>2, <1>3, <1>4, <1>5, <1>6, <1>7, <1>8 DEF Client, Begin

\* The constructor and the destructor.
LEMMA TextStages ==
  ASSUME TypeOK, NEW s \in Session, Construct(s) \/ ConstructorThrows(s) \/ Destroy(s)
  PROVE  Kept(s)
<1> USE DEF Kept, TypeOK, Left, Enter
<1>1. CASE Construct(s)
  BY <1>1 DEF Construct, FirstPipe, SecondPipe, Fork, OpenStreams, NoChild, caller, server
<1>2. CASE ConstructorThrows(s)
  BY <1>2 DEF ConstructorThrows, FirstPipeFails, SecondPipeFails, ForkFails, StreamsFail, NoChild,
              Thrown, server, Outcome
<1>3. CASE Destroy(s)
  BY <1>3 DEF Destroy, CloseInput, CloseOutput, TimedOut, Reap, NoChild, caller, server
<1> QED BY <1>1, <1>2, <1>3

\* A call that ends without success.
LEMMA TextLeaves ==
  ASSUME TypeOK, NEW s \in Session, NEW o \in Outcome \ {"ok"}, Leave(s, o)
  PROVE  outcome'[s] # "ok" /\ outcome'[s] = o
BY DEF Leave, TypeOK

\* While the process is open there has been no success.
LEMMA OpenNoSuccess ==
  ASSUME NEW s \in Session, SuccessKnown(s), stage[s] = "open"
  PROVE  outcome[s] # "ok"
BY DEF SuccessKnown, Left

\* A message of the client is written.
LEMMA TextSend ==
  ASSUME TypeOK, NEW s \in Session, StepKnown(s), TextOK(s), Send(s)
  PROVE  TextOK(s)'
<1> DEFINE whole == written[s] + 1 = Size(s)
           m == [kind |-> IF whole THEN Now(s) ELSE "part", n |-> RequestId(s)]
           q == toChild[s]
           u == toChild'[s]
<1>1. /\ UNCHANGED <<fromChild, text, outcome, stage, owed, turn, told, early>>
      /\ phase[s] = "sending" /\ stage[s] = "open"
  BY DEF Send, Writes, server
<1>2. q \in Seq(Request) /\ u = Append(q, m)
  BY DEF Send, Writes, TypeOK
<1>3. /\ step[s] \in 1 .. 4
      /\ step'[s] = IF step[s] = 2 THEN 3 ELSE step[s]
      /\ phase'[s] = IF whole /\ step[s] # 2 THEN "awaiting" ELSE "sending"
  <2>1. step[s] \in 1 .. 4
    BY DEF TypeOK
  <2>2. Now(s) = "initialized" <=> step[s] = 2
    BY <2>1, ScriptKnown
  <2>3. step' = [step EXCEPT ![s] = IF Now(s) = "initialized" THEN @ + 1 ELSE @]
    BY DEF Send
  <2>4. phase' = [phase EXCEPT ![s] = IF whole /\ Now(s) # "initialized" THEN "awaiting" ELSE @]
    BY DEF Send
  <2>5. step'[s] = IF step[s] = 2 THEN 3 ELSE step[s]
    BY <2>1, <2>2, <2>3 DEF TypeOK
  <2>6. phase'[s] = IF whole /\ step[s] # 2 THEN "awaiting" ELSE "sending"
    BY <1>1, <2>2, <2>4 DEF TypeOK
  <2> QED BY <2>1, <2>5, <2>6
<1>4. /\ m.n = 3 <=> step[s] = 4
      /\ m.kind = "turn" <=> whole /\ step[s] = 4
      /\ m.n = 3 => m.kind \in {"part", "turn"}
  <2>1. m.n = RequestId(s) /\ m.kind = IF whole THEN Now(s) ELSE "part"
    OBVIOUS
  <2> HIDE DEF whole, m
  <2>2. m.n = 3 <=> step[s] = 4
    BY <1>3, <2>1 DEF RequestId
  <2>3. Now(s) = "turn" <=> step[s] = 4
    BY <1>3, ScriptKnown
  <2> QED BY <2>1, <2>2, <2>3
<1>5. /\ DOMAIN u = DOMAIN q \cup {Len(q) + 1} /\ Len(q) + 1 \notin DOMAIN q
      /\ \A i \in DOMAIN q : u[i] = q[i]
      /\ u[Len(q) + 1] = m
  BY <1>2
<1> HIDE DEF whole, m
<1>6. ~ Asked(s) /\ Starts(s) = {} /\ turn[s] = "none"
  BY <1>1 DEF Asked, TextOK, RequestsOK
<1>7. RequestsOK(s)'
  <2>1. \A i \in DOMAIN u : /\ u[i].n = 3 => u[i].kind \in {"part", "turn"}
                            /\ u[i].kind = "turn" => u[i].n = 3
    BY <1>4, <1>5 DEF TextOK, RequestsOK
  <2>2. Starts(s)' = IF whole /\ step[s] = 4 THEN {Len(q) + 1} ELSE {}
    <3>1. \A i \in DOMAIN q : q[i].kind # "turn"
      BY <1>6 DEF Starts
    <3>2. Starts(s)' = {i \in DOMAIN u : u[i].kind = "turn"}
      BY DEF Starts
    <3> HIDE DEF q, u
    <3> QED BY <1>4, <1>5, <3>1, <3>2
  <2>3. Starts(s)' # {} => Asked(s)'
    BY <1>3, <2>2 DEF Asked
  <2>4. \A i, j \in Starts(s)' : i = j
    BY <2>2
  <2>5. turn'[s] = "none" /\ ~ TurnUnanswered(s)'
    BY <1>1, <1>6 DEF TextOK, RequestsOK, TurnUnanswered
  <2> HIDE DEF q
  <2> QED BY <2>1, <2>3, <2>4, <2>5 DEF RequestsOK
<1>8. SpeechOK(s)'
  BY <1>1 DEF TextOK, SpeechOK
<1>9. AnswerOK(s)' /\ TextKnown(s)'
  BY <1>1, <1>3 DEF TextOK, AnswerOK, TextKnown, Unanswered, TurnUnanswered
<1>10. SuccessKnown(s)'
  BY <1>1, OpenNoSuccess DEF TextOK, SuccessKnown
<1> QED BY <1>7, <1>8, <1>9, <1>10 DEF TextOK


\* What a message that is read leaves in the pipe.
LEMMA Hearing ==
  ASSUME TypeOK, NEW s \in Session, Reads(s), SpeechOK(s), UNCHANGED <<told, turn>>
  PROVE  /\ SpeechOK(s)'
         /\ Results(fromChild'[s]) = {r - 1 : r \in Results(fromChild[s]) \ {1}}
         /\ \A r \in Nat : Rest(fromChild'[s], r) = Rest(fromChild[s], r + 1)
         /\ Results(fromChild[s]) \subseteq Nat \ {0}
         /\ Head(fromChild[s]) = fromChild[s][1] /\ 1 \in DOMAIN fromChild[s]
<1> DEFINE q == fromChild[s]
           t == fromChild'[s]
<1>1. q \in Seq(Message) /\ q # <<>> /\ t = Tail(q)
  BY DEF Reads, TypeOK
<1>2. Ascending(q) /\ EndIsLast(q) /\ Rest(q, 0) \subseteq 1 .. told[s]
      /\ (Ends(q) # {} => turn[s] = "over")
  BY DEF SpeechOK
<1> HIDE DEF q, t
<1>3. /\ Results(t) = {r - 1 : r \in Results(q) \ {1}}
      /\ Ends(t) # {} => Ends(q) # {}
      /\ \A r \in Nat : Rest(t, r) = Rest(q, r + 1)
      /\ Ascending(t) /\ EndIsLast(t)
      /\ 1 \in DOMAIN q /\ Head(q) = q[1] /\ Results(q) \subseteq Nat \ {0}
  BY <1>1, <1>2, Heard
<1>4. Rest(t, 0) \subseteq Rest(q, 0)
  <2>1. Rest(t, 0) = Rest(q, 1)
    BY <1>3
  <2>2. Rest(q, 1) \subseteq Rest(q, 0)
    BY <1>1, <1>2, HeardFirst
  <2> QED BY <2>1, <2>2
<1>5. Ascending(t) /\ EndIsLast(t) /\ Rest(t, 0) \subseteq 1 .. told[s]
      /\ (Ends(t) # {} => turn[s] = "over")
  BY <1>2, <1>3, <1>4
<1>6. SpeechOK(s)'
  BY <1>5 DEF SpeechOK, t
<1> QED BY <1>3, <1>6 DEF q, t

\* A message that concerns neither the answer that is awaited nor the text.
LEMMA TextHears ==
  ASSUME TypeOK, NEW s \in Session, TextOK(s), Reads(s),
         1 \notin Results(fromChild[s]), phase[s] = "turn" => ~ Own(fromChild[s], 1),
         UNCHANGED <<toChild, step, phase, text, owed, turn, told, early>>
  PROVE  RequestsOK(s)' /\ SpeechOK(s)' /\ AnswerOK(s)' /\ TextKnown(s)'
<1> DEFINE q == fromChild[s]
           t == fromChild'[s]
<1>1. RequestsOK(s)' /\ TextKnown(s)'
  BY DEF TextOK, RequestsOK, TextKnown, Starts, Asked, TurnUnanswered
<1>2. /\ SpeechOK(s)'
      /\ Results(t) = {r - 1 : r \in Results(q) \ {1}}
      /\ \A r \in Nat : Rest(t, r) = Rest(q, r + 1)
      /\ Results(q) \subseteq Nat \ {0}
  BY Hearing DEF TextOK
<1>3. q \in Seq(Message) /\ q # <<>> /\ Ascending(q) /\ EndIsLast(q)
  BY DEF Reads, TypeOK, TextOK, SpeechOK
<1>4. ~ Own(q, 1) => Rest(q, 1) = Rest(q, 0)
  BY <1>3, HeardFirst
<1>5. /\ \A i, j \in Results(q) : i = j
      /\ \A r \in Results(q) : Rest(q, r) = early[s] + 1 .. told[s]
      /\ Unanswered(s) => told[s] = early[s] /\ Results(q) = {} /\ phase[s] # "turn"
      /\ phase[s] = "turn" =>
           Results(q) = {} /\ Rest(q, 0) = early[s] + Len(text[s]) + 1 .. told[s]
  BY DEF TextOK, AnswerOK
<1>6. 1 \notin Results(q) /\ (phase[s] = "turn" => ~ Own(q, 1))
  OBVIOUS
<1> HIDE DEF q, t
<1>7. \A i, j \in Results(t) : i = j
  BY <1>2, <1>5
<1>8. ASSUME NEW i \in Results(t) PROVE Rest(t, i) = early[s] + 1 .. told[s]
  <2>1. PICK r \in Results(q) : i = r - 1
    BY <1>2
  <2>2. i \in Nat /\ i + 1 = r
    BY <1>2, <2>1
  <2> QED BY <1>2, <1>5, <2>2
<1>9. Results(q) = {} => Results(t) = {}
  BY <1>2
<1>10. Rest(t, 0) = Rest(q, 1)
  BY <1>2
<1>11. Unanswered(s)' = Unanswered(s)
  BY DEF Unanswered, TurnUnanswered
<1>12. /\ \A i, j \in Results(t) : i = j
       /\ \A i \in Results(t) : Rest(t, i) = early[s] + 1 .. told[s]
       /\ Unanswered(s)' => told[s] = early[s] /\ Results(t) = {} /\ phase[s] # "turn"
       /\ phase[s] = "turn" =>
            Results(t) = {} /\ Rest(t, 0) = early[s] + Len(text[s]) + 1 .. told[s]
  BY <1>4, <1>5, <1>6, <1>7, <1>8, <1>9, <1>10, <1>11
<1>13. AnswerOK(s)'
  BY <1>12 DEF AnswerOK, t
<1> QED BY <1>1, <1>2, <1>13

\* An answer.
LEMMA TextAnswered ==
  ASSUME TypeOK, NEW s \in Session, StepKnown(s), TextOK(s), Answered(s)
  PROVE  TextOK(s)'
<1> DEFINE q == fromChild[s]
           t == fromChild'[s]
<1>1. /\ phase[s] = "awaiting" /\ Reads(s) /\ Answers(s, Head(q)) /\ stage[s] = "open"
      /\ UNCHANGED <<toChild, job, text, owed, turn, told, early>>
  BY DEF Answered, Reads, server
<1>2. outcome[s] # "ok"
  BY <1>1, OpenNoSuccess DEF TextOK
<1>3. step[s] \in 1 .. 4 /\ Head(q).n = RequestId(s) /\ (RequestId(s) = 3 <=> step[s] = 4)
  BY <1>1 DEF TypeOK, Answers, RequestId
<1>4. /\ SpeechOK(s)'
      /\ Results(t) = {r - 1 : r \in Results(q) \ {1}}
      /\ \A r \in Nat : Rest(t, r) = Rest(q, r + 1)
      /\ Head(q) = q[1] /\ 1 \in DOMAIN q
  BY <1>1, Hearing DEF TextOK
<1>5. 1 \in Results(q) <=> Head(q).kind = "result" /\ step[s] = 4
  BY <1>3, <1>4 DEF Results
<1>6. ASSUME UNCHANGED <<phase, step>>, 1 \notin Results(q)
      PROVE  RequestsOK(s)' /\ SpeechOK(s)' /\ AnswerOK(s)' /\ TextKnown(s)'
  BY <1>1, <1>6, TextHears
<1>7. CASE Head(q).kind # "result"
  <2>1. Leave(s, "refused") /\ UNCHANGED <<phase, step>>
    BY <1>7 DEF Answered
  <2>2. outcome'[s] # "ok"
    BY <2>1 DEF Leave, TypeOK
  <2> QED BY <1>5, <1>6, <1>7, <2>1, <2>2 DEF TextOK, SuccessKnown
<1>8. CASE Head(q).kind = "result" /\ Now(s) = "read"
  <2>1. Leave(s, "ok") /\ UNCHANGED <<phase, step>>
    BY <1>8 DEF Answered, Proceeds
  <2>2. step[s] = 3
    BY <1>3, <1>8, ScriptKnown
  <2>3. stage'[s] = "closing"
    BY <2>1 DEF Leave, Enter, TypeOK
  <2>4. turn[s] = "none" /\ Starts(s) = {}
    BY <2>2 DEF TextOK, RequestsOK, Asked
  <2>5. told[s] = early[s] /\ Len(text[s]) = 0 /\ early[s] \in Nat
    BY <1>1, <2>4 DEF TextOK, AnswerOK, Unanswered, TextKnown, TypeOK
  <2>6. SuccessKnown(s)'
    BY <1>1, <2>3, <2>4, <2>5 DEF SuccessKnown, Left, Starts
  <2> QED BY <1>5, <1>6, <2>1, <2>2, <2>6 DEF TextOK
<1>9. CASE Head(q).kind = "result" /\ Now(s) = "turn"
  <2>1. UNCHANGED <<step, stage, outcome>> /\ phase'[s] = "turn"
    BY <1>9 DEF Answered, Proceeds, TypeOK
  <2>2. step[s] = 4
    BY <1>3, <1>9, ScriptKnown
  <2>3. 1 \in Results(q)
    BY <1>5, <1>9, <2>2
  <2>4. /\ \A i, j \in Results(q) : i = j
        /\ Rest(q, 1) = early[s] + 1 .. told[s]
        /\ ~ Unanswered(s)
    BY <2>3 DEF TextOK, AnswerOK
  <2>5. Results(t) = {} /\ Rest(t, 0) = early[s] + 1 .. told[s]
    BY <1>4, <2>3, <2>4
  <2>6. Len(text[s]) = 0 /\ early[s] \in Nat
    BY <1>1 DEF TextOK, TextKnown, TypeOK
  <2>7. ~ Unanswered(s)'
    BY <1>1, <2>4 DEF Unanswered, TurnUnanswered
  <2>8. AnswerOK(s)'
    <3>1. early[s] + 0 + 1 = early[s] + 1
      BY <2>6
    <3> QED BY <1>1, <2>1, <2>5, <2>6, <2>7, <3>1 DEF AnswerOK
  <2>9. RequestsOK(s)' /\ TextKnown(s)'
    BY <1>1, <2>1, <2>2 DEF TextOK, RequestsOK, TextKnown, Starts, Asked, TurnUnanswered
  <2>10. SuccessKnown(s)'
    BY <1>2, <2>1 DEF SuccessKnown
  <2> QED BY <1>4, <2>8, <2>9, <2>10 DEF TextOK
<1>10. CASE Head(q).kind = "result" /\ Now(s) \notin {"read", "turn"}
  <2>1. UNCHANGED <<stage, outcome>> /\ phase'[s] = "sending"
    BY <1>10 DEF Answered, Proceeds, TypeOK
  <2>2. step[s] # 4
    BY <1>3, <1>10, ScriptKnown
  <2>3. turn[s] = "none" /\ Starts(s) = {} /\ ~ TurnUnanswered(s)
    BY <2>2 DEF TextOK, RequestsOK, Asked
  <2>4. told[s] = early[s] /\ Results(q) = {}
    BY <2>3 DEF TextOK, AnswerOK, Unanswered
  <2>5. Results(t) = {}
    BY <1>4, <2>4
  <2>6. AnswerOK(s)'
    BY <1>1, <2>1, <2>4, <2>5 DEF AnswerOK
  <2>7. RequestsOK(s)' /\ TextKnown(s)'
    BY <1>1, <2>1, <2>3 DEF TextOK, RequestsOK, TextKnown, Starts, TurnUnanswered
  <2>8. SuccessKnown(s)'
    BY <1>2, <2>1 DEF SuccessKnown
  <2> QED BY <1>4, <2>6, <2>7, <2>8 DEF TextOK
<1> QED BY <1>7, <1>8, <1>9, <1>10

\* A delta is the next one of the text, or of another turn.
LEMMA TextDelta ==
  ASSUME TypeOK, NEW s \in Session, TextOK(s), Delta(s)
  PROVE  TextOK(s)'
<1> DEFINE q == fromChild[s]
           t == fromChild'[s]
           n == Head(q).n
           len == Len(text[s])
<1>1. /\ phase[s] = "turn" /\ Reads(s) /\ Head(q).kind = "delta" /\ stage[s] = "open"
      /\ UNCHANGED <<toChild, step, phase, owed, turn, told, early>>
      /\ UNCHANGED outcome \/ Leave(s, "cancelled")
  BY DEF Delta, AtTurn, Reads, server
<1>2. outcome'[s] # "ok"
  BY <1>1, OpenNoSuccess DEF TextOK, Leave, TypeOK
<1>3. /\ SpeechOK(s)'
      /\ Results(t) = {r - 1 : r \in Results(q) \ {1}}
      /\ \A r \in Nat : Rest(t, r) = Rest(q, r + 1)
      /\ Head(q) = q[1] /\ 1 \in DOMAIN q
  BY <1>1, Hearing DEF TextOK
<1>4. Own(q, 1) <=> n # 0
  BY <1>1, <1>3 DEF Own
<1>5. CASE n = 0
  <2>1. text' = text
    BY <1>5 DEF Delta
  <2>2. 1 \notin Results(q)
    BY <1>1, <1>3 DEF Results
  <2> QED BY <1>1, <1>2, <1>4, <1>5, <2>1, <2>2, TextHears DEF TextOK, SuccessKnown
<1>6. CASE n # 0
  <2>1. text'[s] = Append(text[s], n) /\ text[s] \in Seq(Nat)
    BY <1>6 DEF Delta, TypeOK
  <2>2. /\ Results(q) = {} /\ ~ Unanswered(s)
        /\ Rest(q, 0) = early[s] + len + 1 .. told[s]
        /\ early[s] \in Nat /\ told[s] \in Nat /\ len \in Nat
    BY <1>1 DEF TextOK, AnswerOK, TypeOK
  <2>3. Rest(q, 0) = Rest(q, 1) \cup {n} /\ \A k \in Rest(q, 1) : n < k
    <3>1. q \in Seq(Message) /\ q # <<>> /\ Ascending(q) /\ EndIsLast(q)
      BY <1>1 DEF Reads, TypeOK, TextOK, SpeechOK
    <3> QED BY <1>3, <1>4, <1>6, <3>1, HeardFirst
  <2> HIDE DEF q, t, n, len
  <2>4. n = early[s] + len + 1 /\ n <= told[s] /\ n \in Nat
    <3>1. n \in early[s] + len + 1 .. told[s]
      BY <2>2, <2>3
    <3>2. early[s] + len + 1 \in Rest(q, 0)
      BY <2>2, <3>1
    <3>3. ~ n < n
      BY <2>2, <3>1
    <3>4. early[s] + len + 1 = n \/ n < early[s] + len + 1
      BY <2>3, <3>2
    <3> QED BY <2>2, <3>1, <3>4
  <2>5. Rest(q, 1) = early[s] + len + 1 + 1 .. told[s]
    <3>1. n \notin Rest(q, 1)
      BY <2>3, <2>4
    <3>2. Rest(q, 1) = (early[s] + len + 1 .. told[s]) \ {n}
      BY <2>2, <2>3, <3>1
    <3>3. Rest(q, 1) = (n .. told[s]) \ {n}
      BY <2>4, <3>2
    <3>4. (n .. told[s]) \ {n} = n + 1 .. told[s]
      BY <2>2, <2>4
    <3> QED BY <2>4, <3>3, <3>4
  <2>6. Results(t) = {} /\ Rest(t, 0) = Rest(q, 1)
    BY <1>3, <2>2
  <2>7. Len(text'[s]) = len + 1
    BY <2>1 DEF len
  <2>8. AnswerOK(s)'
    <3>1. ~ Unanswered(s)'
      BY <1>1, <2>2 DEF Unanswered, TurnUnanswered
    <3>2. Rest(t, 0) = early[s] + Len(text'[s]) + 1 .. told[s]
      BY <2>2, <2>5, <2>6, <2>7
    <3> QED BY <1>1, <2>6, <3>1, <3>2 DEF AnswerOK, t
  <2>9. TextKnown(s)'
    <3>1. ASSUME NEW i \in 1 .. len + 1 PROVE text'[s][i] = early[s] + i
      <4>1. CASE i = len + 1
        <5>1. text'[s][len + 1] = n
          BY <2>1 DEF len
        <5> QED BY <2>2, <2>4, <4>1, <5>1
      <4>2. CASE i # len + 1
        <5>1. i \in 1 .. len /\ text'[s][i] = text[s][i]
          BY <2>1, <2>2, <4>2 DEF len
        <5> QED BY <5>1 DEF TextOK, TextKnown, len
      <4> QED BY <4>1, <4>2
    <3>2. early[s] + (len + 1) <= told[s]
      BY <2>2, <2>4
    <3> QED BY <1>1, <2>7, <3>1, <3>2 DEF TextKnown
  <2>10. RequestsOK(s)'
    BY <1>1 DEF TextOK, RequestsOK, Starts, Asked, TurnUnanswered
  <2> QED BY <1>2, <1>3, <2>8, <2>9, <2>10 DEF TextOK, SuccessKnown
<1> QED BY <1>5, <1>6

\* The end of the turn: no delta is left.
LEMMA TextCompleted ==
  ASSUME TypeOK, NEW s \in Session, TextOK(s), TurnCompleted(s)
  PROVE  TextOK(s)'
<1> DEFINE q == fromChild[s]
<1>1. /\ phase[s] = "turn" /\ Reads(s) /\ Head(q).kind \in {"completed", "failed"}
      /\ stage[s] = "open" /\ (Leave(s, "ok") \/ Leave(s, "refused"))
      /\ UNCHANGED <<toChild, step, phase, text, owed, turn, told, early>>
  BY DEF TurnCompleted, AtTurn, Reads, server
<1>2. Head(q) = q[1]
  BY <1>1, Hearing DEF TextOK
<1>3. 1 \notin Results(q) /\ ~ Own(q, 1)
  BY <1>1, <1>2 DEF Results, Own
<1>4. RequestsOK(s)' /\ SpeechOK(s)' /\ AnswerOK(s)' /\ TextKnown(s)'
  BY <1>1, <1>3, TextHears
<1>5. Rest(q, 0) = {} /\ Ends(q) # {}
  <2>1. q \in Seq(Message) /\ q # <<>> /\ Ascending(q) /\ EndIsLast(q)
    BY <1>1 DEF Reads, TypeOK, TextOK, SpeechOK
  <2> HIDE DEF q
  <2> QED BY <1>1, <1>2, <2>1, HeardFirst
<1>6. turn[s] = "over" /\ Starts(s) = {}
  BY <1>5 DEF TextOK, SpeechOK, RequestsOK
<1>7. early[s] + Len(text[s]) = told[s]
  <2>1. /\ early[s] + Len(text[s]) + 1 .. told[s] = {}
        /\ early[s] + Len(text[s]) <= told[s]
        /\ early[s] \in Nat /\ told[s] \in Nat /\ Len(text[s]) \in Nat
    <3>1. early[s] \in Nat /\ told[s] \in Nat /\ Len(text[s]) \in Nat
      BY DEF TypeOK
    <3>2. early[s] + Len(text[s]) + 1 .. told[s] = {}
      BY <1>1, <1>5 DEF TextOK, AnswerOK
    <3> QED BY <3>1, <3>2 DEF TextOK, TextKnown
  <2> DEFINE a == early[s] + Len(text[s])
  <2>2. a \in Nat /\ a <= told[s] /\ told[s] \notin a + 1 .. told[s]
    BY <2>1
  <2> QED BY <2>1, <2>2
<1>8. stage'[s] = "closing"
  BY <1>1 DEF Leave, Enter, TypeOK
<1>9. SuccessKnown(s)'
  BY <1>1, <1>6, <1>7, <1>8 DEF SuccessKnown, Left, Starts
<1> QED BY <1>4, <1>9 DEF TextOK

\* Every step of the client.
LEMMA TextClient ==
  ASSUME TypeOK, NEW s \in Session, StepKnown(s), TextOK(s), Client(s) \/ Begin(s)
  PROVE  TextOK(s)'
<1>1. CASE Construct(s) \/ ConstructorThrows(s) \/ Destroy(s)
  BY <1>1, TextStages, KeptOK
<1>2. CASE SendFails(s) \/ Closed(s)
  <2>1. Leave(s, "closed") /\ stage[s] = "open"
        /\ UNCHANGED <<toChild, fromChild, step, phase, text, server>>
    BY <1>2 DEF SendFails, InputBroken, Closed, AtEof
  <2>2. outcome'[s] = "closed"
    BY <2>1 DEF Leave, TypeOK
  <2>3. Kept(s)
    BY <2>1, <2>2 DEF Kept, server, Left
  <2> QED BY <2>3, KeptOK
<1>3. CASE Garbled(s) \/ Dropped(s) \/ Ignored(s)
  <2>1. /\ Reads(s) /\ stage[s] = "open" /\ UNCHANGED <<toChild, step, phase, text, server>>
        /\ UNCHANGED outcome \/ Leave(s, "refused")
    BY <1>3 DEF Garbled, Dropped, Ignored, AtTurn, Reads, caller
  <2>2. outcome'[s] # "ok"
    BY <2>1, OpenNoSuccess DEF TextOK, Leave, TypeOK
  <2>3. Head(fromChild[s]) = fromChild[s][1] /\ 1 \in DOMAIN fromChild[s]
    BY <2>1, Hearing DEF TextOK, server
  <2>4. 1 \notin Results(fromChild[s])
    <3>1. CASE Garbled(s)
      BY <2>3, <3>1 DEF Garbled, Results
    <3>2. CASE Dropped(s)
      <4>1. phase[s] = "awaiting" /\ ~ Answers(s, Head(fromChild[s]))
        BY <3>2 DEF Dropped
      <4>2. CASE step[s] = 4
        BY <2>3, <4>1, <4>2 DEF Results, Answers, RequestId
      <4>3. CASE step[s] # 4
        BY <4>3 DEF TextOK, RequestsOK, AnswerOK, Asked, Unanswered
      <4> QED BY <4>2, <4>3
    <3>3. CASE Ignored(s)
      BY <3>3 DEF Ignored, AtTurn, TextOK, AnswerOK
    <3> QED BY <1>3, <3>1, <3>2, <3>3
  <2>5. phase[s] = "turn" => ~ Own(fromChild[s], 1)
    BY <1>3, <2>3 DEF Garbled, Dropped, Ignored, AtTurn, Own
  <2>6. RequestsOK(s)' /\ SpeechOK(s)' /\ AnswerOK(s)' /\ TextKnown(s)'
    BY <2>1, <2>4, <2>5, TextHears DEF server
  <2> QED BY <2>2, <2>6 DEF TextOK, SuccessKnown
<1> QED BY <1>1, <1>2, <1>3, TextSend, TextAnswered, TextDelta, TextCompleted DEF Client, Begin


\* The app server reads a request.
LEMMA TextServerReads ==
  ASSUME TypeOK, NEW s \in Session, TextOK(s), ServerReads(s)
  PROVE  TextOK(s)'
<1> DEFINE q == toChild[s]
           u == toChild'[s]
           m == Head(q)
<1>1. /\ q # <<>> /\ u = Tail(q) /\ q \in Seq(Request)
      /\ UNCHANGED <<stage, fromChild, step, phase, text, outcome, told, early>>
  BY DEF ServerReads, TypeOK, caller
<1>2. /\ owed'[s] = IF m.kind \in {"initialized", "part"} THEN owed[s] ELSE owed[s] \cup {m.n}
      /\ turn'[s] = IF m.kind = "turn" THEN "running" ELSE turn[s]
  BY DEF ServerReads, TypeOK
<1>3. /\ 1 \in DOMAIN q /\ m = q[1]
      /\ \A i \in DOMAIN u : i + 1 \in DOMAIN q \ {1} /\ u[i] = q[i + 1] /\ i \in Nat
  BY <1>1
<1>4. /\ \A i \in DOMAIN q : /\ q[i].n = 3 => q[i].kind \in {"part", "turn"}
                             /\ q[i].kind = "turn" => q[i].n = 3
      /\ \A i, j \in Starts(s) : i = j
      /\ Starts(s) # {} => turn[s] = "none" /\ Asked(s)
      /\ TurnUnanswered(s) => turn[s] # "none"
      /\ turn[s] # "none" => Asked(s)
      /\ Starts(s) = {i \in DOMAIN q : q[i].kind = "turn"}
      /\ Starts(s)' = {i \in DOMAIN u : u[i].kind = "turn"}
  BY DEF TextOK, RequestsOK, Starts
<1>5. Asked(s)' <=> Asked(s)
  BY <1>1 DEF Asked
<1> HIDE DEF q, u, m
<1>6. \A i \in Starts(s)' : i + 1 \in Starts(s) \ {1} /\ i \in Nat
  BY <1>3, <1>4
<1>7. m.kind = "turn" => m.n = 3 /\ 1 \in Starts(s) /\ Starts(s)' = {}
  BY <1>3, <1>4, <1>6
<1>8. m.kind # "turn" => (m.kind = "part" \/ m.n # 3)
  BY <1>3, <1>4
<1>9. TurnUnanswered(s)' <=> TurnUnanswered(s) \/ m.kind = "turn"
  BY <1>2, <1>7, <1>8 DEF TurnUnanswered
<1>10. RequestsOK(s)'
  <2>1. \A i \in DOMAIN u : /\ u[i].n = 3 => u[i].kind \in {"part", "turn"}
                            /\ u[i].kind = "turn" => u[i].n = 3
    BY <1>3, <1>4
  <2>2. \A i, j \in Starts(s)' : i = j
    BY <1>4, <1>6
  <2>3. Starts(s)' # {} => turn'[s] = "none" /\ Asked(s)'
    BY <1>2, <1>4, <1>5, <1>6, <1>7
  <2>4. (TurnUnanswered(s)' => turn'[s] # "none") /\ (turn'[s] # "none" => Asked(s)')
    BY <1>2, <1>4, <1>5, <1>7, <1>9
  <2> QED BY <2>1, <2>2, <2>3, <2>4 DEF RequestsOK, u
<1>11. SpeechOK(s)'
  BY <1>1, <1>2, <1>4, <1>7 DEF TextOK, SpeechOK
<1>12. Unanswered(s)' => Unanswered(s)
  BY <1>2, <1>4, <1>7, <1>9 DEF Unanswered
<1>13. AnswerOK(s)' /\ TextKnown(s)'
  BY <1>1, <1>12 DEF TextOK, AnswerOK, TextKnown
<1>14. SuccessKnown(s)'
  <2>1. Starts(s) = {} => Starts(s)' = {} /\ turn'[s] = turn[s]
    BY <1>2, <1>6, <1>7
  <2> QED BY <1>1, <2>1 DEF TextOK, SuccessKnown
<1> QED BY <1>10, <1>11, <1>13, <1>14 DEF TextOK

\* The app server says something that is no delta of the turn.
LEMMA TextServerSays ==
  ASSUME TypeOK, NEW s \in Session, TextOK(s), NEW m \in Message,
         fromChild' = [fromChild EXCEPT ![s] = Append(@, m)],
         ~ (m.kind = "delta" /\ m.n # 0),
         m.kind = "result" /\ m.n = 3 => TurnUnanswered(s) /\ ~ TurnUnanswered(s)',
         m.kind \in {"completed", "failed"} => turn'[s] = "over",
         turn'[s] \in {turn[s], "over"}, turn'[s] # turn[s] => turn[s] # "none",
         TurnUnanswered(s)' => TurnUnanswered(s),
         UNCHANGED <<stage, toChild, step, phase, text, outcome, told, early>>
  PROVE  TextOK(s)'
<1> DEFINE q == fromChild[s]
           t == fromChild'[s]
           answers == m.kind = "result" /\ m.n = 3
<1>1. q \in Seq(Message) /\ t = Append(q, m)
  BY DEF TypeOK
<1>2. Ascending(q) /\ EndIsLast(q) /\ Rest(q, 0) \subseteq 1 .. told[s]
      /\ (Ends(q) # {} => turn[s] = "over")
  BY DEF TextOK, SpeechOK
<1>3. /\ \A i, j \in Results(q) : i = j
      /\ \A r \in Results(q) : Rest(q, r) = early[s] + 1 .. told[s]
      /\ Unanswered(s) => told[s] = early[s] /\ Results(q) = {} /\ phase[s] # "turn"
      /\ phase[s] = "turn" =>
           Results(q) = {} /\ Rest(q, 0) = early[s] + Len(text[s]) + 1 .. told[s]
  BY DEF TextOK, AnswerOK
<1>4. RequestsOK(s)' /\ TextKnown(s)' /\ SuccessKnown(s)'
  BY DEF TextOK, RequestsOK, TextKnown, SuccessKnown, Starts, Asked, TurnUnanswered
<1> HIDE DEF q, t
<1>5. /\ Results(q) \subseteq 1 .. Len(q) /\ Len(q) \in Nat
      /\ Results(t) = Results(q) \cup (IF answers THEN {Len(q) + 1} ELSE {})
      /\ Ends(t) # {} => Ends(q) # {} \/ m.kind \in {"completed", "failed"}
      /\ \A r \in 0 .. Len(q) : Rest(t, r) = Rest(q, r)
      /\ Rest(t, Len(q) + 1) = {}
      /\ Ascending(t) /\ EndIsLast(t)
  <2>1. Ascending(t) /\ EndIsLast(t)
    BY <1>1, <1>2, SpokenInOrder
  <2>2. /\ Results(q) \subseteq 1 .. Len(q)
        /\ Results(t) = Results(q) \cup (IF answers THEN {Len(q) + 1} ELSE {})
        /\ Ends(t) # {} => Ends(q) # {} \/ m.kind \in {"completed", "failed"}
        /\ Rest(t, Len(q) + 1) = {}
    BY <1>1, Spoken
  <2>3. ASSUME NEW r \in 0 .. Len(q) PROVE Rest(t, r) = Rest(q, r)
    BY <1>1, SpokenRest
  <2>4. Len(q) \in Nat
    BY <1>1
  <2> QED BY <2>1, <2>2, <2>3, <2>4
<1>6. SpeechOK(s)'
  <2>1. Rest(t, 0) = Rest(q, 0)
    BY <1>5
  <2>2. Ends(t) # {} => turn'[s] = "over"
    BY <1>2, <1>5
  <2> QED BY <1>2, <1>5, <2>1, <2>2 DEF SpeechOK, t
<1>7. answers => Unanswered(s) /\ Results(q) = {} /\ told[s] = early[s] /\ early[s] \in Nat
  BY <1>3 DEF Unanswered, TypeOK
<1>8. \A i, j \in Results(t) : i = j
  BY <1>3, <1>5, <1>7
<1>9. ASSUME NEW r \in Results(t) PROVE Rest(t, r) = early[s] + 1 .. told[s]
  <2>1. CASE r \in Results(q)
    BY <1>3, <1>5, <2>1
  <2>2. CASE r \notin Results(q)
    <3>1. answers /\ r = Len(q) + 1
      BY <1>5, <2>2
    <3>2. early[s] + 1 .. told[s] = {}
      BY <1>7, <3>1
    <3> QED BY <1>5, <3>1, <3>2
  <2> QED BY <2>1, <2>2
<1>10. Unanswered(s)' => Unanswered(s) /\ ~ answers
  <2>1. ASSUME turn'[s] = "none" PROVE turn[s] = "none"
    BY <2>1
  <2>2. answers => turn[s] # "none"
    BY DEF TextOK, RequestsOK
  <2> QED BY <2>1, <2>2 DEF Unanswered
<1>11. phase[s] = "turn" => ~ answers
  BY <1>3, <1>7
<1>12. /\ \A i, j \in Results(t) : i = j
       /\ \A r \in Results(t) : Rest(t, r) = early[s] + 1 .. told[s]
       /\ Unanswered(s)' => told[s] = early[s] /\ Results(t) = {} /\ phase[s] # "turn"
       /\ phase[s] = "turn" =>
            Results(t) = {} /\ Rest(t, 0) = early[s] + Len(text[s]) + 1 .. told[s]
  BY <1>3, <1>5, <1>8, <1>9, <1>10, <1>11
<1>13. AnswerOK(s)'
  BY <1>12 DEF AnswerOK, t
<1> QED BY <1>4, <1>6, <1>13 DEF TextOK

\* It goes on with the turn.
LEMMA TextServerDelta ==
  ASSUME TypeOK, NEW s \in Session, TextOK(s), ServerDelta(s)
  PROVE  TextOK(s)'
<1> DEFINE q == fromChild[s]
           t == fromChild'[s]
           n == told[s] + 1
           m == [kind |-> "delta", n |-> n]
<1>1. /\ turn[s] = "running" /\ t = Append(q, m) /\ q \in Seq(Message)
      /\ told'[s] = n /\ told[s] \in Nat /\ early[s] \in Nat /\ Len(text[s]) \in Nat
      /\ early'[s] = (IF TurnUnanswered(s) THEN early[s] + 1 ELSE early[s])
      /\ UNCHANGED <<stage, toChild, step, phase, text, outcome, owed, turn>>
  BY DEF ServerDelta, Speak, TypeOK, caller
<1>2. m \in Message /\ m.kind = "delta" /\ m.n = n /\ n # 0
  BY <1>1 DEF Message
<1>3. Ascending(q) /\ EndIsLast(q) /\ Rest(q, 0) \subseteq 1 .. told[s] /\ Ends(q) = {}
  BY <1>1 DEF TextOK, SpeechOK
<1>4. /\ \A i, j \in Results(q) : i = j
      /\ \A r \in Results(q) : Rest(q, r) = early[s] + 1 .. told[s]
      /\ Unanswered(s) => told[s] = early[s] /\ Results(q) = {} /\ phase[s] # "turn"
      /\ phase[s] = "turn" =>
           Results(q) = {} /\ Rest(q, 0) = early[s] + Len(text[s]) + 1 .. told[s]
  BY DEF TextOK, AnswerOK
<1>5. (Unanswered(s) <=> TurnUnanswered(s)) /\ (Unanswered(s)' <=> TurnUnanswered(s))
  BY <1>1 DEF Unanswered, TurnUnanswered
<1>6. /\ early[s] + Len(text[s]) <= told[s]
      /\ phase[s] # "turn" => Len(text[s]) = 0
      /\ \A i \in 1 .. Len(text[s]) : text[s][i] = early[s] + i
  BY DEF TextOK, TextKnown
<1>7. RequestsOK(s)' /\ SuccessKnown(s)'
  BY <1>1 DEF TextOK, RequestsOK, SuccessKnown, Starts, Asked, TurnUnanswered
<1> HIDE DEF q, t, n, m
<1>8. \A k \in Rest(q, 0) : k < n
  BY <1>1, <1>3 DEF n
<1>9. /\ Results(q) \subseteq 1 .. Len(q) /\ Len(q) \in Nat
      /\ Results(t) = Results(q)
      /\ Ends(t) = {}
      /\ \A r \in 0 .. Len(q) : Rest(t, r) = Rest(q, r) \cup {n}
      /\ Ascending(t) /\ EndIsLast(t)
  <2>1. Ascending(t) /\ EndIsLast(t)
    BY <1>1, <1>2, <1>3, <1>8, SpokenInOrder
  <2>2. /\ Results(q) \subseteq 1 .. Len(q)
        /\ Results(t) = Results(q) \cup (IF m.kind = "result" /\ m.n = 3 THEN {Len(q) + 1} ELSE {})
        /\ Ends(t) # {} => Ends(q) # {} \/ m.kind \in {"completed", "failed"}
    BY <1>1, <1>2, Spoken
  <2>3. ASSUME NEW r \in 0 .. Len(q) PROVE Rest(t, r) = Rest(q, r) \cup {n}
    <3>1. \A k : k \in Rest(t, r) <=> k \in Rest(q, r) \/ k = n
      BY <1>1, <1>2, SpokenRest
    <3> QED BY <3>1
  <2>4. Len(q) \in Nat
    BY <1>1
  <2>5. Results(t) = Results(q) /\ Ends(t) = {}
    BY <1>2, <1>3, <2>2
  <2> QED BY <2>1, <2>2, <2>3, <2>4, <2>5
<1>10. n \in Nat /\ \A a \in Nat : a <= told[s] => (a + 1 .. told[s]) \cup {n} = a + 1 .. n
  BY <1>1 DEF n
<1>11. SpeechOK(s)'
  <2>1. Rest(t, 0) = Rest(q, 0) \cup {n}
    BY <1>9
  <2>2. Rest(t, 0) \subseteq 1 .. n
    BY <1>1, <1>3, <1>10, <2>1 DEF n
  <2> QED BY <1>1, <1>9, <2>2 DEF SpeechOK, t
<1>12. CASE TurnUnanswered(s)
  <2>1. told[s] = early[s] /\ Results(q) = {} /\ phase[s] # "turn" /\ Len(text[s]) = 0
    BY <1>4, <1>5, <1>6, <1>12
  <2>2. told'[s] = early'[s] /\ Results(t) = {} /\ phase'[s] # "turn"
    BY <1>1, <1>9, <1>12, <2>1 DEF n
  <2>3. AnswerOK(s)'
    BY <2>2 DEF AnswerOK, t
  <2>4. TextKnown(s)'
    <3>1. early'[s] + 0 <= told'[s] /\ Len(text'[s]) = 0
      BY <1>1, <2>1, <2>2
    <3> QED BY <3>1 DEF TextKnown
  <2> QED BY <1>7, <1>11, <2>3, <2>4 DEF TextOK
<1>13. CASE ~ TurnUnanswered(s)
  <2>1. early'[s] = early[s] /\ ~ Unanswered(s)'
    BY <1>1, <1>5, <1>13
  <2>2. early[s] <= told[s]
    BY <1>1, <1>6
  <2>3. ASSUME NEW r \in Results(t) PROVE Rest(t, r) = early[s] + 1 .. n
    <3>1. r \in Results(q) /\ r \in 0 .. Len(q)
      BY <1>9
    <3>2. Rest(t, r) = (early[s] + 1 .. told[s]) \cup {n}
      BY <1>4, <1>9, <3>1
    <3> QED BY <1>1, <1>10, <2>2, <3>2
  <2>4. ASSUME phase[s] = "turn"
        PROVE  Results(t) = {} /\ Rest(t, 0) = early[s] + Len(text[s]) + 1 .. n
    <3> DEFINE a == early[s] + Len(text[s])
    <3>1. a \in Nat /\ a <= told[s]
      BY <1>1, <1>6
    <3>2. Rest(t, 0) = (a + 1 .. told[s]) \cup {n} /\ Results(t) = {}
      <4>1. Results(q) = {} /\ Rest(q, 0) = a + 1 .. told[s]
        BY <1>4, <2>4
      <4>2. 0 \in 0 .. Len(q)
        BY <1>9
      <4> HIDE DEF a
      <4> QED BY <1>9, <4>1, <4>2
    <3> HIDE DEF a
    <3>3. Rest(t, 0) = a + 1 .. n
      BY <1>10, <3>1, <3>2
    <3> QED BY <3>2, <3>3 DEF a
  <2>5. AnswerOK(s)'
    <3>1. \A i, j \in Results(t) : i = j
      BY <1>4, <1>9
    <3> QED BY <1>1, <2>1, <2>3, <2>4, <3>1 DEF AnswerOK, t
  <2>6. TextKnown(s)'
    <3>1. early[s] + Len(text[s]) <= n
      BY <1>1, <1>6 DEF n
    <3> QED BY <1>1, <1>6, <2>1, <3>1 DEF TextKnown
  <2> QED BY <1>7, <1>11, <2>5, <2>6 DEF TextOK
<1> QED BY <1>12, <1>13

\* Every step of the app server.
LEMMA TextServer ==
  ASSUME TypeOK, NEW s \in Session, TextOK(s), AppServer(s)
  PROVE  TextOK(s)'
<1>1. CASE ServerAnswers(s)
  <2>1. PICK id \in owed[s] :
          /\ owed' = [owed EXCEPT ![s] = @ \ {id}]
          /\ \/ Speak(s, "result", id) /\ UNCHANGED turn
             \/ /\ Speak(s, "refusal", id)
                /\ turn' = [turn EXCEPT ![s] = IF id = 3 THEN "over" ELSE @]
    BY <1>1 DEF ServerAnswers
  <2>2. /\ owed'[s] = owed[s] \ {id} /\ id \in Nat
        /\ UNCHANGED <<stage, toChild, step, phase, text, outcome, told, early>>
    BY <1>1, <2>1 DEF ServerAnswers, TypeOK, caller
  <2>3. turn[s] \in {"none", "running", "over"} /\ (3 \in owed[s] => turn[s] # "none")
    BY DEF TypeOK, TextOK, RequestsOK, TurnUnanswered
  <2>4. TurnUnanswered(s)' <=> TurnUnanswered(s) /\ id # 3
    BY <2>2 DEF TurnUnanswered
  <2>5. CASE Speak(s, "result", id) /\ UNCHANGED turn
    <3> DEFINE m == [kind |-> "result", n |-> id]
    <3>1. m \in Message /\ m.kind = "result" /\ m.n = id
      BY <2>2 DEF Message
    <3>2. fromChild' = [fromChild EXCEPT ![s] = Append(@, m)]
      BY <2>5 DEF Speak
    <3>3. id = 3 => TurnUnanswered(s)
      BY <2>1 DEF TurnUnanswered
    <3> HIDE DEF m
    <3> QED BY <2>2, <2>4, <2>5, <3>1, <3>2, <3>3, TextServerSays
  <2>6. CASE Speak(s, "refusal", id) /\ turn' = [turn EXCEPT ![s] = IF id = 3 THEN "over" ELSE @]
    <3> DEFINE m == [kind |-> "refusal", n |-> id]
    <3>1. m \in Message /\ m.kind = "refusal"
      BY <2>2 DEF Message
    <3>2. fromChild' = [fromChild EXCEPT ![s] = Append(@, m)]
      BY <2>6 DEF Speak
    <3>3. turn'[s] \in {turn[s], "over"} /\ (turn'[s] # turn[s] => turn[s] # "none")
      BY <2>1, <2>3, <2>6 DEF TypeOK
    <3> HIDE DEF m
    <3> QED BY <2>2, <2>4, <3>1, <3>2, <3>3, TextServerSays
  <2> QED BY <2>1, <2>5, <2>6
<1>2. CASE ServerEndsTurn(s)
  <2>1. PICK kind \in {"completed", "failed"} : Speak(s, kind, 0)
    BY <1>2 DEF ServerEndsTurn
  <2>2. /\ turn'[s] = "over" /\ turn[s] = "running" /\ UNCHANGED owed
        /\ UNCHANGED <<stage, toChild, step, phase, text, outcome, told, early>>
    BY <1>2 DEF ServerEndsTurn, TypeOK, caller
  <2> DEFINE m == [kind |-> kind, n |-> 0]
  <2>3. m \in Message /\ m.kind \in {"completed", "failed"} /\ m.n = 0
    BY DEF Message
  <2>4. fromChild' = [fromChild EXCEPT ![s] = Append(@, m)]
    BY <2>1 DEF Speak
  <2>5. TurnUnanswered(s)' <=> TurnUnanswered(s)
    BY <2>2 DEF TurnUnanswered
  <2> HIDE DEF m
  <2> QED BY <2>2, <2>3, <2>4, <2>5, TextServerSays
<1>3. CASE ServerNoise(s)
  <2>1. PICK kind \in {"delta", "other", "garbage", "ask"}, n \in 0 .. 3 :
          Speak(s, kind, n) /\ (kind = "delta" => n = 0)
    BY <1>3 DEF ServerNoise
  <2>2. UNCHANGED <<stage, toChild, step, phase, text, outcome, owed, turn, told, early>>
    BY <1>3 DEF ServerNoise, caller
  <2> DEFINE m == [kind |-> kind, n |-> n]
  <2>3. /\ m \in Message /\ m.kind \notin {"result", "completed", "failed"}
        /\ ~ (m.kind = "delta" /\ m.n # 0)
    BY <2>1 DEF Message
  <2>4. fromChild' = [fromChild EXCEPT ![s] = Append(@, m)]
    BY <2>1 DEF Speak
  <2>5. TurnUnanswered(s)' <=> TurnUnanswered(s)
    BY <2>2 DEF TurnUnanswered
  <2> HIDE DEF m
  <2> QED BY <2>2, <2>3, <2>4, <2>5, TextServerSays
<1>4. CASE ServerExits(s) \/ ServerCrashes(s)
  <2>1. Kept(s)
    BY <1>4 DEF ServerExits, ServerCrashes, ChildGone, caller, server, Kept
  <2> QED BY <2>1, KeptOK
<1> QED BY <1>1, <1>2, <1>3, <1>4, TextServerReads, TextServerDelta DEF AppServer

\* The text of every session is known, whatever any of them does.
LEMMA TextInvariance == Spec => [](\A s \in Session : TextOK(s))
<1>1. Init => \A s \in Session : TextOK(s)
  <2> SUFFICES ASSUME Init, NEW s \in Session PROVE TextOK(s)
    OBVIOUS
  <2>1. /\ toChild[s] = <<>> /\ fromChild[s] = <<>> /\ step[s] = 1 /\ phase[s] = "sending"
        /\ text[s] = <<>> /\ outcome[s] = "none" /\ owed[s] = {} /\ turn[s] = "none"
        /\ told[s] = 0 /\ early[s] = 0
    BY DEF Init, ProcessInit
  <2>2. DOMAIN toChild[s] = {} /\ DOMAIN fromChild[s] = {} /\ Len(text[s]) = 0
    BY <2>1
  <2>3. /\ Starts(s) = {} /\ Results(fromChild[s]) = {} /\ Ends(fromChild[s]) = {}
        /\ Rest(fromChild[s], 0) = {} /\ ~ TurnUnanswered(s)
    BY <2>1, <2>2 DEF Starts, Results, Ends, Rest, TurnUnanswered
  <2>4. RequestsOK(s)
    BY <2>1, <2>2, <2>3 DEF RequestsOK
  <2>5. SpeechOK(s)
    BY <2>2, <2>3 DEF SpeechOK, Ascending, EndIsLast
  <2>6. AnswerOK(s) /\ TextKnown(s) /\ SuccessKnown(s)
    BY <2>1, <2>2, <2>3 DEF AnswerOK, TextKnown, SuccessKnown
  <2> QED BY <2>4, <2>5, <2>6 DEF TextOK
<1>2. IInv /\ (\A s \in Session : TextOK(s)) /\ [Next]_vars => (\A s \in Session : TextOK(s))'
  <2> SUFFICES ASSUME IInv, \A s \in Session : TextOK(s), [Next]_vars, NEW t \in Session
               PROVE  TextOK(t)'
    OBVIOUS
  <2>1. TypeOK /\ \A s \in Session : StepKnown(s)
    BY DEF IInv, Inv
  <2>2. ASSUME NEW s \in Session, Begin(s) \/ Client(s) \/ AppServer(s) PROVE TextOK(t)'
    <3>1. CASE s = t
      BY <2>1, <2>2, <3>1, TextClient, TextServer
    <3>2. CASE s # t
      BY <2>1, <2>2, <3>2, TextOther, KeptOK
    <3> QED BY <3>1, <3>2
  <2>3. CASE Command \/ UNCHANGED vars
    <3>1. Kept(t)
      BY <2>3 DEF Command, ToolStarts, ToolExits, vars, process, caller, server, Kept
    <3> QED BY <3>1, KeptOK
  <2> QED BY <2>2, <2>3 DEF Next
<1> QED BY <1>1, <1>2, SessionInvariance, PTL DEF Spec

\* The text of a turn is what the app server said of it from its answer to
\* turn/start on, without a hole, and all of it when the call succeeds.
THEOREM WholeText == Spec => []TextIsWhole
<1>1. IInv /\ (\A s \in Session : TextOK(s)) => TextIsWhole
  <2> SUFFICES ASSUME IInv, NEW s \in Session, TextOK(s)
               PROVE  /\ text[s] = [i \in 1 .. Len(text[s]) |-> early[s] + i]
                      /\ outcome[s] = "ok" => early[s] + Len(text[s]) = told[s]
    BY DEF TextIsWhole
  <2>1. text[s] \in Seq(Nat)
    BY DEF IInv, Inv, TypeOK
  <2>2. text[s] = [i \in 1 .. Len(text[s]) |-> text[s][i]]
    BY <2>1
  <2>3. \A i \in 1 .. Len(text[s]) : text[s][i] = early[s] + i
    BY DEF TextOK, TextKnown
  <2> QED BY <2>2, <2>3 DEF TextOK, SuccessKnown
<1> QED BY <1>1, SessionInvariance, TextInvariance, PTL

=============================================================================
