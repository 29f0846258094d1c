------------------------- MODULE RouterHistoryProofs -------------------------
(***************************************************************************)
(* Theorems about RouterHistory, for every set of accounts, requests,      *)
(* groups and edits and without a bound on time: what the answer of a      *)
(* request says of the accounts it has tried.                              *)
(*                                                                         *)
(* The history of a request only depends on its own steps and on what is   *)
(* stored when they happen, so StepOf says what one request's step does,   *)
(* whoever moved, and the invariants are proved request by request.        *)
(***************************************************************************)
EXTENDS RouterHistory, CompletionRouterProofs

\* The stages after the provider has delivered a completion.
Delivering == {"success", "writeSuccess", "verify", "writeVerified"}

\* What request q itself does in a step of the program.
Stays(q) ==
  /\ pc'[q] = pc[q] /\ attempted'[q] = attempted[q] /\ budget'[q] = budget[q]
  /\ view'[q] = view[q] /\ reply'[q] = reply[q]

IsAccepted(q) ==
  /\ pc[q] = "idle" /\ pc'[q] = "select"
  /\ budget'[q] = Len(group.members) /\ UNCHANGED database
  /\ attempted'[q] = attempted[q] /\ view'[q] = view[q] /\ reply'[q] = reply[q]

IsRefused(q) ==
  /\ pc[q] = "idle" /\ pc'[q] = "done"
  /\ attempted'[q] = attempted[q]
  /\ reply'[q].status \in {"badRequest", "notFound", "unavailable"}

Works(q) ==
  /\ pc[q] \in Working /\ pc'[q] \in (Working \ {"dispatch"}) \cup {"select"}
  /\ attempted'[q] = attempted[q] /\ budget'[q] = budget[q]
  /\ view'[q] = view[q] /\ reply'[q] = reply[q]
  /\ pc'[q] \in Delivering => pc[q] \in Delivering \/ (pc[q] = "calling" /\ pc'[q] = "success")
  /\ pc[q] \in Delivering => \/ pc'[q] \in Delivering
                             \/ accounts[Current(q)] = NoRow
                             \/ pc[q] = "writeSuccess" /\ pc'[q] = "catch"

Concludes(q) ==
  /\ pc[q] \in Working /\ pc'[q] = "done"
  /\ attempted'[q] = attempted[q]
  /\ IF pc[q] \in Delivering
     THEN reply'[q] = [status |-> "ok", account |-> Current(q)]
     ELSE /\ reply'[q].status \in {"rejected", "exception"}
          /\ reply'[q].status = "exception" => accounts[Current(q)] = NoRow

StepOf(q) ==
  \/ Stays(q) \/ IsAccepted(q) \/ IsRefused(q)
  \/ ReadGroup(q) \/ ReadCandidate(q) \/ Decide(q)
  \/ Works(q) \/ Concludes(q)

(***************************************************************************)
(* The inductive invariants.                                               *)
(***************************************************************************)

HistoryType ==
  /\ since \in [Request -> Nat]
  /\ original \in [Request -> SUBSET AccountId]
  /\ steady \in [Request -> SUBSET AccountId]
  /\ removed \in [Request -> SUBSET AccountId]
  /\ served \in [Request -> Seq(AccountId)]

\* A request that has not begun has no history, and none that has not ended a reply.
Fresh ==
  \A r \in Request :
    /\ pc[r] = "idle" => /\ attempted[r] = <<>> /\ view[r].rows = <<>>
                         /\ served[r] = <<>> /\ steady[r] = {}
    /\ pc[r] # "done" => reply[r].status = "none"

\* An account whose row the request has read is stored or was removed since.
RemovalsSeen ==
  \A r \in Request : Active(r) =>
    /\ \A a \in Range(attempted[r]) : accounts[a] = NoRow => a \in removed[r]
    /\ \A i \in DOMAIN view[r].rows :
         view[r].rows[i] # NoRow /\ accounts[view[r].group.members[i]] = NoRow =>
           view[r].group.members[i] \in removed[r]

\* A completion is excused, or it is the last one and is being delivered.
ServedOnce ==
  \A r \in Request :
    /\ pc[r] \in Delivering =>
         served[r] # <<>> /\ served[r][Len(served[r])] = Current(r)
    /\ Active(r) => \A i \in DOMAIN served[r] :
         \/ served[r][i] \in removed[r]
         \/ i = Len(served[r]) /\ pc[r] \in Delivering

\* What the reply says of the completions a request was given.
Answered ==
  \A r \in Request : pc[r] = "done" =>
    /\ reply[r].status = "ok" => reply[r].account \in Range(served[r])
    /\ \A i \in DOMAIN served[r] :
         \/ served[r][i] \in removed[r]
         \/ i = Len(served[r]) /\ reply[r] = [status |-> "ok", account |-> served[r][i]]

\* Account a is among the candidates that r has read, or has still to read.
Offered(r, a) ==
  /\ view[r].group.enabled /\ view[r].group.strategy # "MANUAL"
  /\ a \in Range(view[r].group.members)
  /\ since[r] <= view[r].now
  /\ \A i \in DOMAIN view[r].rows :
       view[r].group.members[i] = a =>
         /\ view[r].rows[i] # NoRow
         /\ automaticRoutingCapable(view[r].rows[i])
         /\ eligible(view[r].rows[i], since[r])

SteadyOffered ==
  \A r \in Request : Active(r) =>
    /\ since[r] <= now
    /\ IsFiniteSet(original[r]) /\ Cardinality(original[r]) = budget[r]
    /\ steady[r] \subseteq original[r]
    /\ \A a \in steady[r] :
         /\ Open(a, since[r])
         /\ pc[r] = "candidates" => Offered(r, a)

-----------------------------------------------------------------------------
(* What a step of the program is for one request.                          *)

LEMMA StepShape ==
  ASSUME Inv, [Next]_vars, NEW q \in Request
  PROVE  StepOf(q)
<1> USE DEF Inv, TypeOK, Stays, Works, Concludes, Working, Delivering, Goto, Returns, Answer
<1>1. ASSUME NEW r \in Request, Begin(r) \/ Local(r) \/ ProviderAnswers(r)
      PROVE  StepOf(q)
  <2>1. CASE Begin(r)
    BY <2>1 DEF Begin, IsAccepted, IsRefused, StepOf, database
  <2>2. CASE ReadGroup(r)
    BY <2>2 DEF ReadGroup, GiveUp, StepOf
  <2>3. CASE ReadCandidate(r)
    BY <2>3 DEF ReadCandidate, StepOf
  <2>4. CASE Decide(r)
    BY <2>4 DEF Decide, GiveUp, StepOf
  <2>5. CASE Skip(r)
    BY <2>5 DEF Skip, AtDispatch, StepOf
  <2>6. CASE CredentialMissing(r)
    BY <2>6 DEF CredentialMissing, AtDispatch, StepOf
  <2>7. CASE CredentialUnreadable(r)
    BY <2>7 DEF CredentialUnreadable, AtDispatch, StepOf
  <2>8. CASE ModelMissing(r)
    BY <2>8 DEF ModelMissing, AtDispatch, StepOf
  <2>9. CASE PromptMissing(r)
    BY <2>9 DEF PromptMissing, AtDispatch, StepOf
  <2>10. CASE CallProvider(r)
    BY <2>10 DEF CallProvider, AtDispatch, StepOf
  <2>11. CASE ProviderSucceeds(r)
    BY <2>11 DEF ProviderSucceeds, AtCall, StepOf
  <2>12. CASE ProviderUnauthorized(r)
    BY <2>12 DEF ProviderUnauthorized, AtCall, StepOf
  <2>13. CASE ProviderFails(r)
    BY <2>13 DEF ProviderFails, AtCall, StepOf
  <2>14. CASE ProviderThrows(r)
    BY <2>14 DEF ProviderThrows, AtCall, StepOf
  <2>15. CASE ProviderRejects(r)
    BY <2>15 DEF ProviderRejects, AtCall, StepOf
  <2>16. CASE InteractionEmpty(r)
    BY <2>16 DEF InteractionEmpty, AtCall, StepOf
  <2>17. CASE MarkAuthExpired(r)
    BY <2>17 DEF MarkAuthExpired, StepOf
  <2>18. CASE RecordFailure(r)
    BY <2>18 DEF RecordFailure, StepOf
  <2>19. CASE WriteFailure(r)
    BY <2>19 DEF WriteFailure, StepOf
  <2>20. CASE RecordSuccess(r)
    BY <2>20 DEF RecordSuccess, StepOf
  <2>21. CASE WriteSuccess(r)
    BY <2>21 DEF WriteSuccess, StepOf
  <2>22. CASE Verify(r)
    BY <2>22 DEF Verify, StepOf
  <2>23. CASE WriteVerified(r)
    BY <2>23 DEF WriteVerified, StepOf
  <2> QED BY <1>1, <2>1, <2>2, <2>3, <2>4, <2>5, <2>6, <2>7, <2>8, <2>9, <2>10, <2>11, <2>12, <2>13, <2>14, <2>15, <2>16, <2>17, <2>18, <2>19, <2>20, <2>21, <2>22, <2>23 DEF Local, ProviderAnswers
<1>2. CASE UNCHANGED requests
  BY <1>2 DEF requests, StepOf
<1>3. CASE Operator
  <2>1. UNCHANGED requests
    BY <1>3 DEF Operator, SetAccountEnabled, SetAccountPriority, ConfigureApiKey, RemoveAccount,
                AddAccount, StartEdit, PutSecret, FinishEdit, EraseSecret, DeleteAccount, SaveGroup
  <2> QED BY <1>2, <2>1
<1>4. CASE Tick \/ Finished \/ UNCHANGED vars
  BY <1>2, <1>4 DEF Tick, Finished, vars, requests
<1> QED BY <1>1, <1>3, <1>4 DEF Next

-----------------------------------------------------------------------------
(* The history a step leaves behind.                                       *)

LEMMA HistoryStep ==
  ASSUME HistoryType, HNext, NEW r \in Request
  PROVE  /\ since'[r] = IF Accepted(r) THEN now ELSE since[r]
         /\ original'[r] = IF Accepted(r) THEN Range(group.members) ELSE original[r]
         /\ steady'[r] = IF Accepted(r) THEN {a \in AccountId : Open(a, now)'}
                         ELSE IF Active(r) THEN {a \in steady[r] : Open(a, since[r])'}
                         ELSE steady[r]
         /\ removed'[r] =
              IF Active(r)
              THEN removed[r] \cup {a \in AccountId : accounts[a] # NoRow /\ accounts'[a] = NoRow}
              ELSE removed[r]
         /\ served'[r] = IF pc[r] = "calling" /\ pc'[r] = "success"
                         THEN Append(served[r], Current(r))
                         ELSE IF pc[r] = "writeSuccess" /\ pc'[r] = "catch"
                         THEN Front(served[r]) ELSE served[r]
BY DEF HNext, Observe

\* What is left of a sequence without its last element.
LEMMA FrontType ==
  ASSUME NEW S, NEW q \in Seq(S), q # <<>>
  PROVE  /\ Front(q) \in Seq(S) /\ Len(Front(q)) = Len(q) - 1
         /\ \A i \in DOMAIN Front(q) : i \in DOMAIN q /\ i # Len(q) /\ Front(q)[i] = q[i]
BY DEF Front

LEMMA InitHistory == HInit => Inv /\ HistoryType /\ Fresh
<1> SUFFICES ASSUME HInit PROVE Inv /\ HistoryType /\ Fresh
  OBVIOUS
<1>1. Inv
  BY InitInv DEF HInit
<1>2. HistoryType
  BY DEF HInit, HistoryType
<1>3. Fresh
  BY DEF HInit, Init, Fresh, NoView
<1> QED BY <1>1, <1>2, <1>3

LEMMA NextHistoryType ==
  ASSUME Inv, Inv', HistoryType, ServedOnce, HNext
  PROVE  HistoryType'
<1>1. since' \in [Request -> Nat]
  BY DEF HNext, Observe, HistoryType, Inv, TypeOK
<1>2. original' \in [Request -> SUBSET AccountId]
  <2>1. Range(group.members) \subseteq AccountId
    BY DEF Inv, TypeOK, Group, MemberList, Range
  <2> QED BY <2>1 DEF HNext, Observe, HistoryType
<1>3. steady' \in [Request -> SUBSET AccountId] /\ removed' \in [Request -> SUBSET AccountId]
  BY DEF HNext, Observe, HistoryType
<1>4. served' \in [Request -> Seq(AccountId)]
  <2>1. \A r \in Request : pc[r] = "calling" => Current(r) \in AccountId
    BY CurrentType DEF Working
  <2>2. \A r \in Request : served[r] \in Seq(AccountId)
    BY DEF HistoryType
  <2>3. \A r \in Request : pc[r] = "calling" => Append(served[r], Current(r)) \in Seq(AccountId)
    BY <2>1, <2>2
  <2>4. \A r \in Request : pc[r] = "writeSuccess" => Front(served[r]) \in Seq(AccountId)
    BY <2>2, FrontType DEF ServedOnce, Delivering
  <2>5. \A r \in Request : served'[r] \in Seq(AccountId)
    BY <2>2, <2>3, <2>4, HistoryStep
  <2>6. DOMAIN served' = Request /\ served' = [r \in Request |-> served'[r]]
    BY DEF HNext, Observe
  <2> QED BY <2>5, <2>6
<1> QED BY <1>1, <1>2, <1>3, <1>4 DEF HistoryType

LEMMA NextFresh ==
  ASSUME Inv, HistoryType, Fresh, HNext
  PROVE  Fresh'
<1> SUFFICES ASSUME NEW r \in Request
             PROVE  /\ pc'[r] = "idle" => /\ attempted'[r] = <<>> /\ view'[r].rows = <<>>
                                          /\ served'[r] = <<>> /\ steady'[r] = {}
                    /\ pc'[r] # "done" => reply'[r].status = "none"
  BY DEF Fresh
<1>1. StepOf(r)
  BY StepShape DEF HNext
<1> USE DEF Fresh, Goto, GiveUp, Answer, Inv, TypeOK
<1>2. CASE Stays(r)
  BY <1>2, HistoryStep DEF Stays, Accepted, Active
<1>3. CASE IsAccepted(r) \/ IsRefused(r)
  BY <1>3 DEF IsAccepted, IsRefused
<1>4. CASE ReadGroup(r) \/ ReadCandidate(r) \/ Decide(r)
  BY <1>4 DEF ReadGroup, ReadCandidate, Decide
<1>5. CASE Works(r) \/ Concludes(r)
  BY <1>5 DEF Works, Concludes, Working
<1> QED BY <1>1, <1>2, <1>3, <1>4, <1>5 DEF StepOf

\* An account that is missing and was not before is recorded as removed.
LEMMA SeenLater ==
  ASSUME Inv, HistoryType, HNext, NEW r \in Request, Active(r), NEW a \in AccountId,
         accounts[a] = NoRow => a \in removed[r]
  PROVE  accounts'[a] = NoRow => a \in removed'[r]
BY HistoryStep

LEMMA NextRemovals ==
  ASSUME Inv, HistoryType, Fresh, RemovalsSeen, HNext
  PROVE  RemovalsSeen'
<1> SUFFICES ASSUME NEW r \in Request, Active(r)'
             PROVE  /\ \A a \in Range(attempted'[r]) : accounts'[a] = NoRow => a \in removed'[r]
                    /\ \A i \in DOMAIN view'[r].rows :
                         view'[r].rows[i] # NoRow /\ accounts'[view'[r].group.members[i]] = NoRow =>
                           view'[r].group.members[i] \in removed'[r]
  BY DEF RemovalsSeen
<1>1. StepOf(r)
  BY StepShape DEF HNext
<1>2. /\ Range(attempted[r]) \subseteq AccountId
      /\ \A i \in DOMAIN view[r].rows : view[r].group.members[i] \in AccountId
  BY DEF Inv, TypeOK, RequestOK, Group, MemberList, Range
<1>3. Active(r) => \A a \in Range(attempted[r]) : accounts'[a] = NoRow => a \in removed'[r]
  BY <1>2, SeenLater DEF RemovalsSeen
<1>4. Active(r) => \A i \in DOMAIN view[r].rows :
        view[r].rows[i] # NoRow /\ accounts'[view[r].group.members[i]] = NoRow =>
          view[r].group.members[i] \in removed'[r]
  BY <1>2, SeenLater DEF RemovalsSeen
<1>5. CASE Stays(r)
  BY <1>3, <1>4, <1>5 DEF Stays, Active
<1>6. CASE IsAccepted(r)
  BY <1>6 DEF IsAccepted, Fresh, Range
<1>7. CASE IsRefused(r) \/ Concludes(r)
  BY <1>7 DEF IsRefused, Concludes, Active
<1>8. CASE Works(r)
  BY <1>3, <1>4, <1>8 DEF Works, Working, Active
<1>9. CASE ReadGroup(r)
  <2>1. Active(r) /\ attempted'[r] = attempted[r] /\ view'[r].rows = <<>>
    BY <1>9 DEF ReadGroup, GiveUp, Answer, Goto, Active, Inv, TypeOK, NoView
  <2> QED BY <1>3, <2>1
<1>10. CASE ReadCandidate(r)
  <2> DEFINE m == view[r].group.members
             rows == view[r].rows
  <2>1. Active(r) /\ attempted'[r] = attempted[r] /\ accounts' = accounts
        /\ view'[r].group.members = m /\ view'[r].rows = Append(rows, accounts[m[Len(rows) + 1]])
    BY <1>10 DEF ReadCandidate, Active, Inv, TypeOK, database
  <2>2. rows \in Seq(Row \cup {NoRow})
    BY DEF Inv, TypeOK
  <2> HIDE DEF rows, m
  <2>3. ASSUME NEW i \in DOMAIN view'[r].rows
        PROVE  view'[r].rows[i] # NoRow /\ accounts'[m[i]] = NoRow => m[i] \in removed'[r]
    <3>1. CASE i \in DOMAIN rows
      <4>1. view'[r].rows[i] = rows[i]
        BY <2>1, <2>2, <3>1
      <4> QED BY <1>4, <2>1, <3>1, <4>1 DEF m, rows
    <3>2. CASE i = Len(rows) + 1
      BY <2>1, <2>2, <3>2
    <3> QED BY <2>1, <2>2, <3>1, <3>2
  <2> QED BY <1>3, <2>1, <2>3
<1>11. CASE Decide(r)
  <2>1. Active(r) /\ pc[r] = "candidates" /\ accounts' = accounts
    BY <1>11 DEF Decide, Active
  <2>2. PICK d \in Decisions(r), c \in CandidatesOf(view[r]) :
          c.id = d.id /\ attempted'[r] = Append(attempted[r], d.id) /\ view'[r].rows = <<>>
    <3>1. ~ GiveUp(r)
      BY DEF GiveUp, Answer, Goto, Active, Inv, TypeOK
    <3>2. PICK d \in Decisions(r), c \in CandidatesOf(view[r]) :
            /\ c.id = d.id
            /\ attempted' = [attempted EXCEPT ![r] = Append(@, d.id)]
            /\ view' = [view EXCEPT ![r].rows = <<>>]
      BY <1>11, <3>1 DEF Decide
    <3>3. attempted'[r] = Append(attempted[r], d.id) /\ view'[r].rows = <<>>
      BY <3>2 DEF Inv, TypeOK
    <3> QED BY <3>2, <3>3
  <2>3. PICK i \in DOMAIN view[r].rows :
          view[r].rows[i] # NoRow /\ d.id = view[r].group.members[i]
    BY <2>2 DEF CandidatesOf
  <2>4. d.id \in AccountId /\ (accounts'[d.id] = NoRow => d.id \in removed'[r])
    BY <1>2, <1>4, <2>1, <2>3
  <2>5. \A a \in Range(attempted'[r]) : a \in Range(attempted[r]) \/ a = d.id
    BY <2>2, <2>4 DEF Range, Inv, TypeOK
  <2> QED BY <1>3, <2>1, <2>2, <2>4, <2>5
<1> QED BY <1>1, <1>5, <1>6, <1>7, <1>8, <1>9, <1>10, <1>11 DEF StepOf

-----------------------------------------------------------------------------
(* Completions.                                                            *)

\* An account the request works on and that is missing was removed under it.
LEMMA CurrentRemoved ==
  ASSUME Inv, RemovalsSeen, NEW r \in Request, pc[r] \in Working, accounts[Current(r)] = NoRow
  PROVE  Current(r) \in removed[r] /\ Current(r) \in Range(attempted[r])
<1>1. Current(r) \in Range(attempted[r])
  BY DEF Inv, TypeOK, RequestOK, Current, Range
<1>2. Active(r)
  BY DEF Active, Working
<1> QED BY <1>1, <1>2 DEF RemovalsSeen

LEMMA NextServed ==
  ASSUME Inv, HistoryType, Fresh, RemovalsSeen, ServedOnce, HNext
  PROVE  ServedOnce'
<1> SUFFICES ASSUME NEW r \in Request
             PROVE  /\ pc'[r] \in Delivering =>
                         served'[r] # <<>> /\ served'[r][Len(served'[r])] = Current(r)'
                    /\ Active(r)' => \A i \in DOMAIN served'[r] :
                         \/ served'[r][i] \in removed'[r]
                         \/ i = Len(served'[r]) /\ pc'[r] \in Delivering
  BY DEF ServedOnce
<1>1. StepOf(r)
  BY StepShape DEF HNext
<1>2. attempted'[r] = attempted[r] => Current(r)' = Current(r)
  BY DEF Current
<1>3. removed[r] \subseteq removed'[r] /\ served[r] \in Seq(AccountId)
  BY HistoryStep DEF HistoryType
<1>4. CASE Stays(r)
  <2>1. served'[r] = served[r]
    BY <1>4, HistoryStep DEF Stays
  <2> QED BY <1>2, <1>3, <1>4, <2>1 DEF Stays, ServedOnce, Active
<1>5. CASE IsAccepted(r)
  <2>1. served'[r] = <<>>
    BY <1>5, HistoryStep DEF IsAccepted, Fresh
  <2> QED BY <1>5, <2>1 DEF IsAccepted, Delivering
<1>6. CASE IsRefused(r) \/ Concludes(r)
  BY <1>6 DEF IsRefused, Concludes, Active, Delivering
<1>7. CASE ReadGroup(r) \/ ReadCandidate(r) \/ Decide(r)
  <2>1. pc[r] \in {"select", "candidates"} /\ pc'[r] \notin Delivering /\ pc'[r] # "success"
    BY <1>7 DEF ReadGroup, ReadCandidate, Decide, GiveUp, Answer, Goto, Inv, TypeOK, Delivering
  <2>2. served'[r] = served[r] /\ Active(r) /\ pc[r] \notin Delivering
    BY <2>1, HistoryStep DEF Active, Delivering
  <2> QED BY <1>3, <2>1, <2>2 DEF ServedOnce
<1>8. CASE Works(r)
  <2>1. Active(r) /\ Current(r)' = Current(r)
    BY <1>2, <1>8 DEF Works, Working, Active
  <2>2. CASE pc[r] = "calling" /\ pc'[r] = "success"
    <3>1. served'[r] = Append(served[r], Current(r)) /\ Current(r) \in AccountId
      BY <1>8, <2>2, HistoryStep, CurrentType DEF Works
    <3>2. /\ Len(served'[r]) = Len(served[r]) + 1 /\ served'[r] # <<>>
          /\ served'[r][Len(served'[r])] = Current(r)
          /\ \A i \in DOMAIN served'[r] :
               \/ i = Len(served'[r])
               \/ i \in DOMAIN served[r] /\ served'[r][i] = served[r][i]
      BY <1>3, <3>1
    <3>3. \A i \in DOMAIN served[r] : served[r][i] \in removed'[r]
      BY <1>3, <2>1, <2>2 DEF ServedOnce, Delivering
    <3> QED BY <2>1, <2>2, <3>2, <3>3 DEF Delivering
  <2>3. CASE pc[r] = "writeSuccess" /\ pc'[r] = "catch"
    <3>1. served'[r] = Front(served[r]) /\ served[r] # <<>>
      BY <2>3, HistoryStep DEF ServedOnce, Delivering
    <3>2. \A i \in DOMAIN served'[r] :
            i \in DOMAIN served[r] /\ i # Len(served[r]) /\ served'[r][i] = served[r][i]
      BY <1>3, <3>1, FrontType
    <3> QED BY <1>3, <2>1, <2>3, <3>2 DEF ServedOnce, Delivering
  <2>4. CASE /\ ~ (pc[r] = "calling" /\ pc'[r] = "success")
             /\ ~ (pc[r] = "writeSuccess" /\ pc'[r] = "catch")
    <3>1. served'[r] = served[r]
      BY <2>4, HistoryStep
    <3>2. CASE pc[r] \in Delivering /\ pc'[r] \notin Delivering
      <4>1. accounts[Current(r)] = NoRow
        BY <1>8, <2>4, <3>2 DEF Works
      <4>2. Current(r) \in removed'[r]
        BY <1>3, <1>8, <4>1, CurrentRemoved DEF Works
      <4> QED BY <1>3, <2>1, <3>1, <3>2, <4>2 DEF ServedOnce
    <3>3. CASE pc[r] \in Delivering /\ pc'[r] \in Delivering
      BY <1>3, <2>1, <3>1, <3>3 DEF ServedOnce
    <3>4. CASE pc[r] \notin Delivering
      <4>1. pc'[r] \notin Delivering
        BY <1>8, <2>4, <3>4 DEF Works
      <4> QED BY <1>3, <2>1, <3>1, <3>4, <4>1 DEF ServedOnce
    <3> QED BY <3>2, <3>3, <3>4
  <2> QED BY <2>2, <2>3, <2>4
<1> QED BY <1>1, <1>4, <1>5, <1>6, <1>7, <1>8 DEF StepOf

LEMMA NextAnswered ==
  ASSUME Inv, HistoryType, Fresh, ServedOnce, Answered, HNext
  PROVE  Answered'
<1> SUFFICES ASSUME NEW r \in Request, pc'[r] = "done"
             PROVE  /\ reply'[r].status = "ok" => reply'[r].account \in Range(served'[r])
                    /\ \A i \in DOMAIN served'[r] :
                         \/ served'[r][i] \in removed'[r]
                         \/ /\ i = Len(served'[r])
                            /\ reply'[r] = [status |-> "ok", account |-> served'[r][i]]
  BY DEF Answered
<1>1. StepOf(r)
  BY StepShape DEF HNext
<1>2. served'[r] = served[r]
  BY HistoryStep
<1>3. removed[r] \subseteq removed'[r] /\ served[r] \in Seq(AccountId)
  BY HistoryStep DEF HistoryType
<1>4. CASE Stays(r)
  BY <1>2, <1>3, <1>4 DEF Stays, Answered
<1>5. CASE IsAccepted(r) \/ Works(r) \/ ReadCandidate(r)
  BY <1>5 DEF IsAccepted, Works, Working, ReadCandidate
<1>6. CASE IsRefused(r)
  <2>1. served'[r] = <<>> /\ reply'[r].status # "ok"
    BY <1>2, <1>6 DEF IsRefused, Fresh
  <2> QED BY <2>1
<1>7. CASE ReadGroup(r) \/ Decide(r)
  <2>1. Active(r) /\ pc[r] \notin Delivering
    BY <1>7 DEF ReadGroup, Decide, Active, Delivering
  <2>2. reply'[r].status \in {"badRequest", "unavailable"}
    BY <1>7 DEF ReadGroup, Decide, GiveUp, Answer, Goto, Inv, TypeOK
  <2> QED BY <1>2, <1>3, <2>1, <2>2 DEF ServedOnce
<1>8. CASE Concludes(r)
  <2>1. Active(r)
    BY <1>8 DEF Concludes, Working, Active
  <2>2. CASE pc[r] \in Delivering
    <3>1. reply'[r] = [status |-> "ok", account |-> Current(r)]
      BY <1>8, <2>2 DEF Concludes
    <3>2. served[r] # <<>> /\ served[r][Len(served[r])] = Current(r)
      BY <2>2 DEF ServedOnce
    <3>3. Current(r) \in Range(served[r])
      BY <1>3, <3>2 DEF Range
    <3>4. \A i \in DOMAIN served[r] : served[r][i] \in removed[r] \/ i = Len(served[r])
      BY <2>1 DEF ServedOnce
    <3> QED BY <1>2, <1>3, <3>1, <3>2, <3>3, <3>4
  <2>3. CASE pc[r] \notin Delivering
    <3>1. reply'[r].status # "ok"
      BY <1>8, <2>3 DEF Concludes
    <3> QED BY <1>2, <1>3, <2>1, <2>3, <3>1 DEF ServedOnce
  <2> QED BY <2>2, <2>3
<1> QED BY <1>1, <1>4, <1>5, <1>6, <1>7, <1>8 DEF StepOf

LEMMA NextThrows ==
  ASSUME Inv, HistoryType, Fresh, RemovalsSeen, ThrowsOnlyAfterRemoval, HNext
  PROVE  ThrowsOnlyAfterRemoval'
<1> SUFFICES ASSUME NEW r \in Request, reply'[r].status = "exception"
             PROVE  Range(attempted'[r]) \cap removed'[r] # {}
  BY DEF ThrowsOnlyAfterRemoval
<1>1. StepOf(r)
  BY StepShape DEF HNext
<1>2. removed[r] \subseteq removed'[r]
  BY HistoryStep
<1>3. pc[r] # "done" => reply[r].status # "exception"
  BY DEF Fresh
<1>4. CASE Stays(r) \/ IsAccepted(r) \/ Works(r)
  BY <1>2, <1>3, <1>4 DEF Stays, IsAccepted, Works, ThrowsOnlyAfterRemoval
<1>5. CASE IsRefused(r)
  BY <1>5 DEF IsRefused
<1>6. CASE ReadGroup(r) \/ ReadCandidate(r) \/ Decide(r)
  BY <1>3, <1>6 DEF ReadGroup, ReadCandidate, Decide, GiveUp, Answer, Goto, Inv, TypeOK
<1>7. CASE Concludes(r)
  BY <1>2, <1>7, CurrentRemoved DEF Concludes
<1> QED BY <1>1, <1>4, <1>5, <1>6, <1>7 DEF StepOf

-----------------------------------------------------------------------------
(* Failover.                                                               *)

\* The clock does not go back.
LEMMA NowGrows ==
  ASSUME Inv, Next
  PROVE  now <= now'
<1> USE DEF Inv, TypeOK, database
<1>1. ASSUME NEW r \in Request, Begin(r) \/ Local(r) \/ ProviderAnswers(r)
      PROVE  now' = now
  BY <1>1 DEF Begin, Local, ProviderAnswers, ReadGroup, ReadCandidate, Decide, Skip,
              CredentialMissing, CredentialUnreadable, ModelMissing, PromptMissing, CallProvider,
              AtDispatch, ProviderSucceeds, ProviderUnauthorized, ProviderRejects,
              InteractionEmpty, ProviderFails, ProviderThrows, AtCall, MarkAuthExpired,
              RecordFailure, WriteFailure, RecordSuccess, WriteSuccess, Verify, WriteVerified
<1>2. CASE Operator
  BY <1>2 DEF Operator, SetAccountEnabled, SetAccountPriority, ConfigureApiKey, RemoveAccount,
              AddAccount, StartEdit, PutSecret, FinishEdit, EraseSecret, DeleteAccount, SaveGroup
<1>3. CASE Tick \/ Finished
  BY <1>3 DEF Tick, Finished, vars
<1> QED BY <1>1, <1>2, <1>3 DEF Next

\* What can be selected by one clock can be selected by a later one.
LEMMA EligibleLater ==
  ASSUME NEW x \in Row, NEW t \in Nat, NEW u \in Nat, t <= u, eligible(x, t)
  PROVE  eligible(x, u)
<1>1. x.cooldownUntil \in Int
  BY DEF Row, NoCooldown
<1> QED BY <1>1 DEF eligible, isCoolingDown

\* The members of the group a request is accepted with are as many as its budget.
LEMMA AcceptedBudget ==
  ASSUME Inv, HistoryType, HNext, NEW r \in Request, IsAccepted(r)
  PROVE  /\ IsFiniteSet(original'[r]) /\ Cardinality(original'[r]) = budget'[r]
         /\ since'[r] = now /\ original'[r] = Range(group.members)
         /\ steady'[r] = {a \in AccountId : Open(a, now)'}
<1>1. Accepted(r)
  BY DEF IsAccepted, Accepted
<1>2. group.members \in Seq(AccountId) /\ IsInjective(group.members)
  BY DEF Inv, TypeOK, Group, MemberList
<1> QED BY <1>1, <1>2, HistoryStep, InjectiveCount DEF IsAccepted

LEMMA NextSteady ==
  ASSUME Inv, HistoryType, Fresh, SteadyOffered, HNext
  PROVE  SteadyOffered'
<1> SUFFICES ASSUME NEW r \in Request, Active(r)'
             PROVE  /\ since'[r] <= now'
                    /\ IsFiniteSet(original'[r]) /\ Cardinality(original'[r]) = budget'[r]
                    /\ steady'[r] \subseteq original'[r]
                    /\ \A a \in steady'[r] :
                         /\ Open(a, since[r])'
                         /\ pc'[r] = "candidates" => Offered(r, a)'
  BY DEF SteadyOffered
<1>1. StepOf(r)
  BY StepShape DEF HNext
<1>2. now \in Nat /\ now' \in Nat /\ now <= now'
  <2>1. Inv'
    BY NextInv DEF HNext
  <2> QED BY <2>1, NowGrows DEF HNext, Inv, TypeOK
<1>3. CASE IsAccepted(r)
  <2>1. steady'[r] \subseteq original'[r]
    BY <1>3, AcceptedBudget DEF IsAccepted, Open, database
  <2>2. \A a \in steady'[r] : Open(a, since[r])'
    BY <1>3, AcceptedBudget DEF IsAccepted, Open, database
  <2> QED BY <1>2, <1>3, <2>1, <2>2, AcceptedBudget DEF IsAccepted
<1>4. CASE Active(r) /\ ~ IsAccepted(r)
  <2>1. /\ since'[r] = since[r] /\ original'[r] = original[r]
        /\ steady'[r] = {a \in steady[r] : Open(a, since[r])'}
    BY <1>4, HistoryStep DEF Active, Accepted
  <2>2. /\ since'[r] <= now' /\ since[r] <= now
        /\ steady'[r] \subseteq original'[r] /\ steady'[r] \subseteq steady[r]
    BY <1>2, <1>4, <2>1 DEF SteadyOffered, HistoryType
  <2>3. \A a \in steady'[r] : Open(a, since[r])'
    BY <2>1 DEF Open
  <2>4. budget'[r] = budget[r]
    BY <1>1, <1>4 DEF StepOf, Stays, Works, IsRefused, Concludes, Active, Inv, TypeOK,
                      ReadGroup, ReadCandidate, Decide
  <2>5. ASSUME NEW a \in steady'[r], pc'[r] = "candidates"
        PROVE  Offered(r, a)'
    <3>1. a \in steady[r] /\ Open(a, since[r])
      BY <1>4, <2>2 DEF SteadyOffered
    <3>2. CASE Stays(r)
      BY <1>4, <2>1, <2>5, <3>1, <3>2 DEF Stays, SteadyOffered, Offered
    <3>3. CASE ReadGroup(r)
      <4>1. view'[r] = [group |-> group, now |-> now, rows |-> <<>>]
        BY <2>5, <3>3 DEF ReadGroup, GiveUp, Answer, Goto, Inv, TypeOK
      <4> QED BY <2>1, <2>2, <3>1, <4>1 DEF Open, Offered
    <3>4. CASE ReadCandidate(r)
      <4> DEFINE m == view[r].group.members
                 rows == view[r].rows
                 next == m[Len(rows) + 1]
      <4>1. /\ view'[r].group = view[r].group /\ view'[r].now = view[r].now
            /\ view'[r].rows = Append(rows, accounts[next]) /\ pc[r] = "candidates"
        BY <3>4 DEF ReadCandidate, Inv, TypeOK
      <4>2. rows \in Seq(Row \cup {NoRow})
        BY DEF Inv, TypeOK
      <4>3. Offered(r, a)
        BY <1>4, <3>1, <4>1 DEF SteadyOffered
      <4> HIDE DEF rows, next
      <4>4. ASSUME NEW i \in DOMAIN view'[r].rows, m[i] = a
            PROVE  /\ view'[r].rows[i] # NoRow
                   /\ automaticRoutingCapable(view'[r].rows[i])
                   /\ eligible(view'[r].rows[i], since[r])
        <5>1. CASE i \in DOMAIN rows
          <6>1. view'[r].rows[i] = rows[i]
            BY <4>1, <4>2, <5>1
          <6> QED BY <4>3, <4>4, <5>1, <6>1 DEF Offered, rows
        <5>2. CASE i = Len(rows) + 1
          <6>1. view'[r].rows[i] = accounts[a]
            BY <4>1, <4>2, <4>4, <5>2 DEF next
          <6> QED BY <3>1, <6>1 DEF Open
        <5> QED BY <4>1, <4>2, <5>1, <5>2
      <4> HIDE DEF m
      <4> QED BY <2>1, <4>1, <4>3, <4>4 DEF Offered, m
    <3>5. CASE IsRefused(r) \/ Decide(r) \/ Works(r) \/ Concludes(r)
      BY <2>5, <3>5 DEF IsRefused, Decide, Works, Working, Concludes, GiveUp, Answer, Goto, Inv, TypeOK
    <3> QED BY <1>1, <1>4, <3>2, <3>3, <3>4, <3>5 DEF StepOf
  <2> QED BY <1>4, <2>1, <2>2, <2>3, <2>4, <2>5 DEF SteadyOffered
<1>5. CASE ~ Active(r) /\ ~ IsAccepted(r)
  BY <1>1, <1>5 DEF StepOf, Stays, IsRefused, Works, Working, Concludes, ReadGroup, ReadCandidate,
                    Decide, Active
<1> QED BY <1>3, <1>4, <1>5

\* The candidates that select has read, as selectInternal compares them.
LEMMA CandidatesRead ==
  ASSUME Inv, NEW r \in Request
  PROVE  LET found == CandidatesOf(view[r])
         IN  /\ found \subseteq Candidate /\ IsFiniteSet(found)
             /\ \A c \in found : c.id \in Range(view[r].group.members)
             /\ \A c \in found, d \in found : c.id = d.id => c = d
<1> DEFINE m == view[r].group.members
           rows == view[r].rows
           read == {j \in DOMAIN rows : rows[j] # NoRow}
           entry == [i \in read |-> [id |-> m[i], row |-> rows[i], used |-> Used[m[i]]]]
           found == CandidatesOf(view[r])
<1>1. /\ m \in Seq(AccountId) /\ IsInjective(m) /\ rows \in Seq(Row \cup {NoRow})
      /\ Len(rows) <= Len(m)
  BY DEF Inv, TypeOK, RequestOK, Group, MemberList
<1>2. found = {entry[i] : i \in read}
  BY DEF CandidatesOf
<1>3. \A i \in read : i \in DOMAIN m /\ m[i] \in AccountId /\ rows[i] \in Row
  BY <1>1
<1>4. \A i \in read : entry[i] \in Candidate /\ entry[i].id = m[i]
  BY <1>3, CompletionRouterAssumption DEF Candidate
<1>5. IsFiniteSet(found)
  <2>1. IsFiniteSet(read)
    <3>1. read \in SUBSET (1 .. Len(rows)) /\ Len(rows) \in Int /\ 1 \in Int
      BY <1>1
    <3>2. IsFiniteSet(1 .. Len(rows))
      BY <3>1, FS_Interval, Zenon
    <3> QED BY <3>1, <3>2, FS_Subset, Zenon
  <2> HIDE DEF found, read
  <2>2. entry \in Surjection(read, found)
    BY <1>2 DEF Surjection
  <2> QED BY <2>1, <2>2, FS_Surjection
<1>6. \A c \in found : \E i \in read : c = entry[i]
  BY <1>2
<1> HIDE DEF found, entry, read
<1>7. \A c \in found : c \in Candidate /\ c.id \in Range(m)
  BY <1>3, <1>4, <1>6 DEF Range
<1>8. ASSUME NEW c \in found, NEW d \in found, c.id = d.id
      PROVE  c = d
  <2>1. PICK i \in read : c = entry[i]
    BY <1>6
  <2>2. PICK j \in read : d = entry[j]
    BY <1>6
  <2>3. i = j
    BY <1>1, <1>3, <1>4, <1>8, <2>1, <2>2 DEF IsInjective
  <2> QED BY <2>1, <2>2, <2>3
<1> QED BY <1>5, <1>7, <1>8 DEF found

\* An account that was open all along is a candidate until it is tried.
LEMMA SteadySelectable ==
  ASSUME Inv, HistoryType, SteadyOffered, NEW r \in Request,
         pc[r] = "candidates", Len(view[r].rows) = Len(view[r].group.members),
         Decisions(r) = {}
  PROVE  steady[r] \subseteq Range(attempted[r])
<1> SUFFICES ASSUME NEW a \in steady[r], a \notin Range(attempted[r])
             PROVE  FALSE
  OBVIOUS
<1> DEFINE g == view[r].group
           found == CandidatesOf(view[r])
<1>1. Offered(r, a)
  BY DEF SteadyOffered, Active
<1>2. g \in Group /\ view[r].now \in Nat /\ since[r] \in Nat
  BY DEF Inv, TypeOK, HistoryType
<1>3. PICK i \in DOMAIN g.members : g.members[i] = a
  BY <1>1 DEF Offered, Range
<1>4. i \in DOMAIN view[r].rows /\ view[r].rows[i] \in Row \cup {NoRow}
  BY <1>2, <1>3 DEF Inv, TypeOK, Group, MemberList
<1>5. /\ view[r].rows[i] # NoRow /\ automaticRoutingCapable(view[r].rows[i])
      /\ eligible(view[r].rows[i], view[r].now)
  BY <1>1, <1>2, <1>3, <1>4, EligibleLater DEF Offered
<1> DEFINE c == [id |-> a, row |-> view[r].rows[i], used |-> Used[a]]
<1>6. c \in found
  BY <1>3, <1>4, <1>5 DEF CandidatesOf
<1>7. c \in Selectable(g, found, view[r].now, Range(attempted[r]))
  BY <1>5, <1>6 DEF Selectable
<1>8. g.enabled /\ g.strategy # "MANUAL"
  BY <1>1 DEF Offered
<1>9. /\ found \subseteq Candidate /\ IsFiniteSet(found)
      /\ \A b \in found : b.id \in Range(g.members)
      /\ \A b \in found, d \in found : b.id = d.id => b = d
  BY CandidatesRead, Zenon
<1> HIDE DEF c, found, g
<1>10. selectInternal(g, found, view[r].now, Range(attempted[r])) # {}
  BY <1>2, <1>7, <1>8, <1>9, SelectionExists DEF g
<1> QED BY <1>10 DEF Decisions, g, found

\* When the budget is spent on the original members, all of them were tried.
LEMMA BudgetSpent ==
  ASSUME Inv, AttemptsOK, HistoryType, SteadyOffered, NEW r \in Request, Active(r),
         Len(attempted[r]) >= budget[r], Range(attempted[r]) \subseteq original[r]
  PROVE  steady[r] \subseteq Range(attempted[r])
<1>1. attempted[r] \in Seq(AccountId) /\ IsInjective(attempted[r]) /\ Len(attempted[r]) = budget[r]
  <2>1. /\ attempted[r] \in Seq(AccountId) /\ budget[r] \in Nat
        /\ IsInjective(attempted[r]) /\ Len(attempted[r]) <= budget[r]
    BY DEF Inv, TypeOK, AttemptsOK, AttemptsDistinct
  <2> QED BY <2>1
<1>2. Cardinality(Range(attempted[r])) = Cardinality(original[r]) /\ IsFiniteSet(original[r])
  BY <1>1, InjectiveCount DEF SteadyOffered
<1>3. original[r] = Range(attempted[r])
  BY <1>2, FS_Subset
<1> QED BY <1>3 DEF SteadyOffered

LEMMA NextExhaustive ==
  ASSUME Inv, AttemptsOK, HistoryType, Fresh, SteadyOffered, FailoverExhaustive, HNext
  PROVE  FailoverExhaustive'
<1> SUFFICES ASSUME NEW r \in Request, pc'[r] = "done",
                    reply'[r].status \in {"unavailable", "badRequest"},
                    Range(attempted'[r]) \subseteq original'[r]
             PROVE  steady'[r] \subseteq Range(attempted'[r])
  BY DEF FailoverExhaustive
<1>1. StepOf(r)
  BY StepShape DEF HNext
<1>2. original'[r] = original[r] /\ steady'[r] \subseteq steady[r]
  BY HistoryStep DEF Accepted
<1>3. CASE Stays(r)
  BY <1>2, <1>3 DEF Stays, FailoverExhaustive
<1>4. CASE IsAccepted(r) \/ Works(r) \/ ReadCandidate(r)
  BY <1>4 DEF IsAccepted, Works, Working, ReadCandidate
<1>5. CASE IsRefused(r)
  BY <1>2, <1>5 DEF IsRefused, Fresh
<1>6. CASE Concludes(r)
  BY <1>6 DEF Concludes
<1>7. CASE ReadGroup(r)
  <2>1. Active(r) /\ attempted'[r] = attempted[r] /\ (Len(attempted[r]) >= budget[r] \/ ~ group.enabled)
    BY <1>7 DEF ReadGroup, Active, Goto, Inv, TypeOK
  <2>2. CASE ~ group.enabled
    BY <1>2, <2>1, <2>2 DEF SteadyOffered, Open
  <2>3. CASE Len(attempted[r]) >= budget[r]
    BY <1>2, <2>1, <2>3, BudgetSpent
  <2> QED BY <2>1, <2>2, <2>3
<1>8. CASE Decide(r)
  <2>1. Decisions(r) = {} /\ attempted' = attempted
    BY <1>8 DEF Decide, Goto, Inv, TypeOK
  <2>2. pc[r] = "candidates" /\ Len(view[r].rows) = Len(view[r].group.members)
    BY <1>8 DEF Decide
  <2> QED BY <1>2, <2>1, <2>2, SteadySelectable
<1> QED BY <1>1, <1>3, <1>4, <1>5, <1>6, <1>7, <1>8 DEF StepOf

-----------------------------------------------------------------------------
(* The theorems.                                                           *)

HistoryInv ==
  /\ Inv /\ AttemptsOK /\ HistoryType /\ Fresh /\ RemovalsSeen
  /\ ServedOnce /\ Answered /\ ThrowsOnlyAfterRemoval
  /\ SteadyOffered /\ FailoverExhaustive

\* A history behaves as the program does.
LEMMA HistoryIsSpec == HSpec => Spec
<1>1. HInit => Init
  BY DEF HInit
<1>2. [HNext]_hvars => [Next]_vars
  BY DEF HNext, hvars
<1> QED BY <1>1, <1>2, PTL DEF HSpec, Spec

LEMMA HistoryInvInit == HInit => HistoryInv
<1> SUFFICES ASSUME HInit PROVE HistoryInv
  OBVIOUS
<1>1. Inv /\ HistoryType /\ Fresh
  BY InitHistory
<1>2. \A r \in Request : pc[r] = "idle" /\ reply[r].status = "none" /\ attempted[r] = <<>>
  BY DEF HInit, Init
<1>3. AttemptsOK
  BY <1>1, <1>2 DEF AttemptsOK, AttemptsDistinct, IsInjective, Inv, TypeOK
<1>4. RemovalsSeen /\ SteadyOffered
  BY <1>2 DEF RemovalsSeen, SteadyOffered, Active
<1>5. ServedOnce /\ Answered
  BY <1>2 DEF ServedOnce, Answered, Active, Delivering
<1>6. ThrowsOnlyAfterRemoval /\ FailoverExhaustive
  BY <1>2 DEF ThrowsOnlyAfterRemoval, FailoverExhaustive
<1> QED BY <1>1, <1>3, <1>4, <1>5, <1>6 DEF HistoryInv

LEMMA HistoryInvNext == HistoryInv /\ [HNext]_hvars => HistoryInv'
<1> SUFFICES ASSUME HistoryInv, [HNext]_hvars PROVE HistoryInv'
  OBVIOUS
<1>1. CASE HNext
  <2> USE <1>1 DEF HistoryInv
  <2>1. Inv' /\ AttemptsOK'
    BY NextInv, NextAttempts DEF HNext
  <2>2. HistoryType' /\ Fresh'
    BY <2>1, NextHistoryType, NextFresh
  <2>3. RemovalsSeen' /\ ThrowsOnlyAfterRemoval'
    BY NextRemovals, NextThrows
  <2>4. ServedOnce' /\ Answered'
    BY NextServed, NextAnswered
  <2>5. SteadyOffered' /\ FailoverExhaustive'
    BY NextSteady, NextExhaustive
  <2> QED BY <2>1, <2>2, <2>3, <2>4, <2>5
<1>2. CASE UNCHANGED hvars
  <2> USE <1>2 DEF hvars, vars, database, operator
  <2>1. Inv' /\ AttemptsOK'
    BY NextInv, NextAttempts DEF HistoryInv
  <2>2. HistoryType' /\ Fresh' /\ RemovalsSeen'
    BY DEF HistoryInv, HistoryType, Fresh, RemovalsSeen, Active
  <2>3. ServedOnce' /\ Answered' /\ ThrowsOnlyAfterRemoval'
    BY DEF HistoryInv, ServedOnce, Answered, ThrowsOnlyAfterRemoval, Active, Current
  <2>4. SteadyOffered' /\ FailoverExhaustive'
    BY DEF HistoryInv, SteadyOffered, FailoverExhaustive, Active, Open, Offered
  <2> QED BY <2>1, <2>2, <2>3, <2>4 DEF HistoryInv
<1> QED BY <1>1, <1>2

\* The invariant of a request and its history.
THEOREM HistoryInvariance == HSpec => []HistoryInv
BY HistoryInvInit, HistoryInvNext, PTL DEF HSpec

\* A request of chatCompletions that gives up has tried every account that
\* could have been selected ever since it began, unless one of its attempts went
\* to an account that joined the group meanwhile.
THEOREM Exhaustive == HSpec => []FailoverExhaustive
<1>1. HistoryInv => FailoverExhaustive
  BY DEF HistoryInv
<1> QED BY <1>1, HistoryInvariance, PTL

\* A readable completion that a provider delivers is the last one that is paid
\* for and the one the client gets, unless its account was removed meanwhile.
THEOREM SuccessDelivered == HSpec => []SuccessReachesClient
<1>1. HistoryInv => SuccessReachesClient
  <2> SUFFICES ASSUME HistoryInv, NEW r \in Request
               PROVE  /\ \A i \in DOMAIN served[r] :
                           \/ served[r][i] \in removed[r]
                           \/ /\ i = Len(served[r])
                              /\ pc[r] = "done" =>
                                   reply[r] = [status |-> "ok", account |-> served[r][i]]
                      /\ reply[r].status = "ok" => reply[r].account \in Range(served[r])
    BY DEF SuccessReachesClient
  <2>1. CASE pc[r] = "idle"
    <3>1. served[r] = <<>> /\ reply[r].status = "none"
      BY <2>1 DEF HistoryInv, Fresh
    <3> QED BY <3>1
  <2>2. CASE Active(r)
    <3>1. pc[r] # "done" /\ reply[r].status = "none"
      BY <2>2 DEF HistoryInv, Fresh, Active
    <3> QED BY <2>2, <3>1 DEF HistoryInv, ServedOnce
  <2>3. CASE pc[r] = "done"
    BY <2>3 DEF HistoryInv, Answered
  <2> QED BY <2>1, <2>2, <2>3 DEF Active
<1> QED BY <1>1, HistoryInvariance, PTL

\* chatCompletions throws only when an account it had selected was removed.
THEOREM ThrowsExcused == HSpec => []ThrowsOnlyAfterRemoval
<1>1. HistoryInv => ThrowsOnlyAfterRemoval
  BY DEF HistoryInv
<1> QED BY <1>1, HistoryInvariance, PTL

=============================================================================
