----------------------- MODULE CompletionRouterProofs -----------------------
(***************************************************************************)
(* Theorems about CompletionRouter, for every set of accounts, requests,   *)
(* groups and edits and without a bound on time: type correctness, the     *)
(* bound on attempts, the automatic boundary and the cooldown of rows.     *)
(***************************************************************************)
EXTENDS CompletionRouter, RoutingPolicyProofs

(***************************************************************************)
(* The strengthening of the type invariant: what each stage of a request   *)
(* and of an edit relies on.                                               *)
(***************************************************************************)

\* A request works on an account between its selection and its last write.
Working == {"dispatch", "calling", "expire", "failure", "catch", "writeFailure",
            "success", "writeSuccess", "verify", "writeVerified"}

RequestOK ==
  \A r \in Request :
    /\ pc[r] \in Working => attempted[r] # <<>> /\ row[r] \in Row
    /\ pc[r] = "candidates" => Len(attempted[r]) < budget[r]
    /\ Len(view[r].rows) <= Len(view[r].group.members)

OperatorOK ==
  /\ opPc # "idle" => opId \in AccountId
  /\ opPc \in {"put", "update"} => opRow \in Row

Inv == TypeOK /\ RequestOK /\ OperatorOK

(***************************************************************************)
(* A request that has not begun has attempted nothing.                     *)
(***************************************************************************)

AttemptsOK ==
  AttemptsDistinct /\ \A r \in Request : pc[r] = "idle" => attempted[r] = <<>>

(***************************************************************************)
(* The row a request dispatches on was selectable when it was read.        *)
(***************************************************************************)

Justified(r) ==
  /\ eligible(row[r], view[r].now)
  /\ IF view[r].group.strategy = "MANUAL"
     THEN Current(r) = view[r].group.manual
     ELSE automaticRoutingCapable(row[r])

DispatchOK == \A r \in Request : pc[r] \in {"dispatch", "calling"} => Justified(r)

(***************************************************************************)
(* Every copy of a row that may still be written back is sound, not only   *)
(* the stored rows: the copies are what overtakes concurrent writes.       *)
(***************************************************************************)

HeldSound == \A r \in Request : row[r] # NoRow => CooldownSound(row[r], now)

ReadSound ==
  \A r \in Request : \A i \in DOMAIN view[r].rows :
    view[r].rows[i] # NoRow => CooldownSound(view[r].rows[i], now)

EditSound == opRow # NoRow => CooldownSound(opRow, now)

CopiesSound == CooldownBounded /\ HeldSound /\ ReadSound /\ EditSound

-----------------------------------------------------------------------------
(* Type correctness.                                                       *)

\* The view a request starts from and ends with.
LEMMA NoViewType == NoView \in [group : Group, now : Nat, rows : Seq(Row \cup {NoRow})]
BY DEF NoView, Group, MemberList, IsInjective, Strategy

LEMMA InitInv == Init => Inv
<1> SUFFICES ASSUME Init PROVE Inv
  OBVIOUS
<1> USE CompletionRouterAssumption
<1>1. TypeOK
  BY NoViewType DEF Init, TypeOK, Stage, Body, HasMessages, HasModel, ReplyStatus
<1>2. RequestOK
  BY DEF Init, RequestOK, Working, NoView
<1>3. OperatorOK
  BY DEF Init, OperatorOK
<1> QED BY <1>1, <1>2, <1>3 DEF Inv

\* What every stage that has a current account knows of it.
LEMMA CurrentType ==
  ASSUME Inv, NEW r \in Request, pc[r] \in Working
  PROVE  Current(r) \in AccountId /\ row[r] \in Row
BY DEF Inv, TypeOK, RequestOK, Current

LEMMA UpdateAccountType ==
  ASSUME TypeOK, NEW a \in AccountId, NEW new \in Row, UpdateAccount(a, new)
  PROVE  accounts' \in [AccountId -> Row \cup {NoRow}]
BY DEF UpdateAccount, TypeOK

\* An answer leaves the local state of a request well typed and empty.
LEMMA AnswerInv ==
  ASSUME Inv, NEW r \in Request, NEW status \in ReplyStatus,
         NEW a \in AccountId \cup {NoAccount},
         Answer(r, status, a), UNCHANGED <<attempted, budget>>
  PROVE  /\ pc' \in [Request -> Stage]
         /\ view' \in [Request -> [group : Group, now : Nat, rows : Seq(Row \cup {NoRow})]]
         /\ row' \in [Request -> Row \cup {NoRow}]
         /\ reply' \in [Request -> [status : ReplyStatus, account : AccountId \cup {NoAccount}]]
         /\ RequestOK'
<1> USE DEF Inv, TypeOK, Answer, Goto
<1>1. pc' \in [Request -> Stage] /\ row' \in [Request -> Row \cup {NoRow}]
  BY DEF Stage
<1>2. view' \in [Request -> [group : Group, now : Nat, rows : Seq(Row \cup {NoRow})]]
  BY NoViewType
<1>3. reply' \in [Request -> [status : ReplyStatus, account : AccountId \cup {NoAccount}]]
  OBVIOUS
<1>4. Len(NoView.rows) <= Len(NoView.group.members)
  BY DEF NoView
<1>5. RequestOK'
  BY <1>1, <1>4 DEF RequestOK, Working
<1> QED BY <1>1, <1>2, <1>3, <1>5

\* The candidates select has read are accounts and their rows.
LEMMA SelectedType ==
  ASSUME Inv, NEW r \in Request
  PROVE  \A c \in CandidatesOf(view[r]) : c.id \in AccountId /\ c.row \in Row
BY DEF Inv, TypeOK, RequestOK, CandidatesOf, Group, MemberList

\* Every step of a request keeps Inv.
LEMMA RequestInv ==
  ASSUME Inv, NEW r \in Request, Begin(r) \/ Local(r) \/ ProviderAnswers(r)
  PROVE  Inv'
<1> USE DEF Inv, TypeOK, RequestOK, OperatorOK, Working, Stage, ReplyStatus, database, operator
<1>1. CASE Begin(r)
  <2>1. ASSUME NEW status \in ReplyStatus, Answer(r, status, NoAccount), UNCHANGED budget
        PROVE  Inv'
    <3>1. body' \in [Request -> Body]
      BY <1>1, CompletionRouterAssumption DEF Begin
    <3>2. UNCHANGED <<accounts, group, credentials, now, attempted, budget, configError,
                      opPc, opId, opRow, edits>>
      BY <1>1, <2>1 DEF Begin
    <3> QED BY <2>1, <3>1, <3>2, AnswerInv
  <2>2. CASE Goto(r, "select") /\ budget' = [budget EXCEPT ![r] = Len(group.members)]
               /\ UNCHANGED <<view, row, reply>>
    BY <1>1, <2>2, CompletionRouterAssumption DEF Begin, Goto, Group, MemberList
  <2> QED BY <1>1, <2>1, <2>2 DEF Begin
<1>2. CASE ReadGroup(r)
  <2>1. CASE GiveUp(r)
    BY <1>2, <2>1, AnswerInv DEF ReadGroup, GiveUp
  <2>2. CASE ~ GiveUp(r)
    <3> DEFINE v == [group |-> group, now |-> now, rows |-> <<>>]
    <3>1. /\ v \in [group : Group, now : Nat, rows : Seq(Row \cup {NoRow})]
          /\ Len(v.rows) <= Len(v.group.members)
      BY DEF Group, MemberList
    <3>2. view' = [view EXCEPT ![r] = v]
      BY <1>2, <2>2 DEF ReadGroup
    <3>3. /\ pc' = [pc EXCEPT ![r] = "candidates"] /\ row' = [row EXCEPT ![r] = NoRow]
          /\ UNCHANGED <<database, body, attempted, budget, configError, reply, operator>>
          /\ Len(attempted[r]) < budget[r]
      BY <1>2, <2>2 DEF ReadGroup, Goto
    <3> HIDE DEF v
    <3>4. TypeOK' /\ OperatorOK'
      BY <3>1, <3>2, <3>3
    <3>5. RequestOK'
      BY <3>1, <3>2, <3>3
    <3> QED BY <3>4, <3>5
  <2> QED BY <2>1, <2>2
<1>3. CASE ReadCandidate(r)
  <2> DEFINE a == view[r].group.members[Len(view[r].rows) + 1]
             v == [view[r] EXCEPT !.rows = Append(@, accounts[a])]
  <2>1. a \in AccountId /\ accounts[a] \in Row \cup {NoRow}
    BY <1>3 DEF ReadCandidate, Group, MemberList
  <2>2. /\ Append(view[r].rows, accounts[a]) \in Seq(Row \cup {NoRow})
        /\ Len(Append(view[r].rows, accounts[a])) <= Len(view[r].group.members)
    BY <1>3, <2>1 DEF ReadCandidate, Group, MemberList
  <2>3. /\ v \in [group : Group, now : Nat, rows : Seq(Row \cup {NoRow})]
        /\ Len(v.rows) <= Len(v.group.members)
    BY <2>2
  <2>4. view' = [view EXCEPT ![r] = v]
    BY <1>3 DEF ReadCandidate
  <2> HIDE DEF v
  <2> QED BY <1>3, <2>3, <2>4 DEF ReadCandidate
<1>4. CASE Decide(r)
  <2>1. CASE Decisions(r) = {}
    BY <1>4, <2>1, AnswerInv DEF Decide, GiveUp
  <2>2. CASE Decisions(r) # {}
    <3>1. PICK d \in Decisions(r), c \in CandidatesOf(view[r]) :
            /\ c.id = d.id
            /\ attempted' = [attempted EXCEPT ![r] = Append(@, d.id)]
            /\ row' = [row EXCEPT ![r] = c.row]
            /\ view' = [view EXCEPT ![r].rows = <<>>]
            /\ group' = IF view[r].group.strategy = "ROUND_ROBIN"
                        THEN [group EXCEPT !.lastIndex = d.index]
                        ELSE group
            /\ Goto(r, "dispatch")
            /\ UNCHANGED reply
      BY <1>4, <2>2 DEF Decide
    <3>2. d.id \in AccountId /\ c.row \in Row
      BY <1>4, <3>1, SelectedType DEF Decide
    <3>3. view[r].group.strategy = "ROUND_ROBIN" => d.index \in Int
      BY DEF Decisions, selectInternal
    <3>4. group' \in Group
      BY <3>1, <3>3 DEF Group
    <3> DEFINE tried == Append(attempted[r], d.id)
               v == [view[r] EXCEPT !.rows = <<>>]
    <3>5. /\ tried \in Seq(AccountId) /\ Len(tried) = Len(attempted[r]) + 1
          /\ Len(attempted[r]) \in Nat
      BY <3>2
    <3>6. Len(tried) # Len(<<>>)
      BY <3>5
    <3>7. <<>> \in Seq(Row \cup {NoRow})
      OBVIOUS
    <3>8. v \in [group : Group, now : Nat, rows : Seq(Row \cup {NoRow})]
      BY <3>7
    <3>9. Len(v.rows) <= Len(v.group.members)
      BY DEF Group, MemberList
    <3>10. attempted' = [attempted EXCEPT ![r] = tried] /\ view' = [view EXCEPT ![r] = v]
      BY <3>1
    <3>11. UNCHANGED <<accounts, credentials, now, body, budget, configError,
                       opPc, opId, opRow, edits>>
      BY <1>4 DEF Decide
    <3> HIDE DEF tried, v
    <3>12. attempted' \in [Request -> Seq(AccountId)]
      BY <3>5, <3>10
    <3>13. view' \in [Request -> [group : Group, now : Nat, rows : Seq(Row \cup {NoRow})]]
      BY <3>8, <3>10
    <3>14. pc' \in [Request -> Stage] /\ row' \in [Request -> Row \cup {NoRow}]
      BY <3>1, <3>2 DEF Goto
    <3>15. TypeOK'
      BY <3>1, <3>4, <3>11, <3>12, <3>13, <3>14
    <3>16. RequestOK'
      BY <3>1, <3>2, <3>6, <3>9, <3>10, <3>11 DEF Goto
    <3> QED BY <3>11, <3>15, <3>16
  <2> QED BY <2>1, <2>2
<1>5. CASE Skip(r)
  BY <1>5 DEF Skip, AtDispatch, Goto
<1>6. CASE CredentialMissing(r)
  BY <1>6 DEF CredentialMissing, AtDispatch, Goto
<1>7. CASE CredentialUnreadable(r)
  BY <1>7 DEF CredentialUnreadable, AtDispatch, Goto
<1>8. CASE ModelMissing(r)
  BY <1>8 DEF ModelMissing, AtDispatch, Goto
<1>9. CASE PromptMissing(r)
  BY <1>9 DEF PromptMissing, AtDispatch, Goto
<1>10. CASE CallProvider(r)
  BY <1>10 DEF CallProvider, AtDispatch, Goto
<1>11. CASE ProviderSucceeds(r)
  BY <1>11 DEF ProviderSucceeds, AtCall, Returns, Goto
<1>12. CASE ProviderUnauthorized(r)
  BY <1>12 DEF ProviderUnauthorized, AtCall, Returns, Goto
<1>13. CASE ProviderRejects(r)
  BY <1>13, AnswerInv, CurrentType DEF ProviderRejects, AtCall
<1>14. CASE InteractionEmpty(r)
  BY <1>14, AnswerInv DEF InteractionEmpty, AtCall
<1>15. CASE ProviderFails(r)
  BY <1>15 DEF ProviderFails, AtCall, Returns, Goto
<1>16. CASE ProviderThrows(r)
  BY <1>16 DEF ProviderThrows, AtCall, Returns, Goto
<1>17. CASE MarkAuthExpired(r)
  <2>1. Current(r) \in AccountId /\ [row[r] EXCEPT !.status = "AUTH_EXPIRED"] \in Row
    BY <1>17, CurrentType DEF MarkAuthExpired, Row, Status
  <2>2. accounts' \in [AccountId -> Row \cup {NoRow}]
    BY <1>17, <2>1, UpdateAccountType DEF MarkAuthExpired
  <2> QED BY <1>17, <2>2 DEF MarkAuthExpired, Goto
<1>18. CASE RecordFailure(r)
  <2> DEFINE found == accounts[Current(r)]
  <2>1. found \in Row \cup {NoRow}
    BY <1>18, CurrentType DEF RecordFailure
  <2>2. CASE found # NoRow
    <3>1. FailureRecorded(found, now) \in Row
      BY <2>1, <2>2, FailureRecordedType
    <3>2. row' = [row EXCEPT ![r] = FailureRecorded(found, now)] /\ Goto(r, "writeFailure")
          /\ UNCHANGED <<view, reply>>
      BY <1>18, <2>2 DEF RecordFailure
    <3> QED BY <1>18, <3>1, <3>2 DEF RecordFailure, Goto
  <2>3. CASE found = NoRow /\ pc[r] = "failure"
    BY <1>18, <2>3 DEF RecordFailure, Returns, Goto
  <2>4. CASE found = NoRow /\ pc[r] = "catch"
    BY <1>18, <2>4, AnswerInv DEF RecordFailure
  <2> QED BY <1>18, <2>2, <2>3, <2>4 DEF RecordFailure
<1>19. CASE WriteFailure(r)
  <2>1. Current(r) \in AccountId /\ row[r] \in Row
    BY <1>19, CurrentType DEF WriteFailure, Row, Status
  <2>2. accounts' \in [AccountId -> Row \cup {NoRow}]
    BY <1>19, <2>1, UpdateAccountType DEF WriteFailure
  <2> QED BY <1>19, <2>2 DEF WriteFailure, Goto
<1>20. CASE RecordSuccess(r)
  <2> DEFINE found == accounts[Current(r)]
  <2>1. found \in Row \cup {NoRow}
    BY <1>20, CurrentType DEF RecordSuccess
  <2>2. CASE found # NoRow
    <3>1. SuccessRecorded(found) \in Row
      BY <2>1, <2>2, SuccessRecordedType
    <3>2. row' = [row EXCEPT ![r] = SuccessRecorded(found)] /\ Goto(r, "writeSuccess")
          /\ UNCHANGED <<view, reply>>
      BY <1>20, <2>2 DEF RecordSuccess
    <3> QED BY <1>20, <3>1, <3>2 DEF RecordSuccess, Goto
  <2>3. CASE found = NoRow
    BY <1>20, <2>3 DEF RecordSuccess, Returns, Goto
  <2> QED BY <2>2, <2>3
<1>21. CASE WriteSuccess(r)
  <2>1. Current(r) \in AccountId /\ row[r] \in Row
    BY <1>21, CurrentType DEF WriteSuccess
  <2>2. accounts' \in [AccountId -> Row \cup {NoRow}]
    BY <1>21, <2>1, UpdateAccountType DEF WriteSuccess
  <2>3. CASE Returns(r, "verify")
    BY <1>21, <2>2, <2>3 DEF WriteSuccess, Returns, Goto
  <2>4. CASE Answer(r, "ok", Current(r))
    BY <1>21, <2>1, <2>2, <2>4, AnswerInv DEF WriteSuccess
  <2>5. CASE Returns(r, "catch")
    BY <1>21, <2>2, <2>5 DEF WriteSuccess, Returns, Goto
  <2> QED BY <1>21, <2>3, <2>4, <2>5 DEF WriteSuccess
<1>22. CASE Verify(r)
  <2> DEFINE found == accounts[Current(r)]
  <2>1. Current(r) \in AccountId /\ found \in Row \cup {NoRow}
    BY <1>22, CurrentType DEF Verify
  <2>2. CASE found # NoRow /\ found.status = "WARNING" /\ Goto(r, "writeVerified")
               /\ row' = [row EXCEPT ![r] = [found EXCEPT !.status = "READY"]]
               /\ UNCHANGED <<view, reply>>
    <3>1. [found EXCEPT !.status = "READY"] \in Row
      BY <2>1, <2>2 DEF Row, Status
    <3> QED BY <1>22, <2>2, <3>1 DEF Verify, Goto
  <2>3. CASE Answer(r, "ok", Current(r))
    BY <1>22, <2>1, <2>3, AnswerInv DEF Verify
  <2> QED BY <1>22, <2>2, <2>3 DEF Verify
<1>23. CASE WriteVerified(r)
  <2>1. Current(r) \in AccountId /\ row[r] \in Row
    BY <1>23, CurrentType DEF WriteVerified
  <2>2. accounts' \in [AccountId -> Row \cup {NoRow}]
    BY <1>23, <2>1, UpdateAccountType DEF WriteVerified
  <2> QED BY <1>23, <2>1, <2>2, AnswerInv DEF WriteVerified
<1> QED BY <1>1, <1>2, <1>3, <1>4, <1>5, <1>6, <1>7, <1>8, <1>9, <1>10, <1>11, <1>12, <1>13, <1>14, <1>15, <1>16, <1>17, <1>18, <1>19, <1>20, <1>21, <1>22, <1>23 DEF Local, ProviderAnswers

\* An edit of a row begins with a row, the removal of one with none.
LEMMA StartEditInv ==
  ASSUME Inv, NEW a \in AccountId, NEW stage \in {"put", "update", "erase", "delete"},
         NEW new \in Row \cup {NoRow}, StartEdit(a, stage, new),
         stage \in {"put", "update"} => new \in Row
  PROVE  Inv'
BY DEF Inv, TypeOK, RequestOK, OperatorOK, StartEdit, database, requests

\* Every edit of the operator keeps Inv.
LEMMA OperatorInv ==
  ASSUME Inv, Operator
  PROVE  Inv'
<1> USE DEF Inv, TypeOK, RequestOK, OperatorOK, database, requests
<1>1. ASSUME NEW a \in AccountId, SetAccountEnabled(a) PROVE Inv'
  <2>1. accounts[a] \in Row
    BY <1>1 DEF SetAccountEnabled
  <2>2. PICK e \in BOOLEAN : StartEdit(a, "update", [accounts[a] EXCEPT !.enabled = e])
    BY <1>1 DEF SetAccountEnabled
  <2>3. [accounts[a] EXCEPT !.enabled = e] \in Row
    BY <2>1 DEF Row
  <2> QED BY <2>2, <2>3, StartEditInv
<1>2. ASSUME NEW a \in AccountId, SetAccountPriority(a) PROVE Inv'
  <2>1. accounts[a] \in Row
    BY <1>2 DEF SetAccountPriority
  <2>2. PICK p \in Int : StartEdit(a, "update", [accounts[a] EXCEPT !.priority = p])
    BY <1>2, CompletionRouterAssumption DEF SetAccountPriority
  <2>3. [accounts[a] EXCEPT !.priority = p] \in Row
    BY <2>1 DEF Row
  <2> QED BY <2>2, <2>3, StartEditInv
<1>3. ASSUME NEW a \in AccountId, ConfigureApiKey(a) PROVE Inv'
  <2>1. accounts[a] \in Row
    BY <1>3 DEF ConfigureApiKey
  <2>2. \A mode \in ProviderMode, s \in Status : KeyConfigured(accounts[a], mode, s) \in Row
    BY <2>1 DEF KeyConfigured, Row
  <2>3. \A s \in Status : [accounts[a] EXCEPT !.status = s] \in Row
    BY <2>1 DEF Row
  <2>4. ModesOf["zai"] \subseteq ProviderMode /\ "api-project" \in ProviderMode
    <3>1. {"zai", "antigravity"} \subseteq ProviderName /\ "api-project" \in ModesOf["antigravity"]
      BY DEF ProviderName, ModesOf
    <3> QED BY <3>1 DEF ProviderMode
  <2>5. {"WARNING", "READY", "AUTH_EXPIRED", "ERROR"} \subseteq Status
    BY DEF Status
  <2> QED BY <1>3, <2>2, <2>3, <2>4, <2>5, StartEditInv DEF ConfigureApiKey
<1>4. ASSUME NEW a \in AccountId, RemoveAccount(a) PROVE Inv'
  BY <1>4, StartEditInv DEF RemoveAccount
<1>5. ASSUME NEW a \in AccountId, AddAccount(a) PROVE Inv'
  <2>1. Provider[a] \in ProviderName
    BY CompletionRouterAssumption
  <2>2. ModesOf[Provider[a]] \subseteq ProviderMode
    BY <2>1 DEF ProviderMode, ProviderName
  <2>3. \A mode \in ModesOf[Provider[a]] :
          [provider |-> Provider[a], providerMode |-> mode, credentialRef |-> FALSE,
           status |-> "AUTH_EXPIRED", priority |-> 100, enabled |-> TRUE,
           consecutiveFailures |-> 0, cooldownUntil |-> NoCooldown] \in Row
    BY <2>1, <2>2 DEF Row, Status
  <2>4. accounts' \in [AccountId -> Row \cup {NoRow}]
    BY <1>5, <2>3 DEF AddAccount
  <2> QED BY <1>5, <2>4 DEF AddAccount
<1>6. CASE PutSecret
  BY <1>6 DEF PutSecret
<1>7. CASE FinishEdit
  <2>1. accounts' \in [AccountId -> Row \cup {NoRow}]
    BY <1>7, UpdateAccountType DEF FinishEdit
  <2> QED BY <1>7, <2>1 DEF FinishEdit
<1>8. CASE EraseSecret
  BY <1>8 DEF EraseSecret
<1>9. CASE DeleteAccount
  <2>2. group' \in Group
    BY <1>9, MembershipDeletedType DEF DeleteAccount
  <2>3. accounts' \in [AccountId -> Row \cup {NoRow}]
    BY <1>9 DEF DeleteAccount
  <2> QED BY <1>9, <2>2, <2>3 DEF DeleteAccount
<1>10. CASE SaveGroup
  <2>1. group' \in Group
    <3>1. PICK g \in Group : group' = [g EXCEPT !.lastIndex = -1]
      BY <1>10, CompletionRouterAssumption DEF SaveGroup
    <3>2. -1 \in Int
      OBVIOUS
    <3>3. [g EXCEPT !.lastIndex = -1] \in Group
      BY <3>2 DEF Group
    <3> QED BY <3>1, <3>3
  <2> QED BY <1>10, <2>1 DEF SaveGroup
<1> QED BY <1>1, <1>2, <1>3, <1>4, <1>5, <1>6, <1>7, <1>8, <1>9, <1>10 DEF Operator

LEMMA NextInv == Inv /\ [Next]_vars => Inv'
<1> SUFFICES ASSUME Inv, [Next]_vars PROVE Inv'
  OBVIOUS
<1>1. CASE \E r \in Request : Begin(r) \/ Local(r) \/ ProviderAnswers(r)
  BY <1>1, RequestInv
<1>2. CASE Operator
  BY <1>2, OperatorInv
<1>3. CASE Tick
  BY <1>3 DEF Inv, TypeOK, RequestOK, OperatorOK, Tick, requests, operator
<1>4. CASE Finished \/ UNCHANGED vars
  BY <1>4 DEF Inv, TypeOK, RequestOK, OperatorOK, Finished, vars, database, operator
<1> QED BY <1>1, <1>2, <1>3, <1>4 DEF Next

\* Inv holds in every state the program reaches.
THEOREM Invariance == Spec => []Inv
<1>1. Init => Inv
  BY InitInv
<1>2. Inv /\ [Next]_vars => Inv'
  BY NextInv
<1> QED BY <1>1, <1>2, PTL DEF Spec

\* Whatever requests, operator and providers do, every stored row, every row a
\* thread holds and every local variable of a request keeps its type.
THEOREM TypeCorrect == Spec => []TypeOK
<1>1. Inv => TypeOK
  BY DEF Inv
<1> QED BY <1>1, Invariance, PTL

-----------------------------------------------------------------------------
(* The attempts of a request.                                              *)

\* What select decides has not been attempted, and the row it decided on is the
\* one read for it: the members of a group are distinct.
LEMMA DecisionSound ==
  ASSUME Inv, NEW r \in Request, NEW d \in Decisions(r), NEW c \in CandidatesOf(view[r]),
         c.id = d.id
  PROVE  /\ d.id \notin Range(attempted[r])
         /\ eligible(c.row, view[r].now)
         /\ IF view[r].group.strategy = "MANUAL"
            THEN d.id = view[r].group.manual
            ELSE automaticRoutingCapable(c.row)
<1>1. PICK k \in CandidatesOf(view[r]) :
        /\ k.id = d.id /\ d.id \notin Range(attempted[r])
        /\ eligible(k.row, view[r].now)
        /\ IF view[r].group.strategy = "MANUAL"
           THEN d.id = view[r].group.manual
           ELSE automaticRoutingCapable(k.row)
  BY DecisionIsSelectable DEF Decisions
<1>2. k = c
  BY <1>1 DEF CandidatesOf, Inv, TypeOK, RequestOK, Group, MemberList, IsInjective
<1> QED BY <1>1, <1>2

\* Only the beginning of a request and a selection move its attempts.
LEMMA AttemptsFrame ==
  ASSUME Inv, [Next]_vars
  PROVE  \/ UNCHANGED <<attempted, budget>> /\ \A r \in Request : pc'[r] = "idle" => pc[r] = "idle"
         \/ \E r \in Request : Begin(r) \/ Decide(r)
<1> USE DEF Inv, TypeOK, database, operator, requests
<1>1. ASSUME NEW r \in Request, Local(r) \/ ProviderAnswers(r), ~ Decide(r)
      PROVE  UNCHANGED <<attempted, budget>> /\ \A q \in Request : pc'[q] = "idle" => pc[q] = "idle"
  BY <1>1 DEF Local, ProviderAnswers, ReadGroup, ReadCandidate, Skip, CredentialMissing,
     CredentialUnreadable, ModelMissing, PromptMissing, CallProvider, MarkAuthExpired,
     RecordFailure, WriteFailure, RecordSuccess, WriteSuccess, Verify, WriteVerified,
     ProviderSucceeds, ProviderUnauthorized, ProviderRejects, InteractionEmpty, ProviderFails,
     ProviderThrows, AtDispatch, AtCall, GiveUp, Answer, Returns, Goto
<1>2. Operator => UNCHANGED <<attempted, budget, pc>>
  BY DEF Operator, SetAccountEnabled, SetAccountPriority, ConfigureApiKey, RemoveAccount,
     AddAccount, PutSecret, FinishEdit, EraseSecret, DeleteAccount, SaveGroup, StartEdit
<1>3. Tick \/ Finished \/ UNCHANGED vars => UNCHANGED <<attempted, budget, pc>>
  BY DEF Tick, Finished, vars
<1> QED BY <1>1, <1>2, <1>3 DEF Next

LEMMA NextAttempts == Inv /\ AttemptsOK /\ [Next]_vars => AttemptsOK'
<1> SUFFICES ASSUME Inv, AttemptsOK, [Next]_vars PROVE AttemptsOK'
  OBVIOUS
<1> USE DEF AttemptsOK, AttemptsDistinct
<1>1. CASE UNCHANGED <<attempted, budget>> /\ \A r \in Request : pc'[r] = "idle" => pc[r] = "idle"
  BY <1>1
<1>2. ASSUME NEW r \in Request, Begin(r) PROVE AttemptsOK'
  <2>1. \/ UNCHANGED budget
        \/ budget' = [budget EXCEPT ![r] = Len(group.members)] /\ Len(group.members) \in Nat
    BY <1>2 DEF Begin, Inv, TypeOK, Group, MemberList
  <2>2. UNCHANGED attempted /\ \A q \in Request : pc'[q] = "idle" => pc[q] = "idle"
    BY <1>2 DEF Begin, Answer, Goto, Inv, TypeOK
  <2>3. Len(attempted[r]) = 0
    BY <1>2 DEF Begin
  <2>4. ASSUME NEW q \in Request PROVE Len(attempted'[q]) <= budget'[q]
    <3>1. Len(attempted[q]) <= budget[q] /\ budget \in [Request -> Nat]
      BY DEF Inv, TypeOK
    <3>2. CASE UNCHANGED budget
      BY <2>2, <3>1, <3>2
    <3>3. CASE q = r /\ ~ UNCHANGED budget
      BY <2>1, <2>2, <2>3, <3>1, <3>3
    <3>4. CASE q # r /\ ~ UNCHANGED budget
      BY <2>1, <2>2, <3>1, <3>4
    <3> QED BY <3>2, <3>3, <3>4
  <2> QED BY <2>2, <2>4
<1>3. ASSUME NEW r \in Request, Decide(r) PROVE AttemptsOK'
  <2>1. CASE Decisions(r) = {}
    BY <1>3, <2>1 DEF Decide, GiveUp, Answer, Goto, Inv, TypeOK
  <2>2. CASE Decisions(r) # {}
    <3>1. PICK d \in Decisions(r), c \in CandidatesOf(view[r]) :
            /\ c.id = d.id
            /\ attempted' = [attempted EXCEPT ![r] = Append(@, d.id)]
            /\ Goto(r, "dispatch")
      BY <1>3, <2>2 DEF Decide
    <3> DEFINE tried == Append(attempted[r], d.id)
    <3>2. d.id \in AccountId /\ d.id \notin Range(attempted[r])
      BY <3>1, SelectedType, DecisionSound
    <3>3. Len(attempted[r]) < budget[r] /\ UNCHANGED budget
      BY <1>3 DEF Decide, Inv, RequestOK
    <3>4. attempted[r] \in Seq(AccountId) /\ budget[r] \in Nat
      BY DEF Inv, TypeOK
    <3>5. /\ tried \in Seq(AccountId) /\ Len(tried) = Len(attempted[r]) + 1
          /\ \A i \in 1 .. Len(attempted[r]) : tried[i] = attempted[r][i]
          /\ tried[Len(attempted[r]) + 1] = d.id
      BY <3>2, <3>4
    <3> HIDE DEF tried
    <3>6. \A i \in 1 .. Len(attempted[r]) : attempted[r][i] # d.id
      BY <3>2, <3>4 DEF Range
    <3>7. IsInjective(attempted[r])
      OBVIOUS
    <3>8. IsInjective(tried)
      BY <3>4, <3>5, <3>6, <3>7 DEF IsInjective
    <3>9. Len(tried) <= budget[r]
      BY <3>3, <3>4, <3>5
    <3>10. attempted' = [attempted EXCEPT ![r] = tried]
      BY <3>1 DEF tried
    <3> QED BY <3>1, <3>3, <3>8, <3>9, <3>10 DEF Goto, Inv, TypeOK
  <2> QED BY <2>1, <2>2
<1> QED BY <1>1, <1>2, <1>3, AttemptsFrame

\* A request never tries an account twice, and makes no more attempts than its
\* group had members when the request was accepted.
THEOREM DistinctAttempts == Spec => []AttemptsDistinct
<1>1. Init => AttemptsOK
  BY DEF Init, AttemptsOK, AttemptsDistinct, IsInjective
<1>2. Inv /\ AttemptsOK /\ [Next]_vars => AttemptsOK'
  BY NextAttempts
<1>3. AttemptsOK => AttemptsDistinct
  BY DEF AttemptsOK
<1> QED BY <1>1, <1>2, <1>3, Invariance, PTL DEF Spec

-----------------------------------------------------------------------------
(* The automatic boundary.                                                 *)

\* What a dispatched request holds was put there by its selection.
LEMMA DispatchFrame ==
  ASSUME Inv, [Next]_vars, NEW r \in Request, pc'[r] \in {"dispatch", "calling"}
  PROVE  \/ Decide(r)
         \/ pc[r] \in {"dispatch", "calling"} /\ row'[r] = row[r] /\ view'[r] = view[r]
            /\ attempted'[r] = attempted[r]
<1> USE DEF Inv, TypeOK, database, operator, requests
<1>1. ASSUME NEW q \in Request, Begin(q) \/ Local(q) \/ ProviderAnswers(q), q # r
      PROVE  pc'[r] = pc[r] /\ row'[r] = row[r] /\ view'[r] = view[r] /\ attempted'[r] = attempted[r]
  BY <1>1 DEF Begin, Local, ProviderAnswers, ReadGroup, ReadCandidate, Decide, Skip,
     CredentialMissing, CredentialUnreadable, ModelMissing, PromptMissing, CallProvider,
     MarkAuthExpired, RecordFailure, WriteFailure, RecordSuccess, WriteSuccess, Verify,
     WriteVerified, ProviderSucceeds, ProviderUnauthorized, ProviderRejects, InteractionEmpty,
     ProviderFails, ProviderThrows, AtDispatch, AtCall, GiveUp, Answer, Returns, Goto
<1>2. CASE (Begin(r) \/ Local(r) \/ ProviderAnswers(r)) /\ ~ Decide(r)
  BY <1>2 DEF Begin, Local, ProviderAnswers, ReadGroup, ReadCandidate, Skip,
     CredentialMissing, CredentialUnreadable, ModelMissing, PromptMissing, CallProvider,
     MarkAuthExpired, RecordFailure, WriteFailure, RecordSuccess, WriteSuccess, Verify,
     WriteVerified, ProviderSucceeds, ProviderUnauthorized, ProviderRejects, InteractionEmpty,
     ProviderFails, ProviderThrows, AtDispatch, AtCall, GiveUp, Answer, Returns, Goto
<1>3. Operator => UNCHANGED <<pc, row, view, attempted>>
  BY DEF Operator, SetAccountEnabled, SetAccountPriority, ConfigureApiKey, RemoveAccount,
     AddAccount, PutSecret, FinishEdit, EraseSecret, DeleteAccount, SaveGroup, StartEdit
<1>4. Tick \/ Finished \/ UNCHANGED vars => UNCHANGED <<pc, row, view, attempted>>
  BY DEF Tick, Finished, vars
<1> QED BY <1>1, <1>2, <1>3, <1>4 DEF Next

LEMMA NextDispatch == Inv /\ DispatchOK /\ [Next]_vars => DispatchOK'
<1> SUFFICES ASSUME Inv, DispatchOK, [Next]_vars, NEW r \in Request,
                    pc'[r] \in {"dispatch", "calling"}
             PROVE  Justified(r)'
  BY DEF DispatchOK
<1>1. CASE Decide(r)
  <2>1. PICK d \in Decisions(r), c \in CandidatesOf(view[r]) :
          /\ c.id = d.id
          /\ attempted' = [attempted EXCEPT ![r] = Append(@, d.id)]
          /\ row' = [row EXCEPT ![r] = c.row]
          /\ view' = [view EXCEPT ![r].rows = <<>>]
    BY <1>1 DEF Decide, GiveUp, Answer, Goto, Inv, TypeOK
  <2>2. row'[r] = c.row /\ view'[r].group = view[r].group /\ view'[r].now = view[r].now
    BY <2>1 DEF Inv, TypeOK
  <2>3. Current(r)' = d.id
    <3>1. d.id \in AccountId
      BY <2>1, SelectedType
    <3>2. attempted[r] \in Seq(AccountId) /\ attempted'[r] = Append(attempted[r], d.id)
      BY <2>1 DEF Inv, TypeOK
    <3> QED BY <3>1, <3>2 DEF Current
  <2>4. /\ eligible(c.row, view[r].now)
        /\ IF view[r].group.strategy = "MANUAL"
           THEN d.id = view[r].group.manual
           ELSE automaticRoutingCapable(c.row)
    BY <2>1, DecisionSound
  <2> QED BY <2>2, <2>3, <2>4 DEF Justified
<1>2. CASE pc[r] \in {"dispatch", "calling"} /\ row'[r] = row[r] /\ view'[r] = view[r]
           /\ attempted'[r] = attempted[r]
  BY <1>2 DEF DispatchOK, Justified, Current
<1> QED BY <1>1, <1>2, DispatchFrame

\* The automatic boundary holds for legacy and edited databases alike: whatever
\* rows and groups the operator stores, a provider is called only for a row that
\* was eligible and, outside manual selection, holds an API credential.
THEOREM AutomaticBoundary == Spec => []CallsJustified
<1>1. Init => DispatchOK
  BY DEF Init, DispatchOK
<1>2. Inv /\ DispatchOK /\ [Next]_vars => DispatchOK'
  BY NextDispatch
<1>3. DispatchOK => CallsJustified
  BY DEF DispatchOK, Justified, CallsJustified
<1> QED BY <1>1, <1>2, <1>3, Invariance, PTL DEF Spec

-----------------------------------------------------------------------------
(* Removed accounts.                                                       *)

LEMMA UpdateAccountFrame ==
  ASSUME TypeOK, NEW a \in AccountId, NEW b \in AccountId, NEW new, UpdateAccount(b, new),
         accounts[a] = NoRow
  PROVE  accounts'[a] = NoRow
BY DEF UpdateAccount, TypeOK

\* Only adding an account makes a row: no request or edit that still holds the
\* object of a removed account can bring it back.
THEOREM NoResurrection == Spec => RemovedStaysRemoved
<1> DEFINE Step == \A a \in AccountId :
                     accounts[a] = NoRow /\ accounts'[a] # NoRow => AddAccount(a)
<1>1. Inv /\ [Next]_vars => [Step]_vars
  <2> SUFFICES ASSUME Inv, Next, NEW a \in AccountId, accounts[a] = NoRow, ~ AddAccount(a)
               PROVE  accounts'[a] = NoRow
    OBVIOUS
  <2> USE DEF database, requests, operator
  <2>1. ASSUME NEW r \in Request, Begin(r) \/ Local(r) \/ ProviderAnswers(r)
        PROVE  accounts'[a] = NoRow
    <3>1. \/ UNCHANGED accounts
          \/ pc[r] \in Working /\ \E new : UpdateAccount(Current(r), new)
      BY <2>1 DEF Begin, Local, ProviderAnswers, ReadGroup, ReadCandidate, Decide, Skip,
         CredentialMissing, CredentialUnreadable, ModelMissing, PromptMissing, CallProvider,
         MarkAuthExpired, RecordFailure, WriteFailure, RecordSuccess, WriteSuccess, Verify,
         WriteVerified, ProviderSucceeds, ProviderUnauthorized, ProviderRejects,
         InteractionEmpty, ProviderFails, ProviderThrows, AtDispatch, AtCall, Working
    <3> QED BY <3>1, CurrentType, UpdateAccountFrame DEF Inv
  <2>2. CASE Operator
    <3>1. CASE FinishEdit
      BY <3>1, UpdateAccountFrame DEF FinishEdit, Inv, OperatorOK
    <3>2. CASE DeleteAccount
      BY <3>2 DEF DeleteAccount, Inv, TypeOK
    <3>3. ASSUME NEW b \in AccountId, AddAccount(b)
          PROVE  accounts'[a] = NoRow
      <4>1. b # a
        BY <3>3
      <4>2. \E new : accounts' = [accounts EXCEPT ![b] = new]
        BY <3>3 DEF AddAccount
      <4> QED BY <4>1, <4>2 DEF Inv, TypeOK
    <3>4. CASE ~ FinishEdit /\ ~ DeleteAccount /\ ~ \E b \in AccountId : AddAccount(b)
      BY <2>2, <3>4 DEF Operator, SetAccountEnabled, SetAccountPriority, ConfigureApiKey,
         RemoveAccount, PutSecret, EraseSecret, SaveGroup, StartEdit
    <3> QED BY <3>1, <3>2, <3>3, <3>4
  <2>3. CASE Tick \/ Finished
    BY <2>3 DEF Tick, Finished, vars
  <2> QED BY <2>1, <2>2, <2>3 DEF Next
<1> QED BY <1>1, Invariance, PTL DEF Spec, RemovedStaysRemoved

-----------------------------------------------------------------------------
(* Cooldowns.                                                              *)

\* A sound row stays sound as time passes, and when a field that FailurePolicy
\* does not own changes.
LEMMA SoundLater ==
  ASSUME NEW x \in Row, NEW y \in Row, NEW t \in Nat, NEW u \in Nat, t <= u,
         CooldownSound(x, t),
         y.consecutiveFailures = x.consecutiveFailures, y.cooldownUntil = x.cooldownUntil
  PROVE  CooldownSound(y, u)
<1>1. cooldownSeconds(x.consecutiveFailures) \in Nat
  BY CooldownSecondsType DEF Row
<1>2. x.cooldownUntil \in Nat \cup {NoCooldown}
  BY DEF Row
<1> QED BY <1>1, <1>2 DEF CooldownSound, NoCooldown

LEMMA SoundFailure ==
  ASSUME NEW x \in Row, NEW t \in Nat
  PROVE  CooldownSound(FailureRecorded(x, t), t)
<1> DEFINE n == x.consecutiveFailures + 1
<1>1. n \in Nat /\ n # 0
  BY DEF Row
<1>2. cooldownSeconds(n) \in Nat
  BY <1>1, CooldownSecondsType
<1>3. /\ FailureRecorded(x, t).consecutiveFailures = n
      /\ FailureRecorded(x, t).cooldownUntil = t + cooldownSeconds(n)
  BY DEF FailureRecorded, Row
<1> QED BY <1>1, <1>2, <1>3 DEF CooldownSound, NoCooldown

\* A row without failures is sound at any time.
LEMMA SoundClear ==
  ASSUME NEW x, NEW t \in Nat, x.consecutiveFailures = 0, x.cooldownUntil = NoCooldown
  PROVE  CooldownSound(x, t)
<1>1. cooldownSeconds(0) \in Nat
  BY CooldownSecondsType
<1> QED BY <1>1 DEF CooldownSound, NoCooldown

\* Writing a sound row back leaves sound rows, whatever it overwrites.
LEMMA SoundWrite ==
  ASSUME Inv, CooldownBounded, NEW a \in AccountId, NEW new, UpdateAccount(a, new),
         CooldownSound(new, now), UNCHANGED now
  PROVE  CooldownBounded'
BY DEF CooldownBounded, UpdateAccount, Inv, TypeOK

\* A request that gives its local state up holds and has read no row.
LEMMA SoundAnswer ==
  ASSUME Inv, HeldSound, ReadSound, NEW r \in Request, NEW status, NEW a,
         Answer(r, status, a), UNCHANGED now
  PROVE  HeldSound' /\ ReadSound'
<1>1. HeldSound'
  BY DEF HeldSound, Answer, Inv, TypeOK
<1>2. view' = [view EXCEPT ![r] = NoView] /\ NoView.rows = <<>>
  BY DEF Answer, NoView
<1>3. ReadSound'
  BY <1>2 DEF ReadSound, Inv, TypeOK
<1> QED BY <1>1, <1>3

\* A request that replaces the row it holds by a sound one.
LEMMA SoundHold ==
  ASSUME Inv, HeldSound, NEW r \in Request, NEW new,
         row' = [row EXCEPT ![r] = new], new # NoRow => CooldownSound(new, now), UNCHANGED now
  PROVE  HeldSound'
BY DEF HeldSound, Inv, TypeOK

\* Every step of a request keeps the copies sound.
LEMMA RequestCopies ==
  ASSUME Inv, CopiesSound, NEW r \in Request, Begin(r) \/ Local(r) \/ ProviderAnswers(r)
  PROVE  CopiesSound'
<1> USE DEF CopiesSound, database, operator
<1>1. UNCHANGED <<now, opRow>>
  BY DEF Begin, Local, ProviderAnswers, ReadGroup, ReadCandidate, Decide, Skip,
     CredentialMissing, CredentialUnreadable, ModelMissing, PromptMissing, CallProvider,
     MarkAuthExpired, RecordFailure, WriteFailure, RecordSuccess, WriteSuccess, Verify,
     WriteVerified, ProviderSucceeds, ProviderUnauthorized, ProviderRejects,
     InteractionEmpty, ProviderFails, ProviderThrows, AtDispatch, AtCall
<1>2. EditSound'
  BY <1>1 DEF EditSound
<1>3. pc[r] \in Working => Current(r) \in AccountId /\ row[r] \in Row /\ CooldownSound(row[r], now)
  BY CurrentType, CompletionRouterAssumption DEF HeldSound
<1>4. CASE Begin(r) \/ ProviderRejects(r) \/ InteractionEmpty(r)
  <2>1. UNCHANGED accounts
    BY <1>4 DEF Begin, ProviderRejects, InteractionEmpty, AtCall
  <2>2. CooldownBounded'
    BY <1>1, <2>1 DEF CooldownBounded
  <2>3. CASE \E status, a : Answer(r, status, a)
    BY <1>1, <1>2, <2>2, <2>3, SoundAnswer
  <2>4. CASE UNCHANGED <<row, view>>
    BY <1>1, <1>2, <2>2, <2>4 DEF HeldSound, ReadSound
  <2> QED BY <1>4, <2>3, <2>4 DEF Begin, ProviderRejects, InteractionEmpty
<1>5. CASE Skip(r) \/ CredentialMissing(r) \/ CredentialUnreadable(r) \/ ModelMissing(r)
           \/ PromptMissing(r) \/ CallProvider(r) \/ ProviderSucceeds(r)
           \/ ProviderUnauthorized(r) \/ ProviderFails(r) \/ ProviderThrows(r)
  <2>1. UNCHANGED <<accounts, row, view>>
    BY <1>5 DEF Skip, CredentialMissing, CredentialUnreadable, ModelMissing, PromptMissing,
       CallProvider, ProviderSucceeds, ProviderUnauthorized, ProviderFails, ProviderThrows,
       AtDispatch, AtCall, Returns
  <2> QED BY <1>1, <1>2, <2>1 DEF CooldownBounded, HeldSound, ReadSound
<1>6. CASE ReadGroup(r)
  <2>1. CooldownBounded'
    BY <1>1, <1>6 DEF CooldownBounded, ReadGroup
  <2>2. CASE \E status, a : Answer(r, status, a)
    BY <1>1, <1>2, <2>1, <2>2, SoundAnswer
  <2>3. CASE /\ view' = [view EXCEPT ![r] = [group |-> group, now |-> now, rows |-> <<>>]]
             /\ row' = [row EXCEPT ![r] = NoRow]
    <3>1. HeldSound'
      BY <1>1, <2>3, SoundHold
    <3>2. ReadSound'
      BY <1>1, <2>3 DEF ReadSound, Inv, TypeOK
    <3> QED BY <1>2, <2>1, <3>1, <3>2
  <2> QED BY <1>6, <2>2, <2>3 DEF ReadGroup, GiveUp
<1>7. CASE ReadCandidate(r)
  <2> DEFINE a == view[r].group.members[Len(view[r].rows) + 1]
             rows == Append(view[r].rows, accounts[a])
  <2>1. CooldownBounded' /\ HeldSound'
    BY <1>1, <1>7 DEF CooldownBounded, HeldSound, ReadCandidate
  <2>2. a \in AccountId
    BY <1>7 DEF ReadCandidate, Inv, TypeOK, RequestOK, Group, MemberList
  <2>3. view[r].rows \in Seq(Row \cup {NoRow}) /\ accounts[a] \in Row \cup {NoRow}
    BY <2>2 DEF Inv, TypeOK
  <2>4. \A i \in DOMAIN rows : \/ rows[i] = accounts[a]
                               \/ i \in DOMAIN view[r].rows /\ rows[i] = view[r].rows[i]
    <3> DEFINE n == Len(view[r].rows)
    <3>1. n \in Nat /\ DOMAIN view[r].rows = 1 .. n
      BY <2>3
    <3>2. /\ DOMAIN rows = 1 .. n + 1 /\ rows[n + 1] = accounts[a]
          /\ \A i \in 1 .. n : rows[i] = view[r].rows[i]
      BY <2>3
    <3> HIDE DEF n, rows, a
    <3> QED BY <3>1, <3>2
  <2>5. view' = [view EXCEPT ![r].rows = rows]
    BY <1>7 DEF ReadCandidate
  <2> HIDE DEF rows, a
  <2>6. \A i \in DOMAIN rows : rows[i] # NoRow => CooldownSound(rows[i], now)
    BY <2>2, <2>4 DEF CooldownBounded, ReadSound
  <2>7. ReadSound'
    BY <1>1, <2>5, <2>6 DEF ReadSound, Inv, TypeOK
  <2> QED BY <1>2, <2>1, <2>7
<1>8. CASE Decide(r)
  <2>1. CooldownBounded'
    BY <1>1, <1>8 DEF CooldownBounded, Decide
  <2>2. CASE \E status, a : Answer(r, status, a)
    BY <1>1, <1>2, <2>1, <2>2, SoundAnswer
  <2>3. CASE \E c \in CandidatesOf(view[r]) :
               /\ row' = [row EXCEPT ![r] = c.row]
               /\ view' = [view EXCEPT ![r].rows = <<>>]
    <3>1. PICK c \in CandidatesOf(view[r]) : row' = [row EXCEPT ![r] = c.row]
      BY <2>3
    <3>2. CooldownSound(c.row, now)
      BY DEF CandidatesOf, ReadSound
    <3>3. HeldSound'
      BY <1>1, <3>1, <3>2, SoundHold
    <3>4. ReadSound'
      BY <1>1, <2>3 DEF ReadSound, Inv, TypeOK
    <3> QED BY <1>2, <2>1, <3>3, <3>4
  <2> QED BY <1>8, <2>2, <2>3 DEF Decide, GiveUp
<1>9. CASE MarkAuthExpired(r)
  <2> DEFINE new == [row[r] EXCEPT !.status = "AUTH_EXPIRED"]
  <2>1. row[r] \in Row /\ CooldownSound(row[r], now) /\ now \in Nat /\ Current(r) \in AccountId
    BY <1>3, <1>9 DEF MarkAuthExpired, Working, Inv, TypeOK
  <2>2. /\ new \in Row /\ new.consecutiveFailures = row[r].consecutiveFailures
        /\ new.cooldownUntil = row[r].cooldownUntil
    BY <2>1 DEF Row, Status
  <2>3. UpdateAccount(Current(r), new)
    BY <1>9 DEF MarkAuthExpired
  <2> HIDE DEF new
  <2>4. CooldownBounded'
    BY <1>1, <2>1, <2>2, <2>3, SoundLater, SoundWrite
  <2> QED BY <1>1, <1>2, <1>9, <2>4 DEF MarkAuthExpired, HeldSound, ReadSound
<1>10. CASE WriteFailure(r) \/ WriteSuccess(r) \/ WriteVerified(r)
  <2>1. UpdateAccount(Current(r), row[r]) /\ pc[r] \in Working
    BY <1>10 DEF WriteFailure, WriteSuccess, WriteVerified, Working
  <2>2. CooldownBounded'
    BY <1>1, <1>3, <2>1, SoundWrite
  <2>3. CASE \E status, a : Answer(r, status, a)
    BY <1>1, <1>2, <2>2, <2>3, SoundAnswer
  <2>4. CASE UNCHANGED <<row, view>>
    BY <1>1, <1>2, <2>2, <2>4 DEF HeldSound, ReadSound
  <2> QED BY <1>10, <2>3, <2>4 DEF WriteFailure, WriteSuccess, WriteVerified, Returns
<1>11. CASE RecordFailure(r) \/ RecordSuccess(r) \/ Verify(r)
  <2> DEFINE found == accounts[Current(r)]
  <2>1. pc[r] \in Working
    BY <1>11 DEF RecordFailure, RecordSuccess, Verify, Working
  <2>2. found # NoRow => found \in Row /\ CooldownSound(found, now)
    BY <1>3, <2>1 DEF CooldownBounded, Inv, TypeOK
  <2>3. now \in Nat
    BY DEF Inv, TypeOK
  <2>4. CooldownBounded'
    BY <1>1, <1>11 DEF CooldownBounded, RecordFailure, RecordSuccess, Verify
  <2>5. CASE \E status, a : Answer(r, status, a)
    BY <1>1, <1>2, <2>4, <2>5, SoundAnswer
  <2>6. CASE UNCHANGED <<row, view>>
    BY <1>1, <1>2, <2>4, <2>6 DEF HeldSound, ReadSound
  <2>7. CASE /\ found # NoRow /\ UNCHANGED view
             /\ \/ row' = [row EXCEPT ![r] = FailureRecorded(found, now)]
                \/ row' = [row EXCEPT ![r] = SuccessRecorded(found)]
                \/ row' = [row EXCEPT ![r] = [found EXCEPT !.status = "READY"]]
    <3>1. CooldownSound(FailureRecorded(found, now), now)
      BY <2>2, <2>3, <2>7, SoundFailure
    <3>2. CooldownSound(SuccessRecorded(found), now)
      <4>1. /\ SuccessRecorded(found).consecutiveFailures = 0
            /\ SuccessRecorded(found).cooldownUntil = NoCooldown
        BY <2>2, <2>7 DEF SuccessRecorded, Row
      <4> QED BY <2>3, <4>1, SoundClear
    <3>3. CooldownSound([found EXCEPT !.status = "READY"], now)
      <4> DEFINE new == [found EXCEPT !.status = "READY"]
      <4>1. /\ new \in Row /\ new.consecutiveFailures = found.consecutiveFailures
            /\ new.cooldownUntil = found.cooldownUntil
        BY <2>2, <2>7 DEF Row, Status
      <4> HIDE DEF new
      <4>2. CooldownSound(new, now)
        BY <2>2, <2>3, <2>7, <4>1, SoundLater
      <4> QED BY <4>2 DEF new
    <3>4. HeldSound'
      BY <1>1, <2>7, <3>1, <3>2, <3>3, SoundHold
    <3> QED BY <1>1, <1>2, <2>4, <2>7, <3>4 DEF ReadSound
  <2> QED BY <1>11, <2>5, <2>6, <2>7 DEF RecordFailure, RecordSuccess, Verify, Returns
<1> QED BY <1>4, <1>5, <1>6, <1>7, <1>8, <1>9, <1>10, <1>11 DEF Local, ProviderAnswers

\* Every edit of the operator keeps the copies sound.
LEMMA OperatorCopies ==
  ASSUME Inv, CopiesSound, Operator
  PROVE  CopiesSound'
<1> USE DEF CopiesSound, database, requests
<1>1. UNCHANGED <<now, row, view>>
  BY DEF Operator, SetAccountEnabled, SetAccountPriority, ConfigureApiKey, RemoveAccount,
     AddAccount, PutSecret, FinishEdit, EraseSecret, DeleteAccount, SaveGroup, StartEdit
<1>2. HeldSound' /\ ReadSound'
  BY <1>1 DEF HeldSound, ReadSound
<1>3. now \in Nat
  BY DEF Inv, TypeOK
<1>4. ASSUME NEW a \in AccountId, accounts[a] # NoRow,
             \/ SetAccountEnabled(a) \/ SetAccountPriority(a) \/ ConfigureApiKey(a)
             \/ RemoveAccount(a)
      PROVE  CopiesSound'
  <2>1. CooldownBounded'
    BY <1>1, <1>4 DEF CooldownBounded, SetAccountEnabled, SetAccountPriority, ConfigureApiKey,
       RemoveAccount, StartEdit
  <2>2. accounts[a] \in Row /\ CooldownSound(accounts[a], now)
    BY <1>4 DEF CooldownBounded, Inv, TypeOK
  <2>3. \A y \in Row : /\ y.consecutiveFailures = accounts[a].consecutiveFailures
                       /\ y.cooldownUntil = accounts[a].cooldownUntil
                       => CooldownSound(y, now)
    BY <1>3, <2>2, SoundLater
  <2>4. CASE SetAccountEnabled(a)
    <3>1. PICK e \in BOOLEAN : opRow' = [accounts[a] EXCEPT !.enabled = e]
      BY <2>4 DEF SetAccountEnabled, StartEdit
    <3>2. /\ opRow' \in Row /\ opRow'.consecutiveFailures = accounts[a].consecutiveFailures
          /\ opRow'.cooldownUntil = accounts[a].cooldownUntil
      BY <2>2, <3>1 DEF Row
    <3> QED BY <1>1, <1>2, <2>1, <2>3, <3>2 DEF EditSound
  <2>5. CASE SetAccountPriority(a)
    <3>1. PICK p \in Int : opRow' = [accounts[a] EXCEPT !.priority = p]
      BY <2>5, CompletionRouterAssumption DEF SetAccountPriority, StartEdit
    <3>2. /\ opRow' \in Row /\ opRow'.consecutiveFailures = accounts[a].consecutiveFailures
          /\ opRow'.cooldownUntil = accounts[a].cooldownUntil
      BY <2>2, <3>1 DEF Row
    <3> QED BY <1>1, <1>2, <2>1, <2>3, <3>2 DEF EditSound
  <2>6. CASE ConfigureApiKey(a)
    <3>1. \/ \E mode, s : opRow' = KeyConfigured(accounts[a], mode, s)
          \/ \E s \in {"AUTH_EXPIRED", "ERROR"} : opRow' = [accounts[a] EXCEPT !.status = s]
      BY <2>6 DEF ConfigureApiKey, StartEdit
    <3>2. CASE \E mode, s : opRow' = KeyConfigured(accounts[a], mode, s)
      <4>1. opRow'.consecutiveFailures = 0 /\ opRow'.cooldownUntil = NoCooldown
        BY <2>2, <3>2 DEF KeyConfigured, Row
      <4>2. CooldownSound(opRow', now)
        BY <1>3, <4>1, SoundClear
      <4> QED BY <1>1, <1>2, <2>1, <4>2 DEF EditSound
    <3>3. CASE \E s \in {"AUTH_EXPIRED", "ERROR"} : opRow' = [accounts[a] EXCEPT !.status = s]
      <4>1. /\ opRow' \in Row /\ opRow'.consecutiveFailures = accounts[a].consecutiveFailures
            /\ opRow'.cooldownUntil = accounts[a].cooldownUntil
        BY <2>2, <3>3 DEF Row, Status
      <4> QED BY <1>1, <1>2, <2>1, <2>3, <4>1 DEF EditSound
    <3> QED BY <3>1, <3>2, <3>3
  <2>7. CASE RemoveAccount(a)
    BY <1>1, <1>2, <2>1, <2>7 DEF RemoveAccount, StartEdit, EditSound
  <2> QED BY <1>4, <2>4, <2>5, <2>6, <2>7
<1>5. ASSUME NEW a \in AccountId, AddAccount(a) PROVE CopiesSound'
  <2>1. PICK new : /\ accounts' = [accounts EXCEPT ![a] = new]
                   /\ new.consecutiveFailures = 0 /\ new.cooldownUntil = NoCooldown
    <3> DEFINE New(mode) ==
          [provider |-> Provider[a], providerMode |-> mode, credentialRef |-> FALSE,
           status |-> "AUTH_EXPIRED", priority |-> 100, enabled |-> TRUE,
           consecutiveFailures |-> 0, cooldownUntil |-> NoCooldown]
    <3>1. PICK mode \in ModesOf[Provider[a]] : accounts' = [accounts EXCEPT ![a] = New(mode)]
      BY <1>5 DEF AddAccount
    <3>2. New(mode).consecutiveFailures = 0 /\ New(mode).cooldownUntil = NoCooldown
      OBVIOUS
    <3> QED BY <3>1, <3>2
  <2>2. CooldownSound(new, now)
    BY <1>3, <2>1, SoundClear
  <2>3. CooldownBounded'
    BY <1>1, <2>1, <2>2 DEF CooldownBounded, Inv, TypeOK
  <2> QED BY <1>1, <1>2, <1>5, <2>3 DEF AddAccount, EditSound
<1>6. CASE FinishEdit
  <2>1. UpdateAccount(opId, opRow) /\ opId \in AccountId /\ opRow \in Row
    BY <1>6 DEF FinishEdit, Inv, OperatorOK
  <2>2. CooldownSound(opRow, now)
    BY <2>1, CompletionRouterAssumption DEF EditSound
  <2>3. CooldownBounded'
    BY <1>1, <2>1, <2>2, SoundWrite
  <2> QED BY <1>2, <1>6, <2>3 DEF FinishEdit, EditSound
<1>7. CASE DeleteAccount
  <2>1. CooldownBounded'
    BY <1>1, <1>7 DEF DeleteAccount, CooldownBounded, Inv, TypeOK, OperatorOK
  <2> QED BY <1>1, <1>2, <1>7, <2>1 DEF DeleteAccount, EditSound
<1>8. CASE PutSecret \/ EraseSecret \/ SaveGroup
  BY <1>1, <1>2, <1>8 DEF PutSecret, EraseSecret, SaveGroup, CooldownBounded, EditSound
<1> QED BY <1>4, <1>5, <1>6, <1>7, <1>8 DEF Operator, SetAccountEnabled, SetAccountPriority,
           ConfigureApiKey, RemoveAccount

\* The copies stay sound while the clock runs.
LEMMA TickCopies ==
  ASSUME Inv, CopiesSound, Tick
  PROVE  CopiesSound'
<1>1. /\ now \in Nat /\ now' \in Nat /\ now <= now'
      /\ UNCHANGED <<accounts, row, view, opRow>>
  BY DEF Tick, Inv, TypeOK, requests, operator
<1>2. \A x \in Row : CooldownSound(x, now) => CooldownSound(x, now')
  BY <1>1, SoundLater
<1>3. CooldownBounded'
  BY <1>1, <1>2 DEF CopiesSound, CooldownBounded, Inv, TypeOK
<1>4. HeldSound'
  BY <1>1, <1>2 DEF CopiesSound, HeldSound, Inv, TypeOK
<1>5. ReadSound'
  BY <1>1, <1>2 DEF CopiesSound, ReadSound, Inv, TypeOK
<1>6. EditSound'
  BY <1>1, <1>2 DEF CopiesSound, EditSound, Inv, TypeOK
<1> QED BY <1>3, <1>4, <1>5, <1>6 DEF CopiesSound

LEMMA InitCopies == Init => CopiesSound
<1> SUFFICES ASSUME Init PROVE CopiesSound
  OBVIOUS
<1>1. CooldownBounded
  BY CompletionRouterAssumption DEF Init, CooldownBounded
<1>2. HeldSound /\ EditSound
  BY DEF Init, HeldSound, EditSound
<1>3. ReadSound
  BY DEF Init, ReadSound, NoView
<1> QED BY <1>1, <1>2, <1>3 DEF CopiesSound

LEMMA NextCopies == Inv /\ CopiesSound /\ [Next]_vars => CopiesSound'
<1> SUFFICES ASSUME Inv, CopiesSound, [Next]_vars PROVE CopiesSound'
  OBVIOUS
<1>1. CASE \E r \in Request : Begin(r) \/ Local(r) \/ ProviderAnswers(r)
  BY <1>1, RequestCopies
<1>2. CASE Operator
  BY <1>2, OperatorCopies
<1>3. CASE Tick
  BY <1>3, TickCopies
<1>4. CASE Finished \/ UNCHANGED vars
  BY <1>4 DEF Finished, vars, database, operator, CopiesSound, CooldownBounded, HeldSound,
     ReadSound, EditSound
<1> QED BY <1>1, <1>2, <1>3, <1>4 DEF Next

\* No order of requests, edits and clock ticks locks an account out: a stored
\* row cools down exactly while it has failures, and never longer than one
\* cooldown of that many failures from now.
THEOREM BoundedCooldown == Spec => []CooldownBounded
<1>1. Init => CopiesSound
  BY InitCopies
<1>2. Inv /\ CopiesSound /\ [Next]_vars => CopiesSound'
  BY NextCopies
<1>3. CopiesSound => CooldownBounded
  BY DEF CopiesSound
<1> QED BY <1>1, <1>2, <1>3, Invariance, PTL DEF Spec

=============================================================================
