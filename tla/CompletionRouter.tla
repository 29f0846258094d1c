-------------------------- MODULE CompletionRouter --------------------------
(***************************************************************************)
(* CompletionRouter::chatCompletions run by the worker threads of the HTTP *)
(* server, over the accounts table, one custom routing group and the       *)
(* credential store, while the operator (the terminal UI and the admin API *)
(* are other threads) edits the same rows.                                 *)
(*                                                                         *)
(* Every call on the database, the credential store or a provider is one   *)
(* step, so whatever a thread read may be out of date when it writes:      *)
(* updateAccount rewrites a whole row.                                     *)
(*                                                                         *)
(* Abstractions.  The two SELECTs of findRoutingGroup, the transactions of *)
(* saveRoutingGroup and deleteAccount, and the checks of saveGroup are one *)
(* step each.  A clock read is taken with the database read that follows   *)
(* it.  Statements of the database do not fail.                            *)
(***************************************************************************)
EXTENDS RoutingPolicy

CONSTANTS
  Request,        \* worker threads, one completion request each
  Provider,       \* Provider[a], the provider whose prefix account id a has
  Used,           \* Used[a], the latest quota usage of a, or UnknownUse
  NoRow,          \* what findAccount returns when there is no such row
  Bodies,         \* the shapes of request body the clients send
  Priorities,     \* the priorities the operator may set
  GroupChoices,   \* the groups the operator may save
  InitialAccounts, InitialGroups,   \* what the database may hold at the start
  MaxTime,        \* bound on the clock
  MaxEdits        \* bound on the number of operator edits

\* "complete" has messages and a model for every provider; "noModel" and
\* "noMessages" lack one of them, "bare" both.
HasMessages == {"complete", "noModel"}
HasModel    == {"complete", "noMessages"}
Body        == HasMessages \cup HasModel \cup {"bare", "invalid", "noGroup"}

ASSUME CompletionRouterAssumption ==
  /\ Provider \in [AccountId -> ProviderName]
  /\ Used \in [AccountId -> Nat \cup {UnknownUse}]
  /\ NoRow \notin Row
  /\ Bodies \subseteq Body
  /\ Priorities \subseteq Int
  /\ GroupChoices \subseteq Group
  /\ InitialAccounts \subseteq [AccountId -> Row \cup {NoRow}]
  /\ \A rows \in InitialAccounts, a \in AccountId :
       rows[a] # NoRow => CooldownSound(rows[a], 0)
  /\ InitialGroups \subseteq Group
  /\ MaxTime \in Nat
  /\ MaxEdits \in Nat

VARIABLES
  accounts,      \* the accounts table: a row, or NoRow, for every id
  group,         \* the routing group the requests address
  credentials,   \* the ids whose secret the credential store holds
  now,           \* std::time(nullptr)
  pc,            \* what each request does next
  body,          \* the shape of its body
  attempted,     \* attemptedAccountIds; the last one is the current account
  budget,        \* the size of the group when the request was accepted
  configError,   \* requestConfigurationError is set
  view,          \* what select has read: group, time and rows so far
  row,           \* the Account object the handler holds
  reply,         \* the CompletionRouteResult, or the exception
  opPc, opId, opRow,   \* the operator's edit in progress and its row
  edits          \* how many edits the operator has made

database == <<accounts, group, credentials, now>>
operator == <<opPc, opId, opRow, edits>>
vars == <<database, pc, body, attempted, budget, configError, view, row, reply, operator>>

Stage == {"idle", "select", "candidates", "dispatch", "calling", "expire",
          "failure", "catch", "writeFailure", "success", "writeSuccess",
          "verify", "writeVerified", "done"}

ReplyStatus == {"none", "ok", "rejected", "badRequest", "notFound", "unavailable", "exception"}

NoView == [group |-> [strategy |-> "MANUAL", enabled |-> FALSE, manual |-> NoAccount,
                      lastIndex |-> -1, members |-> <<>>],
           now |-> 0, rows |-> <<>>]

TypeOK ==
  /\ accounts \in [AccountId -> Row \cup {NoRow}]
  /\ group \in Group
  /\ credentials \in SUBSET AccountId
  /\ now \in Nat
  /\ pc \in [Request -> Stage]
  /\ body \in [Request -> Body]
  /\ attempted \in [Request -> Seq(AccountId)]
  /\ budget \in [Request -> Nat]
  /\ configError \in [Request -> BOOLEAN]
  /\ view \in [Request -> [group : Group, now : Nat, rows : Seq(Row \cup {NoRow})]]
  /\ row \in [Request -> Row \cup {NoRow}]
  /\ reply \in [Request -> [status : ReplyStatus, account : AccountId \cup {NoAccount}]]
  /\ opPc \in {"idle", "put", "update", "erase", "delete"}
  /\ opId \in AccountId \cup {NoAccount}
  /\ opRow \in Row \cup {NoRow}
  /\ edits \in Nat

Init ==
  /\ accounts \in InitialAccounts
  /\ group \in InitialGroups
  /\ credentials = {a \in AccountId : accounts[a] # NoRow /\ accounts[a].credentialRef}
  /\ now = 0
  /\ pc = [r \in Request |-> "idle"]
  /\ body = [r \in Request |-> "invalid"]
  /\ attempted = [r \in Request |-> <<>>]
  /\ budget = [r \in Request |-> 0]
  /\ configError = [r \in Request |-> FALSE]
  /\ view = [r \in Request |-> NoView]
  /\ row = [r \in Request |-> NoRow]
  /\ reply = [r \in Request |-> [status |-> "none", account |-> NoAccount]]
  /\ opPc = "idle" /\ opId = NoAccount /\ opRow = NoRow
  /\ edits = 0

\* The account the request is working on, account.id in the code.
Current(r) == attempted[r][Len(attempted[r])]

\* Slip: an upsert, INSERT OR REPLACE instead of UPDATE.
UpdateAccount_Inserts(a, new) == accounts' = [accounts EXCEPT ![a] = new]

\* updateAccount: the whole row is replaced; nothing happens if it is gone.
UpdateAccount(a, new) ==
  accounts' = IF accounts[a] = NoRow THEN accounts ELSE [accounts EXCEPT ![a] = new]

Goto(r, stage) == pc' = [pc EXCEPT ![r] = stage]

\* The handler returns (or throws): its local state is gone.
Answer(r, status, a) ==
  /\ Goto(r, "done")
  /\ reply' = [reply EXCEPT ![r] = [status |-> status, account |-> a]]
  /\ view' = [view EXCEPT ![r] = NoView]
  /\ row' = [row EXCEPT ![r] = NoRow]

\* The return after the loop.
GiveUp(r) == Answer(r, IF configError[r] THEN "badRequest" ELSE "unavailable", NoAccount)

-----------------------------------------------------------------------------
(* A request: entry and selection.                                         *)

Begin(r) ==
  /\ pc[r] = "idle"
  /\ \E b \in Bodies :
       /\ body' = [body EXCEPT ![r] = b]
       /\ \/ b = "invalid" /\ Answer(r, "badRequest", NoAccount) /\ UNCHANGED budget
          \/ b = "noGroup" /\ Answer(r, "notFound", NoAccount) /\ UNCHANGED budget
          \/ /\ b \notin {"invalid", "noGroup"} /\ ~ group.enabled
             /\ Answer(r, "unavailable", NoAccount)
             /\ UNCHANGED budget
          \/ /\ b \notin {"invalid", "noGroup"} /\ group.enabled
             /\ Goto(r, "select")
             /\ budget' = [budget EXCEPT ![r] = Len(group.members)]
             /\ UNCHANGED <<view, row, reply>>
  /\ UNCHANGED <<database, attempted, configError, operator>>

\* Slip: the last attempt is never made.
ReadGroup_OneShort(r) ==
  /\ pc[r] = "select"
  /\ \/ /\ Len(attempted[r]) + 1 >= budget[r] \/ ~ group.enabled
        /\ GiveUp(r)
     \/ /\ Len(attempted[r]) + 1 < budget[r] /\ group.enabled
        /\ view' = [view EXCEPT ![r] = [group |-> group, now |-> now, rows |-> <<>>]]
        /\ row' = [row EXCEPT ![r] = NoRow]
        /\ Goto(r, "candidates")
        /\ UNCHANGED reply
  /\ UNCHANGED <<database, body, attempted, budget, configError, operator>>

\* The loop condition, then the first reads of select.
ReadGroup(r) ==
  /\ pc[r] = "select"
  /\ \/ /\ Len(attempted[r]) >= budget[r] \/ ~ group.enabled
        /\ GiveUp(r)
     \/ /\ Len(attempted[r]) < budget[r] /\ group.enabled
        /\ view' = [view EXCEPT ![r] = [group |-> group, now |-> now, rows |-> <<>>]]
        /\ row' = [row EXCEPT ![r] = NoRow]
        /\ Goto(r, "candidates")
        /\ UNCHANGED reply
  /\ UNCHANGED <<database, body, attempted, budget, configError, operator>>

\* candidatesFor reads the members one after the other.
ReadCandidate(r) ==
  /\ pc[r] = "candidates"
  /\ Len(view[r].rows) < Len(view[r].group.members)
  /\ LET a == view[r].group.members[Len(view[r].rows) + 1]
     IN  view' = [view EXCEPT ![r].rows = Append(@, accounts[a])]
  /\ UNCHANGED <<database, pc, body, attempted, budget, configError, row, reply, operator>>

CandidatesOf(v) ==
  {[id |-> v.group.members[i], row |-> v.rows[i], used |-> Used[v.group.members[i]]] :
     i \in {j \in DOMAIN v.rows : v.rows[j] # NoRow}}

\* What select decides for r from the rows it has read.
Decisions(r) ==
  selectInternal(view[r].group, CandidatesOf(view[r]), view[r].now, Range(attempted[r]))

Decide(r) ==
  /\ pc[r] = "candidates"
  /\ Len(view[r].rows) = Len(view[r].group.members)
  /\ \/ /\ Decisions(r) = {}
        /\ GiveUp(r)
        /\ UNCHANGED <<group, attempted>>
     \/ \E d \in Decisions(r), c \in CandidatesOf(view[r]) :
          /\ c.id = d.id
          /\ attempted' = [attempted EXCEPT ![r] = Append(@, d.id)]
          /\ row' = [row EXCEPT ![r] = c.row]
          /\ view' = [view EXCEPT ![r].rows = <<>>]
          /\ group' = IF view[r].group.strategy = "ROUND_ROBIN"
                      THEN [group EXCEPT !.lastIndex = d.index]
                      ELSE group
          /\ Goto(r, "dispatch")
          /\ UNCHANGED reply
  /\ UNCHANGED <<accounts, credentials, now, body, budget, configError, operator>>

-----------------------------------------------------------------------------
(* A request: one attempt on the selected account.                         *)

\* The credential the attempt needs, as the row that was read names it.
Holds(r) == row[r].credentialRef /\ Current(r) \in credentials

AtDispatch(r) ==
  /\ pc[r] = "dispatch"
  /\ UNCHANGED <<database, body, attempted, budget, view, row, reply, operator>>

\* Slip: an account that is skipped is not remembered as attempted.
Skip_Forgotten(r) ==
  /\ pc[r] = "dispatch"
  /\ ~ completionRoutingCapable(row[r])
  /\ Goto(r, "select")
  /\ attempted' = [attempted EXCEPT ![r] = SubSeq(@, 1, Len(@) - 1)]
  /\ UNCHANGED <<database, body, budget, configError, view, row, reply, operator>>

\* A Z.ai coding plan or an Antigravity consumer session: nothing to execute.
Skip(r) ==
  /\ AtDispatch(r)
  /\ ~ completionRoutingCapable(row[r])
  /\ Goto(r, "select")
  /\ UNCHANGED configError

CredentialMissing(r) ==
  /\ AtDispatch(r)
  /\ automaticRoutingCapable(row[r])
  /\ ~ Holds(r)
  /\ Goto(r, "expire")
  /\ UNCHANGED configError

\* Slip: the credential is read before the try block.
CredentialUnreadable_Escapes(r) ==
  /\ pc[r] = "dispatch"
  /\ automaticRoutingCapable(row[r])
  /\ row[r].credentialRef
  /\ Answer(r, "exception", NoAccount)
  /\ UNCHANGED <<database, body, attempted, budget, configError, operator>>

\* CredentialStore::get throws, for one when the secret's file is empty.
CredentialUnreadable(r) ==
  /\ AtDispatch(r)
  /\ automaticRoutingCapable(row[r])
  /\ row[r].credentialRef
  /\ Goto(r, "catch")
  /\ UNCHANGED configError

ModelMissing(r) ==
  /\ AtDispatch(r)
  /\ row[r].provider = "zai" /\ row[r].providerMode = "general-api"
  /\ Holds(r)
  /\ body[r] \notin HasModel
  /\ configError' = [configError EXCEPT ![r] = TRUE]
  /\ Goto(r, "select")

\* toCodexPrompt throws.
PromptMissing(r) ==
  /\ AtDispatch(r)
  /\ \/ row[r].provider = "codex"
     \/ row[r].provider = "antigravity" /\ row[r].providerMode = "api-project" /\ Holds(r)
  /\ body[r] \notin HasMessages
  /\ Goto(r, "catch")
  /\ UNCHANGED configError

CallProvider(r) ==
  /\ AtDispatch(r)
  /\ \/ row[r].provider = "codex" /\ body[r] \in HasMessages
     \/ automaticRoutingCapable(row[r]) /\ Holds(r)
        /\ body[r] \in IF row[r].provider = "zai" THEN HasModel ELSE HasMessages
  /\ Goto(r, "calling")
  /\ UNCHANGED configError

-----------------------------------------------------------------------------
(* A request: what the provider answers.                                   *)

AtCall(r) ==
  /\ pc[r] = "calling"
  /\ UNCHANGED <<database, body, attempted, budget, configError, operator>>

OverHttp(r) == row[r].provider # "codex"

Returns(r, stage) == Goto(r, stage) /\ UNCHANGED <<view, row, reply>>

ProviderSucceeds(r) == AtCall(r) /\ Returns(r, "success")

\* HTTP 401 or 403.
ProviderUnauthorized(r) == AtCall(r) /\ OverHttp(r) /\ Returns(r, "expire")

\* A status that is neither a success nor retryable goes back to the client.
ProviderRejects(r) == AtCall(r) /\ OverHttp(r) /\ Answer(r, "rejected", Current(r))

\* An interaction that ran out of budget without any text: 422.
InteractionEmpty(r) ==
  AtCall(r) /\ row[r].provider = "antigravity" /\ Answer(r, "rejected", NoAccount)

\* A transport error, 408, 409, 429, a 5xx, or an interaction of no use.
ProviderFails(r) == AtCall(r) /\ OverHttp(r) /\ Returns(r, "failure")

\* The app server fails, or an interaction is not JSON.
ProviderThrows(r) == AtCall(r) /\ row[r].provider # "zai" /\ Returns(r, "catch")

ProviderAnswers(r) ==
  \/ ProviderSucceeds(r) \/ ProviderUnauthorized(r) \/ ProviderRejects(r)
  \/ InteractionEmpty(r) \/ ProviderFails(r) \/ ProviderThrows(r)

-----------------------------------------------------------------------------
(* A request: what it writes back.                                         *)

\* The row selected before the call is written, with the new status.
MarkAuthExpired(r) ==
  /\ pc[r] = "expire"
  /\ UpdateAccount(Current(r), [row[r] EXCEPT !.status = "AUTH_EXPIRED"])
  /\ Goto(r, "select")
  /\ UNCHANGED <<group, credentials, now, body, attempted, budget, configError,
                 view, row, reply, operator>>

\* recordFailure, in the body of the loop ("failure") or in its catch block.  It
\* throws when the row is gone: out of the loop body into the catch block, and
\* out of the catch block into the server.
RecordFailure(r) ==
  LET found == accounts[Current(r)]
  IN  /\ pc[r] \in {"failure", "catch"}
      /\ \/ /\ found # NoRow
            /\ row' = [row EXCEPT ![r] = FailureRecorded(found, now)]
            /\ Goto(r, "writeFailure")
            /\ UNCHANGED <<view, reply>>
         \/ /\ found = NoRow /\ pc[r] = "failure"
            /\ Returns(r, "catch")
         \/ /\ found = NoRow /\ pc[r] = "catch"
            /\ Answer(r, "exception", NoAccount)
      /\ UNCHANGED <<database, body, attempted, budget, configError, operator>>

WriteFailure(r) ==
  /\ pc[r] = "writeFailure"
  /\ UpdateAccount(Current(r), row[r])
  /\ Goto(r, "select")
  /\ UNCHANGED <<group, credentials, now, body, attempted, budget, configError,
                 view, row, reply, operator>>

\* recordSuccess; it throws into the catch block when the row is gone.
RecordSuccess(r) ==
  LET found == accounts[Current(r)]
  IN  /\ pc[r] = "success"
      /\ \/ /\ found # NoRow
            /\ row' = [row EXCEPT ![r] = SuccessRecorded(found)]
            /\ Goto(r, "writeSuccess")
            /\ UNCHANGED <<view, reply>>
         \/ found = NoRow /\ Returns(r, "catch")
      /\ UNCHANGED <<database, body, attempted, budget, configError, operator>>

\* Slip: the loop goes on after a success.
WriteSuccess_GoesOn(r) ==
  /\ pc[r] = "writeSuccess"
  /\ UpdateAccount(Current(r), row[r])
  /\ Returns(r, "select")
  /\ UNCHANGED <<group, credentials, now, body, attempted, budget, configError, operator>>

\* An interaction whose "model" or "id" is not a string throws now, when its
\* success is recorded: into the catch block.
WriteSuccess(r) ==
  /\ pc[r] = "writeSuccess"
  /\ UpdateAccount(Current(r), row[r])
  /\ \/ row[r].provider = "zai" /\ Returns(r, "verify")
     \/ row[r].provider # "zai" /\ Answer(r, "ok", Current(r))
     \/ row[r].provider = "antigravity" /\ Returns(r, "catch")
  /\ UNCHANGED <<group, credentials, now, body, attempted, budget, configError, operator>>

\* A Z.ai key is a WARNING until a request has proved it.
Verify(r) ==
  LET found == accounts[Current(r)]
  IN  /\ pc[r] = "verify"
      /\ \/ /\ found # NoRow /\ found.status = "WARNING"
            /\ row' = [row EXCEPT ![r] = [found EXCEPT !.status = "READY"]]
            /\ Goto(r, "writeVerified")
            /\ UNCHANGED <<view, reply>>
         \/ /\ found # NoRow => found.status # "WARNING"
            /\ Answer(r, "ok", Current(r))
      /\ UNCHANGED <<database, body, attempted, budget, configError, operator>>

WriteVerified(r) ==
  /\ pc[r] = "writeVerified"
  /\ UpdateAccount(Current(r), row[r])
  /\ Answer(r, "ok", Current(r))
  /\ UNCHANGED <<group, credentials, now, body, attempted, budget, configError, operator>>

-----------------------------------------------------------------------------
(* The operator, one edit at a time.                                       *)

requests == <<pc, body, attempted, budget, configError, view, row, reply>>

StartEdit(a, stage, new) ==
  /\ opPc = "idle" /\ edits < MaxEdits
  /\ opPc' = stage /\ opId' = a /\ opRow' = new
  /\ edits' = edits + 1
  /\ UNCHANGED <<database, requests>>

SetAccountEnabled(a) ==
  /\ accounts[a] # NoRow
  /\ \E e \in BOOLEAN : StartEdit(a, "update", [accounts[a] EXCEPT !.enabled = e])

SetAccountPriority(a) ==
  /\ accounts[a] # NoRow
  /\ \E p \in Priorities : StartEdit(a, "update", [accounts[a] EXCEPT !.priority = p])

\* The row that configureZaiApiKey and configureAntigravityApiKey store.
KeyConfigured(found, mode, status) ==
  [found EXCEPT !.credentialRef = TRUE, !.providerMode = mode, !.status = status,
                !.consecutiveFailures = 0, !.cooldownUntil = NoCooldown]

ConfigureApiKey(a) ==
  /\ accounts[a] # NoRow
  /\ \/ /\ accounts[a].provider = "zai"
        /\ \E mode \in ModesOf["zai"] :
             StartEdit(a, "put", KeyConfigured(accounts[a], mode, "WARNING"))
     \/ /\ accounts[a].provider = "antigravity" /\ accounts[a].providerMode = "api-project"
        /\ \/ StartEdit(a, "put", KeyConfigured(accounts[a], "api-project", "READY"))
           \/ \E s \in {"AUTH_EXPIRED", "ERROR"} :    \* the key was not validated
                StartEdit(a, "update", [accounts[a] EXCEPT !.status = s])

PutSecret ==
  /\ opPc = "put"
  /\ credentials' = credentials \cup {opId}
  /\ opPc' = "update"
  /\ UNCHANGED <<accounts, group, now, requests, opId, opRow, edits>>

FinishEdit ==
  /\ opPc = "update"
  /\ UpdateAccount(opId, opRow)
  /\ opPc' = "idle" /\ opId' = NoAccount /\ opRow' = NoRow
  /\ UNCHANGED <<group, credentials, now, requests, edits>>

RemoveAccount(a) ==
  /\ accounts[a] # NoRow
  /\ StartEdit(a, IF accounts[a].credentialRef THEN "erase" ELSE "delete", NoRow)

EraseSecret ==
  /\ opPc = "erase"
  /\ credentials' = credentials \ {opId}
  /\ opPc' = "delete"
  /\ UNCHANGED <<accounts, group, now, requests, opId, opRow, edits>>

DeleteAccount ==
  /\ opPc = "delete"
  /\ accounts' = [accounts EXCEPT ![opId] = NoRow]
  /\ group' = MembershipDeleted(group, opId)
  /\ opPc' = "idle" /\ opId' = NoAccount
  /\ UNCHANGED <<credentials, now, requests, opRow, edits>>

\* nextAccountId: the first number above every existing id of the provider, so
\* removing the newest account frees its id.
AddAccount(a) ==
  LET sameProvider == {b \in AccountId : Provider[b] = Provider[a]}
      above == {b \in sameProvider :
                  \A c \in sameProvider : accounts[c] # NoRow => c < b}
  IN  /\ opPc = "idle" /\ edits < MaxEdits
      /\ a \in above /\ \A b \in above : a <= b
      /\ \E mode \in ModesOf[Provider[a]] :
           accounts' = [accounts EXCEPT ![a] =
             [provider |-> Provider[a], providerMode |-> mode, credentialRef |-> FALSE,
              status |-> "AUTH_EXPIRED", priority |-> 100, enabled |-> TRUE,
              consecutiveFailures |-> 0, cooldownUntil |-> NoCooldown]]
      /\ edits' = edits + 1
      /\ UNCHANGED <<group, credentials, now, requests, opPc, opId, opRow>>

\* saveGroup of a custom group: the editor always restarts the cursor.
SaveGroup ==
  /\ opPc = "idle" /\ edits < MaxEdits
  /\ \E g \in GroupChoices :
       /\ Savable(g, {a \in AccountId : accounts[a] # NoRow
                                        /\ automaticRoutingCapable(accounts[a])})
       /\ group' = [g EXCEPT !.lastIndex = -1]
  /\ edits' = edits + 1
  /\ UNCHANGED <<accounts, credentials, now, requests, opPc, opId, opRow>>

Operator ==
  \/ \E a \in AccountId :
       \/ SetAccountEnabled(a) \/ SetAccountPriority(a) \/ ConfigureApiKey(a)
       \/ RemoveAccount(a) \/ AddAccount(a)
  \/ PutSecret \/ FinishEdit \/ EraseSecret \/ DeleteAccount \/ SaveGroup

-----------------------------------------------------------------------------

Tick ==
  /\ now < MaxTime
  /\ now' = now + 1
  /\ UNCHANGED <<accounts, group, credentials, requests, operator>>

\* Steps the thread takes by itself once its request has arrived.
Local(r) ==
  \/ ReadGroup(r) \/ ReadCandidate(r) \/ Decide(r)
  \/ Skip(r) \/ CredentialMissing(r) \/ CredentialUnreadable(r) \/ ModelMissing(r)
  \/ PromptMissing(r) \/ CallProvider(r)
  \/ MarkAuthExpired(r) \/ RecordFailure(r) \/ WriteFailure(r)
  \/ RecordSuccess(r) \/ WriteSuccess(r) \/ Verify(r) \/ WriteVerified(r)

\* Nothing is left to do: every request answered and no edit half done.
Finished ==
  /\ \A r \in Request : pc[r] = "done"
  /\ opPc = "idle"
  /\ UNCHANGED vars

Next ==
  \/ \E r \in Request : Begin(r) \/ Local(r) \/ ProviderAnswers(r)
  \/ Operator
  \/ Tick
  \/ Finished

Spec == Init /\ [][Next]_vars

\* A worker thread is scheduled, and HttpClient bounds every HTTP call by its
\* timeouts.  A codex turn has no timeout, clients and operator promise nothing.
Fairness ==
  \A r \in Request : WF_vars(Local(r) \/ (ProviderAnswers(r) /\ OverHttp(r)))

FairSpec == Spec /\ Fairness

-----------------------------------------------------------------------------
(* Properties.                                                             *)

\* FailurePolicy under concurrency: whatever rows the threads overwrite, a row
\* cools down exactly while it has failures, and never longer than one cooldown
\* of that many failures from now: no interleaving locks an account out.
CooldownBounded ==
  \A a \in AccountId : accounts[a] # NoRow => CooldownSound(accounts[a], now)

\* chatCompletions never tries an account twice for one request, so it leaves
\* its loop after at most as many attempts as the group had members at first.
AttemptsDistinct ==
  \A r \in Request : IsInjective(attempted[r]) /\ Len(attempted[r]) <= budget[r]

\* The automatic boundary: a provider is called only for a row that was
\* eligible when it was read and that, unless the operator picked it by hand,
\* holds an API credential, whatever rows and strategies changed meanwhile.
CallsJustified ==
  \A r \in Request :
    pc[r] = "calling" =>
      /\ eligible(row[r], view[r].now)
      /\ IF view[r].group.strategy = "MANUAL"
         THEN Current(r) = view[r].group.manual
         ELSE automaticRoutingCapable(row[r])

\* No thread that still holds the object of a removed account brings its row
\* back: a row appears only when the operator adds an account.
RemovedStaysRemoved ==
  [][\A a \in AccountId :
       accounts[a] = NoRow /\ accounts'[a] # NoRow => AddAccount(a)]_vars

\* The enabled switch of an account belongs to the operator: only an edit of
\* the operator changes it (AccountManagerLifecycle.cpp, setAccountEnabled).
SwitchIsOperators ==
  [][\A a \in AccountId :
       accounts[a] # NoRow /\ accounts'[a] # NoRow
         /\ accounts[a].enabled # accounts'[a].enabled => opPc = "update"]_vars

\* A request that reached the router is answered, whatever the other threads
\* and the operator do, unless it waits for a codex turn, which has no timeout.
EveryRequestAnswered ==
  \A r \in Request :
    pc[r] # "idle" ~>
      \/ pc[r] = "done"
      \/ pc[r] = "calling" /\ row[r].provider = "codex"

=============================================================================
