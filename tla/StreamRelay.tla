---------------------------- MODULE StreamRelay ----------------------------
(***************************************************************************)
(* A streamed completion: the content provider of the HTTP server, the     *)
(* loop of CompletionRouter::streamChatCompletions, the translator of the  *)
(* Antigravity events, and the client that may go away at every write.     *)
(*                                                                         *)
(* It is one request.  The races on account rows are the subject of        *)
(* CompletionRouter: here recordFailure, recordSuccess, the reads of       *)
(* select and each edit of the operator are one step, and the clock stands *)
(* still.  Two more abstractions: findRoutingGroup and the three           *)
(* classifications of its members are one step, and a buffered stream is   *)
(* one step in which chatCompletions may answer anything; what that does   *)
(* to the rows is CompletionRouter's subject.                              *)
(***************************************************************************)
EXTENDS RoutingPolicy

CONSTANTS
  Provider,       \* Provider[a], the provider whose prefix account id a has
  NoRow,          \* what findAccount returns when there is no such row
  Bodies,         \* the shapes of request body the client sends
  GroupChoices,   \* the groups the operator may save
  InitialAccounts, InitialGroups,   \* what the database may hold at the start
  MaxDeltas,      \* bound on the pieces of text of one provider call
  MaxEdits        \* bound on the number of operator edits

ASSUME StreamRelayAssumption ==
  /\ Provider \in [AccountId -> ProviderName]
  /\ NoRow \notin Row
  /\ Bodies \subseteq {"complete", "noModel", "noMessages"}
  /\ GroupChoices \subseteq Group
  /\ InitialAccounts \subseteq [AccountId -> Row \cup {NoRow}]
  /\ InitialGroups \subseteq Group
  /\ MaxDeltas \in Nat
  /\ MaxEdits \in Nat

VARIABLES
  accounts, group, credentials,   \* the database and the credential store
  edits,         \* how many edits the operator has made
  pc,            \* what the request does next
  body,          \* the shape of its body
  native,        \* the provider it streams from natively, or "none"
  attempted,     \* attemptedAccountIds; the last one is the current account
  budget,        \* the size of the group when the request was accepted
  row,           \* the Account object the loop holds
  upstream,      \* the stream of the provider: "open", "ended" by an event,
                 \* or "closed" by [DONE]
  deltas,        \* how many pieces of text it has carried
  buffer,        \* state.buffer: an event not yet followed by a blank line
  emitted,       \* something has been handed to the client
  finished,      \* state.done
  providerError, \* state.providerError
  connected,     \* the client is still there: sink.write succeeds
  sent,          \* what it has received
  result         \* the CompletionStreamResult, or the exception

shared     == <<accounts, group, credentials, edits>>
attempt    == <<body, native, attempted, budget, row>>
call       == <<upstream, deltas, buffer>>
translator == <<emitted, finished, providerError>>
client     == <<connected, sent>>
vars == <<shared, pc, attempt, call, translator, client, result>>

Stage == {"idle", "enter", "buffered", "select", "prepare", "connecting", "streaming",
          "closing", "expire", "success", "failure", "catch", "respond", "done", "escaped"}

Event == {"delta", "completed", "error", "done"}

Piece == [kind : {"delta", "finish", "error", "done"}, from : AccountId \cup {NoAccount}]

Outcome == {"none", "ok", "cancelled", "failed", "rejected", "badRequest",
            "notFound", "unavailable"}

TypeOK ==
  /\ accounts \in [AccountId -> Row \cup {NoRow}]
  /\ group \in Group
  /\ credentials \in SUBSET AccountId
  /\ edits \in Nat
  /\ pc \in Stage
  /\ body \in {"complete", "noModel", "noMessages"}
  /\ native \in ProviderName \cup {"none"}
  /\ attempted \in Seq(AccountId)
  /\ budget \in Nat
  /\ row \in Row \cup {NoRow}
  /\ upstream \in {"open", "ended", "closed"}
  /\ deltas \in Nat
  /\ buffer \in Event \cup {"none"}
  /\ emitted \in BOOLEAN /\ finished \in BOOLEAN /\ providerError \in BOOLEAN
  /\ connected \in BOOLEAN
  /\ sent \in Seq(Piece)
  /\ result \in [status : Outcome, emitted : BOOLEAN, account : AccountId \cup {NoAccount}]

Init ==
  /\ accounts \in InitialAccounts
  /\ group \in InitialGroups
  /\ credentials = {a \in AccountId : accounts[a] # NoRow /\ accounts[a].credentialRef}
  /\ edits = 0
  /\ pc = "idle"
  /\ body \in Bodies
  /\ native = "none" /\ attempted = <<>> /\ budget = 0 /\ row = NoRow
  /\ upstream = "open" /\ deltas = 0 /\ buffer = "none"
  /\ emitted = FALSE /\ finished = FALSE /\ providerError = FALSE
  /\ connected = TRUE /\ sent = <<>>
  /\ result = [status |-> "none", emitted |-> FALSE, account |-> NoAccount]

\* The account the request is working on, account.id in the code.
Current == attempted[Len(attempted)]

Goto(stage) == pc' = stage

\* streamChatCompletions returns to the content provider.
Return(status, hasEmitted, a) ==
  /\ Goto("respond")
  /\ result' = [status |-> status, emitted |-> hasEmitted, account |-> a]

\* The first n of the pieces reach the client, one write for each; when it is
\* not all of them, a write has failed and the client is gone.
Deliver(kinds, a, n) ==
  /\ n \in 0 .. Len(kinds)
  /\ n > 0 => connected
  /\ sent' = sent \o [i \in 1 .. n |-> [kind |-> kinds[i], from |-> a]]
  /\ connected' = (connected /\ n = Len(kinds))

-----------------------------------------------------------------------------
(* The content provider of the server.                                     *)

\* The route refuses a disabled group with a plain response.
Arrive ==
  /\ pc = "idle"
  /\ Goto(IF group.enabled THEN "enter" ELSE "done")
  /\ UNCHANGED <<shared, attempt, call, translator, client, result>>

\* A result that is not a success, and of which the client has seen nothing, is
\* told as an error event and the end.  Then the request is logged.
Respond ==
  /\ pc = "respond"
  /\ Goto("done")
  /\ IF result.status # "ok" /\ ~ result.emitted
     THEN \E n \in 0 .. 2 : Deliver(<<"error", "done">>, NoAccount, n)
     ELSE UNCHANGED client
  /\ UNCHANGED <<shared, attempt, call, translator, result>>

\* An exception leaves streamChatCompletions, and the content provider.
Escape == Goto("escaped") /\ UNCHANGED result

-----------------------------------------------------------------------------
(* streamChatCompletions: entry and selection.                             *)

Streams(p, r) ==
  r.provider = p /\ (p = "zai" => r.providerMode = "general-api")
                 /\ (p = "antigravity" => r.providerMode = "api-project")

\* groupIsNativeProvider: some member has a row, and every row streams from p.
groupIsNativeProvider(p) ==
  LET rows == {accounts[a] : a \in Range(group.members)} \ {NoRow}
  IN  rows # {} /\ \A r \in rows : Streams(p, r)

Enter ==
  /\ pc = "enter"
  /\ \/ /\ ~ group.enabled
        /\ Return("unavailable", FALSE, NoAccount)
        /\ UNCHANGED <<native, budget>>
     \/ /\ group.enabled
        /\ \E p \in ProviderName : groupIsNativeProvider(p) /\ native' = p
        /\ budget' = Len(group.members)
        /\ Goto("select")
        /\ UNCHANGED result
     \/ /\ group.enabled
        /\ \A p \in ProviderName : ~ groupIsNativeProvider(p)
        /\ Goto("buffered")
        /\ UNCHANGED <<native, budget, result>>
  /\ UNCHANGED <<shared, body, attempted, row, call, translator, client>>

\* A mixed group: the whole answer of chatCompletions is one write.
Buffered ==
  /\ pc = "buffered"
  /\ \/ /\ \E s \in {"rejected", "badRequest", "unavailable", "failed"} :
             Return(s, FALSE, NoAccount)
        /\ UNCHANGED client
     \/ \E a \in Range(group.members) :
          \/ /\ Deliver(<<"delta", "finish", "done">>, a, 3)
             /\ Return("ok", TRUE, a)
          \/ /\ Deliver(<<"delta", "finish", "done">>, a, 0)
             /\ Return("cancelled", FALSE, NoAccount)
     \/ Escape /\ UNCHANGED client
  /\ UNCHANGED <<shared, attempt, call, translator>>

Decisions ==
  selectInternal(group,
                 {[id |-> a, row |-> accounts[a], used |-> UnknownUse] :
                    a \in {m \in Range(group.members) : accounts[m] # NoRow}},
                 0, Range(attempted))

\* An attempt begins with a fresh translator.
Select ==
  /\ pc = "select"
  /\ \/ /\ Len(attempted) >= budget \/ Decisions = {}
        /\ Return("unavailable", FALSE, NoAccount)
        /\ UNCHANGED <<group, attempted, row, call, translator>>
     \/ /\ Len(attempted) < budget
        /\ \E d \in Decisions :
             /\ attempted' = Append(attempted, d.id)
             /\ row' = accounts[d.id]
             /\ group' = [group EXCEPT !.lastIndex = d.index]
        /\ upstream' = "open" /\ deltas' = 0 /\ buffer' = "none"
        /\ emitted' = FALSE /\ finished' = FALSE /\ providerError' = FALSE
        /\ Goto("prepare")
        /\ UNCHANGED result
  /\ UNCHANGED <<accounts, credentials, edits, body, native, budget, client>>

-----------------------------------------------------------------------------
(* streamChatCompletions: one attempt, up to the call.                     *)

OverHttp == native # "codex"

\* The credential the attempt needs, as the row that was read names it.
Holds == row.credentialRef /\ Current \in credentials

AtPrepare ==
  /\ pc = "prepare"
  /\ UNCHANGED <<shared, attempt, call, translator, client>>

\* Slip: the account is put on the list only when it has a credential.
CredentialMissing_NotCounted ==
  /\ pc = "prepare" /\ OverHttp /\ ~ Holds
  /\ attempted' = Front(attempted)
  /\ Goto("select")
  /\ UNCHANGED <<shared, body, native, budget, row, call, translator, client, result>>

CredentialMissing == AtPrepare /\ OverHttp /\ ~ Holds /\ Goto("select") /\ UNCHANGED result

\* CredentialStore::get throws; the loop has no handler around it.
CredentialUnreadable == AtPrepare /\ OverHttp /\ row.credentialRef /\ Escape

ModelMissing ==
  /\ AtPrepare
  /\ native = "zai" /\ Holds /\ body = "noModel"
  /\ Return("badRequest", FALSE, NoAccount)

\* toCodexPrompt throws.
PromptMissing ==
  /\ AtPrepare
  /\ native = "codex" \/ (native = "antigravity" /\ Holds)
  /\ body = "noMessages"
  /\ Goto("catch")
  /\ UNCHANGED result

CallProvider ==
  /\ AtPrepare
  /\ OverHttp => Holds
  /\ body # IF native = "zai" THEN "noModel" ELSE "noMessages"
  /\ Goto("connecting")
  /\ UNCHANGED result

-----------------------------------------------------------------------------
(* The provider answers.                                                   *)

AtConnecting ==
  /\ pc = "connecting"
  /\ UNCHANGED <<shared, attempt, call, translator, client>>

ProviderAccepts == AtConnecting /\ Goto("streaming") /\ UNCHANGED result

ProviderUnauthorized == AtConnecting /\ OverHttp /\ Goto("expire") /\ UNCHANGED result

ProviderRejects == AtConnecting /\ OverHttp /\ Return("rejected", FALSE, Current)

ProviderFails == AtConnecting /\ OverHttp /\ Goto("failure") /\ UNCHANGED result

\* Slip: the client of the app server is constructed outside the try block.
ProviderThrows_Escapes == AtConnecting /\ ~ OverHttp /\ Escape

\* The app server cannot be started, or refuses the turn.
ProviderThrows == AtConnecting /\ ~ OverHttp /\ Goto("catch") /\ UNCHANGED result

\* What the provider may say next: text, then one end, then perhaps [DONE].
Says(e) ==
  \/ e = "delta" /\ upstream = "open" /\ deltas < MaxDeltas
  \/ e \in {"completed", "error"} /\ upstream = "open" /\ native = "antigravity"
  \/ e = "done" /\ native = "zai" /\ upstream = "open"
  \/ e = "done" /\ native = "antigravity" /\ upstream = "ended"

Carry(e) ==
  /\ Says(e)
  /\ upstream' = CASE e = "delta" -> "open" [] e = "done" -> "closed" [] OTHER -> "ended"
  /\ deltas' = IF e = "delta" THEN deltas + 1 ELSE deltas

\* A write to the client has failed: curl and the app-server client stop.
Cancelled(hasEmitted) == Return("cancelled", hasEmitted, Current)

\* Z.ai: bytes are passed on as they come.
PassThrough ==
  /\ pc = "streaming" /\ native = "zai"
  /\ \E e \in {"delta", "done"}, n \in 0 .. 1 :
       /\ Carry(e)
       /\ Deliver(<<e>>, Current, n)
       /\ IF n = 1 THEN UNCHANGED <<pc, result>> ELSE Cancelled(TRUE)
  /\ emitted' = TRUE
  /\ UNCHANGED <<shared, attempt, buffer, finished, providerError>>

\* Slip: a delta does not count as emitted.
CodexDelta_Unnoticed ==
  /\ pc = "streaming" /\ native = "codex"
  /\ \E n \in 0 .. 1 :
       /\ Carry("delta")
       /\ Deliver(<<"delta">>, Current, n)
       /\ IF n = 1 THEN UNCHANGED <<pc, result>> ELSE Cancelled(TRUE)
  /\ UNCHANGED <<shared, attempt, buffer, translator>>

\* Codex: every delta of the turn becomes a chunk.
CodexDelta ==
  /\ pc = "streaming" /\ native = "codex"
  /\ \E n \in 0 .. 1 :
       /\ Carry("delta")
       /\ Deliver(<<"delta">>, Current, n)
       /\ IF n = 1 THEN UNCHANGED <<pc, result>> ELSE Cancelled(TRUE)
  /\ emitted' = TRUE
  /\ UNCHANGED <<shared, attempt, buffer, finished, providerError>>

CodexCompletes ==
  /\ pc = "streaming" /\ native = "codex"
  /\ \E n \in 0 .. 2 :
       /\ Deliver(<<"finish", "done">>, Current, n)
       /\ emitted' = (emitted \/ n > 0)
       /\ IF n = 2 THEN Goto("success") /\ UNCHANGED result ELSE Cancelled(emitted')
  /\ UNCHANGED <<shared, attempt, call, finished, providerError>>

CodexBreaks ==
  /\ pc = "streaming" /\ native = "codex"
  /\ Goto("catch")
  /\ UNCHANGED <<shared, attempt, call, translator, client, result>>

-----------------------------------------------------------------------------
(* The translator of Antigravity events.                                   *)

\* An event whose blank line has not arrived yet.
EventBegins ==
  /\ pc = "streaming" /\ native = "antigravity"
  /\ buffer = "none"
  /\ \E e \in Event : Carry(e) /\ buffer' = e
  /\ UNCHANGED <<shared, pc, attempt, translator, client, result>>

\* emitAntigravityEvent: n writes succeed, then the translator is in its new state.
Translate(e, n) ==
  \/ /\ e = "delta"
     /\ Deliver(<<"delta">>, Current, n)
     /\ emitted' = (emitted \/ n = 1)
     /\ UNCHANGED <<finished, providerError>>
  \/ /\ e = "completed" \/ (e = "done" /\ ~ finished)
     /\ Deliver(<<"finish", "done">>, Current, n)
     /\ emitted' = (emitted \/ n > 0)
     /\ finished' = (finished \/ n = 2)
     /\ UNCHANGED providerError
  \/ /\ e = "done" /\ finished /\ n = 0
     /\ UNCHANGED <<client, translator>>
  \/ /\ e = "error"
     /\ Deliver(<<"error", "done">>, Current, n)
     /\ emitted' = (emitted \/ n = 2)
     /\ finished' = (finished \/ n = 2)
     /\ providerError' = TRUE

\* The writes event e asks for.
WritesOf(e) ==
  IF e = "delta" THEN 1 ELSE IF e = "done" /\ finished THEN 0 ELSE 2

EventEnds ==
  /\ pc = "streaming" /\ native = "antigravity"
  /\ buffer # "none"
  /\ \E n \in 0 .. WritesOf(buffer) :
       /\ Translate(buffer, n)
       /\ IF n = WritesOf(buffer) THEN UNCHANGED <<pc, result>> ELSE Cancelled(emitted')
  /\ buffer' = "none"
  /\ UNCHANGED <<shared, attempt, upstream, deltas>>

\* The response ends well, after an error event or not.  A whole event still in
\* the buffer is translated before the stream is closed, a part of one says nothing.
ResponseEnds ==
  /\ pc = "streaming" /\ native = "antigravity"
  /\ \/ /\ providerError
        /\ Goto("failure")
        /\ UNCHANGED <<translator, client, result>>
     \/ /\ ~ providerError
        /\ Goto("closing")
        /\ UNCHANGED <<translator, client, result>>
     \/ /\ ~ providerError /\ ~ finished /\ buffer # "none"
        /\ \E n \in 0 .. WritesOf(buffer) :
             /\ Translate(buffer, n)
             /\ IF n = WritesOf(buffer)
                THEN Goto("closing") /\ UNCHANGED result
                ELSE Cancelled(emitted')
  /\ UNCHANGED <<shared, attempt, call>>

\* Slip: the end is written whether the provider has ended the stream or not.
Close_Always ==
  /\ pc = "closing"
  /\ \E n \in 0 .. 2 :
       /\ Deliver(<<"finish", "done">>, Current, n)
       /\ emitted' = (emitted \/ n = 2) /\ finished' = (n = 2)
       /\ IF n = 2 THEN Goto("success") /\ UNCHANGED result ELSE Cancelled(emitted)
  /\ UNCHANGED <<shared, attempt, call, providerError>>

\* The end is written if the provider has not said any.
Close ==
  /\ pc = "closing"
  /\ \/ /\ finished
        /\ Goto("success")
        /\ UNCHANGED <<translator, client, result>>
     \/ /\ ~ finished
        /\ \E n \in 0 .. 2 :
             /\ Deliver(<<"finish", "done">>, Current, n)
             /\ emitted' = (emitted \/ n = 2) /\ finished' = (n = 2)
             /\ IF n = 2 THEN Goto("success") /\ UNCHANGED result ELSE Cancelled(emitted)
        /\ UNCHANGED providerError
  /\ UNCHANGED <<shared, attempt, call>>

-----------------------------------------------------------------------------
(* The outcome of an attempt.                                              *)

\* Z.ai closes the response in good order, after [DONE] or without it.
PassThroughEnds ==
  /\ pc = "streaming" /\ native = "zai"
  /\ Goto("success")
  /\ UNCHANGED <<shared, attempt, call, translator, client, result>>

\* Slip: the status line alone tells a success.
ConnectionLost_StatusOnly ==
  /\ pc = "streaming" /\ OverHttp
  /\ Goto("success")
  /\ UNCHANGED <<shared, attempt, call, translator, client, result>>

\* The connection breaks, or the call runs into its timeout.
ConnectionLost ==
  /\ pc = "streaming" /\ OverHttp
  /\ Goto("failure")
  /\ UNCHANGED <<shared, attempt, call, translator, client, result>>

MarkAuthExpired ==
  /\ pc = "expire"
  /\ accounts' = IF accounts[Current] = NoRow
                 THEN accounts
                 ELSE [accounts EXCEPT ![Current] = [row EXCEPT !.status = "AUTH_EXPIRED"]]
  /\ Goto("select")
  /\ UNCHANGED <<group, credentials, edits, attempt, call, translator, client, result>>

\* recordSuccess throws when the row is gone; only Z.ai has no handler for it.
RecordSuccess ==
  /\ pc = "success"
  /\ \/ /\ accounts[Current] # NoRow
        /\ accounts' = [accounts EXCEPT ![Current] = SuccessRecorded(@)]
        /\ Return("ok", emitted, Current)
     \/ /\ accounts[Current] = NoRow
        /\ IF native = "zai" THEN Escape ELSE Goto("catch") /\ UNCHANGED result
        /\ UNCHANGED accounts
  /\ UNCHANGED <<group, credentials, edits, attempt, call, translator, client>>

\* recordFailure, in the loop or in its catch block; it throws when the row is
\* gone.  When something has been emitted the client is told, unless it has been
\* told an end, and the loop is left; otherwise the next account is tried.
RecordFailure ==
  /\ pc \in {"failure", "catch"}
  /\ \/ /\ accounts[Current] # NoRow
        /\ accounts' = [accounts EXCEPT ![Current] = FailureRecorded(@, 0)]
        /\ \/ ~ emitted /\ Goto("select") /\ UNCHANGED <<client, result>>
           \/ /\ emitted
              /\ Return("failed", TRUE, Current)
              /\ IF finished
                 THEN UNCHANGED client
                 ELSE \E n \in 0 .. 2 : Deliver(<<"error", "done">>, Current, n)
     \/ /\ accounts[Current] = NoRow
        /\ IF pc = "failure" /\ native = "antigravity"
           THEN Goto("catch") /\ UNCHANGED result
           ELSE Escape
        /\ UNCHANGED <<accounts, client>>
  /\ UNCHANGED <<group, credentials, edits, attempt, call, translator>>

-----------------------------------------------------------------------------
(* The operator's edits a stream can notice.                               *)

Edit ==
  /\ edits < MaxEdits
  /\ edits' = edits + 1
  /\ UNCHANGED <<pc, attempt, call, translator, client, result>>

RemoveAccount(a) ==
  /\ Edit
  /\ accounts[a] # NoRow
  /\ accounts' = [accounts EXCEPT ![a] = NoRow]
  /\ credentials' = credentials \ {a}
  /\ group' = MembershipDeleted(group, a)

SaveGroup ==
  /\ Edit
  /\ \E g \in GroupChoices :
       /\ Savable(g, {a \in AccountId : accounts[a] # NoRow
                                        /\ automaticRoutingCapable(accounts[a])})
       /\ group' = [g EXCEPT !.lastIndex = -1]
  /\ UNCHANGED <<accounts, credentials>>

-----------------------------------------------------------------------------

\* Steps the handler takes by itself.
Local ==
  \/ Arrive \/ Enter \/ Select
  \/ CredentialMissing \/ CredentialUnreadable \/ ModelMissing \/ PromptMissing
  \/ CallProvider \/ Close \/ MarkAuthExpired \/ RecordSuccess \/ RecordFailure \/ Respond

\* Steps the provider takes, and what the handler does in its callbacks.
Upstream ==
  \/ ProviderAccepts \/ ProviderUnauthorized \/ ProviderRejects \/ ProviderFails
  \/ ProviderThrows \/ PassThrough \/ PassThroughEnds
  \/ CodexDelta \/ CodexCompletes \/ CodexBreaks
  \/ EventBegins \/ EventEnds \/ ResponseEnds \/ ConnectionLost

Finished == pc \in {"done", "escaped"} /\ UNCHANGED vars

Next ==
  \/ Local \/ Buffered \/ Upstream
  \/ (\E a \in AccountId : RemoveAccount(a)) \/ SaveGroup
  \/ Finished

Spec == Init /\ [][Next]_vars

\* The handler's thread is scheduled, and curl bounds every stream over HTTP by
\* its timeout.  A codex turn has none, and a client may not send a request.
Fairness == WF_vars(pc # "idle" /\ Local) /\ WF_vars(OverHttp /\ Upstream)

FairSpec == Spec /\ Fairness

-----------------------------------------------------------------------------
(* Properties.                                                             *)

\* What the client has been told, in the words of the contract.
Told(kinds) == {i \in DOMAIN sent : sent[i].kind \in kinds}
Voices      == {sent[i].from : i \in Told({"delta"})}
Over        == Told({"finish", "error", "done"}) # {}

Contract ==
  INSTANCE StreamContract WITH
    Speaker  <- AccountId,
    speakers <- Voices,
    words    <- Cardinality(Told({"delta"})),
    over     <- Over

\* The relay keeps the contract: the text a client receives comes from one
\* account, whatever failed before it, and none of it follows the end.
KeepsContract == Contract!Spec

\* Z.ai has closed its response in good order and never sent [DONE], which the
\* code, passing bytes on, cannot tell.
EndedSilently == native = "zai" /\ result.status = "ok" /\ upstream # "closed"

EndsWithDone ==
  pc = "done" /\ connected /\ result.status # "none" =>
    EndedSilently \/ (sent # <<>> /\ Last(sent).kind = "done")

EndsOnce ==
  Cardinality(Told({"done"})) > 1 => native = "zai" /\ result.status = "failed"

\* A client that has stayed is told the end of its stream, with [DONE] last,
\* unless an exception left the handler or Z.ai did not say it; and [DONE] is
\* written once, and again only by an upstream that broke after it had passed its
\* own through.
EndIsTold == EndsWithDone /\ EndsOnce

\* A stream is recorded as a success only when the client received its end, as
\* far as the provider has one, and no error, but for an error event that was
\* still in the buffer at the end.
SuccessIsComplete ==
  result.status = "ok" =>
    /\ connected
    /\ EndedSilently \/ Told({"done"}) # {}
    /\ Told({"error"}) # {} => buffer = "error"

\* An exception leaves a native stream, which then has neither an end nor a log
\* entry, only when the account was removed meanwhile, or before the call when
\* the credential store throws.
EscapesExcused ==
  pc = "escaped" /\ native # "none" =>
    \/ accounts[Current] = NoRow
    \/ OverHttp /\ row.credentialRef /\ ~ emitted

\* Every stream comes to an end, unless a codex turn or the buffered completion
\* behind it does not.
StreamCloses ==
  pc = "enter" ~>
    \/ pc \in {"done", "escaped"}
    \/ pc \in {"connecting", "streaming"} /\ native = "codex"
    \/ pc = "buffered"

\* A provider streams natively only for accounts of its own (README.md,
\* Streaming: a mixed group is buffered).
OwnAccountsOnly ==
  pc \in {"connecting", "streaming"} => Streams(native, row)

=============================================================================
