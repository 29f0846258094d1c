# Verification of routerAI

routerAI keeps several accounts of AI providers (Codex profiles, Antigravity
sessions or Gemini projects, Z.ai keys) behind one local OpenAI-compatible
endpoint. A request names a routing group; the router picks one of the group's
accounts, calls its provider, fails over to the next account, and remembers
what went wrong as a cooldown. A terminal UI and an admin API change accounts
and groups while requests run. This directory holds TLA+ models of that
program, the TLC runs that check them, and theorems that TLAPS proves.

Run from this directory: `tlc -workers 2 -config X.cfg M` for a run of
`PROJECT.json`, `tlapm M.tla` for the proofs of a `...Proofs` module.

## 1. The system

### Threads and shared state

There is one process. Its main thread runs the terminal UI (`ManagementApp`,
`TerminalApp`); cpp-httplib's worker threads run the handlers of `/v1/...` and
`/admin/api/...`. Both work on the same objects (`AccountManager`,
`RoutingManager`, `CompletionRouter`, `ConfigManager`, `MaintenanceManager`,
`CredentialStore`), which hold no locks and share one `SQLiteDatabase`, that
is one `sqlite3*` connection in serialized mode. A single statement is
therefore atomic, and nothing longer is: every "read a row, decide, write the
row" of the program interleaves with every other one.

### Inventory

| component | state | operations | what makes it correct |
|---|---|---|---|
| FailurePolicy, AccountSelector | none | `cooldownSeconds`, `recordFailure`, `recordSuccess`, eligibility, the order of each strategy | a success clears all a failure left; an order never ties two accounts |
| RoutingManager | rows of the database | `select`, `preview`, `recordFailure/Success`, `saveGroup`, `syncDefaultGroups` | rotation is fair, previews tell the truth, the automatic boundary holds |
| CompletionRouter (buffered) | the attempts of a request | `chatCompletions` | each account at most once, failover exhaustive, every request answered, one answer paid for |
| CompletionRouter (streams) | translator state, bytes sent | `streamChatCompletions` | no failover after the first byte, exactly one end of stream |
| AccountManager | rows, secrets, runtime directories | add, configure key, login, enable, priority, refresh, quota, remove | operator switches survive, nothing is left behind by a removal |
| SQLiteDatabase | accounts, quota snapshots and windows, groups and members, settings, request log | one method per statement or transaction | transactions do not mix, memberships refer to rows, retention keeps the newest |
| CredentialStore | Secret Service, fallback files | `put`, `get`, `erase` | a secret that was replaced or erased never comes back |
| ConfigManager, MaintenanceManager | none | import and export, repair, removal of orphaned directories | a partial import leaves a usable state, active directories are kept |
| LocalApiServer, OpenAICompat | listening thread, handlers | routes, `start`, `stop`, request parsing, SSE conversion | one log line for a request, clean restart |
| CodexAppServerClient | JSON-RPC session | `initialize`, `thread/start`, `turn/start`, notifications | a turn ends with its own text or an error |
| DuplexProcess, ProcessRunner | pipes, child | `start`, `writeLine`, `readLine`, `terminate`, `run` | no mutual wait, the child is reaped |
| HttpClient | none | `get`, `post`, `postStream` | bounded by its timeouts |
| CLI adapters, desktop profiles, terminal UI, admin page, entry, build | screens, directories | glue | see "Not modelled" |

Interactions: the server calls `CompletionRouter`; that calls `RoutingManager`
(which calls `SQLiteDatabase`), `CredentialStore`, and one provider client; the
UI and the admin API call `AccountManager` and `RoutingManager`, which write the
same rows. Callbacks exist only for streams (write callback of curl, content
provider of httplib).

### What is hard here

`PROJECT.json` lists the hazards at their lines. The main ones:

* **Stale rows.** `updateAccount` writes every column. The router selects a row,
  calls a provider for seconds or minutes, and on 401/403 writes that old row
  back. `recordFailure`, `recordSuccess`, `setAccountEnabled` and the others read
  and write in two statements.
* **Removal under a request.** `recordFailure` throws when the row is gone, also
  in the catch block that was to handle failures.
* **Groups edited under a request.** Strategy, members and credentials are read
  again on each attempt, the bound of the loop only once.
* **The round-robin cursor** is read and stored in separate statements, by
  several requests and, by mistake, by a preview.
* **Streams** cannot fail over once the client has bytes.
* **Crashes** between the steps of a removal, a key change or an import.
* **Child processes** and their pipes; a codex turn has no timeout.

## 2. The modules

`RoutingPolicy` (constant level)
: `FailurePolicy`, the eligibility tests, the comparators of the strategies as
  sort keys, and `selectInternal` as the set of decisions it may return. A
  `CASE` per strategy follows the `switch`. The set has at most one element;
  `OneDecision` says that, and is checked and proved, so that the reading of a
  comparator as a key is itself under test.

`CompletionRouter` (core)
: `chatCompletions` run by several threads. `accounts`, `group`, `credentials`
  and `now` are the shared state; `pc`, `body`, `attempted`, `budget`,
  `configError`, `view`, `row` and `reply` are the locals of the handlers:
  `attempted` is `attemptedAccountIds`, `row[r]` is the `Account` object
  `account` in hand, `view[r]` is what `select` has read. Every call on the
  database, the credential store or a provider is a step. The operator is one
  more thread (`opPc`, `opId`, `opRow`): it reads a row in one step and writes it
  in another, as `AccountManager` does; removing an account erases the secret and
  then deletes the row. The operator may add an account whose id was freed.

`RouterHistory`
: the same with history variables, for the properties that relate an answer to
  what happened during the request: when it began and with which members, the accounts
  that were open ever since, the rows removed meanwhile, the providers that completed it
  with an answer the code can read.
  `FailoverExhaustive` excepts a request that tried an account that joined the group
  meanwhile: the loop of `chatCompletions` makes as many attempts as the group had members
  when the request began, so a newcomer takes the place of one of them.

`RoutingSelection`
: `RoutingManager` over a long run: selections, outcomes, previews, quota
  snapshots, edits. It leaves the rows' races to `CompletionRouter` and keeps the
  one on the cursor. `waited` and `forecast` are bookkeeping of the properties.

`StreamContract` and `StreamRelay`
: what a streamed completion promises its client (three variables, two actions),
  and the stream as it is made: `streamChatCompletions` with its Z.ai, Antigravity
  and Codex paths, the content provider of the server around it, and the client,
  which may be gone at any write. It is one request, from the route to the log
  entry. `attempted`, `row` and `native` are the locals of the loop; `buffer`,
  `emitted`, `finished` and `providerError` are `AntigravitySseState` (`emitted` also
  the local of the other paths); `sent` is what reached the client, in pieces
  (text, a chunk with a finish reason, an error event, `[DONE]`). `Deliver` is a
  sequence of writes of which the first n succeed.

`ChildProcess` and `CodexSession`
: `DuplexProcess` on POSIX (constructor, `writeLine`, `readLine`, destructor, and the
  pipe ends each process holds), and `CodexAppServerClient` over it. A session is a
  thread that reads a profile or limits, or runs a prompt, and the app server at
  the other end of its pipes. `stage` is where the constructor or the destructor
  is, `step` and `phase` where the script of requests is, `text` is `result.text` as
  a sequence of delta numbers. `ChildProcess` holds the operations as actions on its
  own variables; `CodexSession` composes each with the session's. `Tool` is
  a command that another thread runs through `ProcessRunner`.

`RoutingGroups`
: the groups and the accounts they name, changed by several threads: one runs the
  terminal UI, the others handlers of the Web Admin. `accounts` and `groups` are
  the tables, `pc` says where each thread is, and `known`, `draft`, `todo`, `row`,
  `copies` are what it has read and not yet used. `List`, `FindDefault` and
  `SaveDefault` are `syncDefaultGroups`, which follows every operation; `Save`,
  `CheckMember` and `WriteGroup` are `saveGroup`, with the caller's place to go on
  at in `then`. The callers are the operations on accounts, the group editor and the
  quota advisor, the import and the repair. `alone` and `serial` are bookkeeping of the
  properties: that nobody else has written since the thread listed the accounts, and
  that no operation has begun during another.

`SharedConnection`, `CredentialStore` and `AccountStorage`
: what an account owns, and the three places that keep it. `SharedConnection` is the
  `sqlite3*` of `SQLiteDatabase`: `tables` is what its statements see, `disk` what is
  committed, `owner` the thread whose transaction is open, `lastRow` what
  `last_insert_rowid` returns. A statement of any thread joins the open transaction; a
  second `BEGIN` fails. `CredentialStore` is the Secret Service and the fallback
  files of its namesake: `writeBytes` empties a file before it writes it, and the service
  may be away. `AccountStorage` composes both with the runtime directories (`dirs`).
  An operation is a *script*, the sequence of steps its thread has still to
  take; the operators under "The operations as scripts" read like the functions they are
  named after, and each step is an action. `Fails` lets a step throw, which ends
  the operation or, in its own transaction, goes on with the `ROLLBACK` of the
  handler; `Crash` ends the process between any two steps, `Exit` and `Stop` end it
  the way `main` does, `Restart` constructs `LocalApiServer` again. `past` is bookkeeping of
  the properties.

`RoutingPolicyProofs`, `CompletionRouterProofs`, `RouterHistoryProofs`,
`RoutingSelectionProofs`, `StreamRelayProofs`, `CodexSessionProofs`,
`RoutingGroupsProofs`, `AccountStorageProofs`
: the theorems, see section 4. `MC...` modules give values to the constants.

### Abstractions

* Account ids are numbers, so that the string order is `<`; names, e-mails,
  texts and model names do not exist. A credential reference is a Boolean,
  because it is always `<id>-api-key` or empty.
* A body is one of six shapes: complete, without model, without messages, without
  both, not JSON, or for an unknown group. That is all `chatCompletions`
  tells apart.
* A provider's answer is one of: success, 401/403, another final status, a
  retryable failure, an exception, an interaction that is cut off without text (422), an
  interaction that proves unreadable after its success was recorded. Request and answers are
  well-formed UTF-8: `jsonError` (`CompletionRouter.cpp:175-176`) would throw on others.
* A request of a stream that names a model names it with a string;
  `resolveProviderModel` (`CompletionStream.cpp:386`) would throw otherwise.
* The statements of `findRoutingGroup`, `saveRoutingGroup` and `deleteAccount`
  are one step each outside `AccountStorage`; statements do not fail there; the clock is read together with the
  database read that follows it.
* `CredentialStore::get` may throw at any time (an empty file, a service that
  is away).
* `StreamRelay` is one request, so races on rows are left to `CompletionRouter`:
  the reads and the write of a selection are one step, `recordFailure` and
  `recordSuccess` are one step each, an edit of the operator is one step and the
  clock stands still. A buffered stream is one step in which `chatCompletions`
  may answer anything.
* Of the upstream of a stream the model assumes (`Says`): pieces of text, then at
  most one end (`interaction.completed` or an error event; `[DONE]` for Z.ai),
  then perhaps `[DONE]`. A response may close in good order anywhere, one of Antigravity
  with an event in the buffer, and any connection may break anywhere.
* Of the app server of a codex session the model assumes that it answers each request
  it has read, ends each turn, reads its input also while its output is full, and exits
  at the end of its input or at SIGTERM; it may die at any time, refuse,
  report on a turn before it has answered `turn/start`, speak of other turns, ask
  something itself with any id, and write lines that are not JSON. A pipe holds
  a number of messages (`Capacity`); the prompt takes `PromptSize` writes. An answer
  without the expected shape counts as a refusal, a notification without a known
  method as `other`, an empty line does not exist. SIGPIPE is ignored, as
  httplib leaves it.
* In `RoutingGroups` the members of a group are a set (their order and the cursor
  belong to `RoutingSelection`), of a row of accounts the mode is kept, which tells the
  provider, and a transaction of the database is one step that does not fail, except
  the insertion of an id that is taken. Groups and members are visited in any order.
  An exception ends the operation, of the UI too. The screens that refresh several
  accounts before one sync are one account's update. Items of an imported
  file that the code skips do not exist.
* In `AccountStorage` a row of accounts is whether it refers to a secret; there
  is one group, a custom one, so that `syncDefaultGroups` does not write it; a quota
  snapshot has one window; the two `DELETE`s of a retention are one step; the time a
  provider takes is the time between two steps. A failed statement changes nothing and
  leaves its transaction open: that SQLite itself ends a transaction when the disk is
  full is left out. Only Codex accounts have a directory and only the others a key.
  A runtime directory is removed whole or not at all.
* Transactions as single steps, in the other modules, are right for what is committed:
  `SavesAreWhole` shows that no interleaving, failure or crash commits half of
  one. A *reader* on the same connection may see one half done, since
  isolation does not exist within a connection; `findRoutingGroup` may thus return
  a group without members while it is being saved. Only `AccountStorage` has that.
* Quota usage is constant in `CompletionRouter` (`Used`) and changes in
  `RoutingSelection`.

## 3. The runs

Deadlock is checked in every run but those of `CodexSession`, where sessions end and
nothing starts them again, and of `RoutingGroups` and `AccountStorage`, where operations
end at their bound. `CompletionRouter` has a `Finished` step for
"every request answered, no edit half done", so any other stop is an error.

| run | instance | shows |
|---|---|---|
| `router_shared` | 2 requests, a Z.ai and a Gemini account in one group, or one of them that the other joins (`MCRouterHistory`); 1 edit of the operator (which takes up to three steps), clock 0..1; 1.9 million states | `CooldownBounded`, `FailoverExhaustive`, `SuccessReachesClient`, `ThrowsOnlyAfterRemoval`, `RemovedStaysRemoved` |
| `router_boundary` | 1 request, every body, a group mixing codex, coding plan and API rows, 2 edits, clock 0..1, with fairness | `TypeOK`, `CallsJustified`, `AttemptsDistinct`, `EveryRequestAnswered` |
| `router_disable_lost` | 1 request, 1 edit | violates `SwitchIsOperators` (finding 1) |
| `selection` | `Rotation`: 1 caller, 4 members, 1 edit, clock 0..2; `Race`: 2 callers, 3 members, 1 edit; `Forecast`: 1 caller, 3 members, all strategies, 2 edits; with fairness | `OneDecision`, `RotationFair`, `HealthForetells`, `NoStarvation` |
| `stream_relay` | groups of each provider (2 accounts each), a mixed and a disabled one, 2 edits, 2 pieces of text in a call, with fairness | `TypeOK`, `EndIsTold`, `SuccessIsComplete`, `EscapesExcused`, `KeepsContract`, `StreamCloses` |
| `stream_mixed_native` | the same with 1 edit | violates `OwnAccountsOnly` (finding 2) |
| `codex_session` | 1 session of each kind with a command and 2 other messages, or one that reads limits beside one of each kind; pipes of 1 message, a prompt of 3 writes, 3 deltas, with fairness; 652 thousand states | `TypeOK`, `TextIsWhole`, `NothingLeft`, `ClosedIsDead`, `SessionEnds` |
| `groups_shared` | the terminal UI with 2 operations and a handler with 1, a Z.ai and an Antigravity account under their first ids, the default groups and a custom one, strategies manual and health first, 2 initial tables | `TypeOK`, `ManualIsMember`, `ReferencesExist`, `AutomaticIsCapable`, `SyncHeals`, `SyncKeepsChoices`, `RepairHeals` |
| `groups_ghost` | the same | violates `NoGhosts` (finding 3) |
| `account_storage` | two threads, a Codex account with a profile and a Z.ai account with a key in one group, and an account "router-local"; eight installations (`Quotas`, `Saves`, `Keys`, `KeyFiles`, `Imported`, `Profiles`, `Logs`, `Additions`) that differ in what the threads may do; 1 failing step, 1 end of the process, up to 2 outages of the Secret Service, with fairness; 642 thousand states | `TypeOK`, `SavesAreWhole`, `QuotaFiled`, `NothingLeftBehind`, `SecretsCurrent`, `LogBounded`, `ConnectionFreed`, `ProfilesKept`, `ExitKeepsWrites` |
| `remove_incomplete` | the same accounts, one quota refresh and one removal, nothing fails | violates `RemoveIsComplete` (finding 4) |
| `cleanup_active` | the Codex account, one cleanup, a removal and an account that is added and logged in, nothing fails | violates `CleanupSparesActive` (finding 5) |

**Bounds.** `MaxTime` and `MaxEdits` appear in the guards of `Tick` and of the
operator's steps; the code counts neither. Cooldowns are 1, 2 and 3 seconds
(`CooldownBase = 1`, `CooldownCap = 3`, so the cap is reached on the third
failure). Two requests suffice for every pairwise race on a row; one edit
interleaves with both at each of its steps, two edits contain "remove, then
add again under the freed id" and "change the strategy, then the account".
Four members let a rotation skip a neighbour and still have others to visit.
Two accounts per provider let a stream fail over once after each kind of
failure, two pieces of text let it fail between them (`MaxDeltas`), and two edits
let the operator change the group and remove the account in use.
A prompt of 3 writes and 3 deltas do not fit in a pipe of 1 message, so both sides of a
codex session block. Pipe ends are inherited by a command in some workloads and by
the child of another session in the others (`Workloads`). One of two sessions always
reads limits: two that run prompts side by side have more states than a run can visit,
and what a child that does not go away does to a session is there with one of them.
In `RoutingGroups` an imported item counts as an operation (`MaxOps`): two operations of
one thread and one of the other contain every race of two operations, and a repair
or an edit after it; one thread alone may add or import an account, remove it, and
add it again in another mode. A custom group and a default group of each kind are
there from the start or after one edit; that automatic strategies differ from
each other plays no part. A thread that finds no id left in `AccountId` adds nothing.
The third account of `AccountStorage`, "router-local", whose reference is the local API's,
has a row in `Imported` only. In `AccountStorage` the jobs of an installation (`s.jobs`) are those that touch
the same rows, secrets or directories, two of one thread and one to four of the other:
each pair overlaps at every step, and a removal is followed by an operation on what it
left. One failing step, one crash or exit (`s.faults`, `s.ends`) may fall
anywhere; two outages (`s.outages`) let the Secret Service be away for a put and back for
the erase. The log of 2 rows (`MaxRows`) is overrun by up to five entries. In
`Additions` an account is added, configured and put into a group while the other thread is
in a transaction, which may be rolled back.
Requests are symmetric in the safety runs and in no liveness run.

**Fairness.** `CompletionRouter`: weak fairness of each request's own steps
and of the provider's answer over HTTP: worker threads are scheduled, and
`HttpClient` sets connect and total timeouts on each call. A codex turn has no
timeout, so its answer is not fair and `EveryRequestAnswered` exempts it.
Nothing is assumed of clients, operator or clock. `RoutingSelection`: a caller
that selected an account stores the cursor and records the outcome; nothing
makes a caller select again (`NoStarvation` assumes it in its premise).
`StreamRelay`: the handler's own steps from the moment it has the request, and
the steps of a stream over HTTP, because `applyCommonOptions` sets a total
timeout that ends any transfer. A codex turn and the buffered completion are not
fair, and `StreamCloses` names them.

`AccountStorage`: a thread goes on with the operation it has begun (its database, store
and directory steps together). No operation waits for another one, since `BEGIN`
throws instead. Nothing is assumed of failures, crashes, restarts or new operations.

`CodexSession`: the client's steps once its process is being made; that the server
reads, answers, ends its turn and obeys; that a command comes to its end. Nothing in
the code bounds any of these, so these are assumptions on the external programs:
without them `SessionEnds` is false, because `readLine`, `fwrite` and the
last `waitpid` have no timeout.

**What a race does to the rotation.** A lone caller passes over an open account
at most once for each other member. Two callers can move the cursor
back: on three members TLC finds an open account passed over seven
times. So `RotationFair` is claimed for one caller and `NoStarvation` for two.

### Findings

1. `router_disable_lost`: a request that meets a rejected or missing key writes
   back the row it selected; the operator's switch, set meanwhile, is undone
   (`CompletionRouter.cpp:259` and its siblings, `RoutingManager.cpp:442-461`),
   though `AccountManagerLifecycle.cpp:14-15` calls it operator-controlled.
2. `stream_mixed_native`: which provider a group streams from natively is decided
   once (`CompletionStream.cpp:335-337`), and the group is read again by every
   selection (`:370`). A group edited in between makes, say, the Antigravity
   branch send a Z.ai key to Google. `README.md:387` and the comment at
   `CompletionStream.cpp:339-340` say that mixed groups are buffered.
3. `groups_ghost`: `syncDefaultGroups` lists the accounts once (`RoutingManager.cpp:205`)
   and then writes five groups. A removal by another thread in between, and the sync
   that follows it, are undone by the write of the older sync
   (`RoutingManager.cpp:276`): a default group names an account that is gone until the
   next sync, against `CHANGELOG.md:186`. The foreign keys that would refuse the
   row are declared (`SQLiteDatabase.cpp:239`) but not switched on. So
   `ReferencesExist` and `AutomaticIsCapable` are claimed of operations that do not overlap.
4. `remove_incomplete`: `readQuota` records what its provider has answered without
   looking whether the account is still there (`AccountManager.cpp:359-377`). A removal
   in between leaves a snapshot and its windows behind, for good, against
   `README.md:159`; an account that is given the id later shows them.
   `configureZaiApiKey` leaves a secret in the same way. So `NothingLeftBehind` is claimed
   of operations on one account that do not overlap (`past.crossed`).
5. `cleanup_active`: `removeOrphanRuntimeDirectories` lists accounts and directories
   once and removes every orphan afterwards (`MaintenanceManager.cpp:145-151`). An account
   that is added and logged in between, under an id whose directory was still there, loses
   its profile, against `CHANGELOG.md:151`. So `ProfilesKept` excepts the thread that has
   looked for the row before it appeared (`past.late`).

A further disagreement has no run of its own: "Preview selection" on the Routing Groups
screen (`TerminalApp.cpp:477`) calls `select`, which stores the round-robin cursor, so
the next request gets another account than the one shown, against `CHANGELOG.md:39`. The
Routing Health screen uses `preview` and is right (`HealthForetells`).

Behaviours of streams that no document excludes:

* The Z.ai path has no exception handler, and no path has one around
  `credentials_.get`: an unreadable credential, or a `recordSuccess` for an account
  that was removed, leaves the content provider without an end of stream and
  without a log entry (stage `escaped`).
* A Z.ai connection that breaks after its own `[DONE]` gives the client an error
  and a second `[DONE]` (the exemption in `EndsOnce`).
* A Z.ai response that closes in good order without `[DONE]` is recorded as a success, and
  the client is told no end (`EndedSilently`).
* An error event that is still in the buffer when the response closes is
  relayed to the client and recorded as a success (the exemption in
  `SuccessIsComplete`): the flag it sets is tested before the buffer is emptied.
* A stream that the provider completed but whose connection then broke is recorded as
  a failure, although the client has the whole answer.

Behaviours of groups that no document excludes:

* An import that throws after a group leaves a default group as the file had it,
  `codex-default` under an automatic strategy included, until something syncs.
* `repairRoutingGroups` saves through the check of `saveGroup`: while operations overlap
  an automatic group may come to hold an incapable member, and a repair that has to
  change that group throws and leaves the groups after it unrepaired.
* Ids are used again (`nextAccountId`), so a ghost member of a custom group becomes
  a member again when an account of that provider is added.

Behaviours of codex sessions that no document excludes:

* The end of a turn that arrives before the answer to `turn/start` is dropped by
  `readResponse`, and the session then waits for it without a limit (`missed` in
  `SessionEnds`). Deltas that arrive there are missing from the front of the text
  (`early` in `TextIsWhole`).
* The pipes are not close-on-exec. The end of file of a dead child is not seen as long
  as a process forked in between holds the other end: another session's child, or
  a login that runs in a terminal.
* So a hang spreads. When the child of a session that waits for a dropped end of its turn
  was forked between another session's pipes and their closing, that other session does not
  see its own child die, and waits for ever as well, though it asked for limits only.
  `SessionEnds` says that a session hangs for these two reasons and no other.
* An app server that stops reading while it writes blocks a long prompt, and one that ignores
  SIGTERM blocks the destructor, both without a limit; the fairness of the model excludes them.

Behaviours of the storage that no document excludes:

* `deleteAccount`, `recordQuotaSnapshot` and `saveRoutingGroup` throw when another thread is
  in a transaction (`BeginRefused`): an operation may fail because somebody else
  saves a group.
* A statement of another thread that falls into a transaction that is rolled back is
  undone, though its caller was told that it succeeded. For an account that was being
  added this leaves a secret, a membership or a quota snapshot without a row (`past.undone`
  in `NothingLeftBehind`).
* Another thread's `INSERT` between that of a snapshot and `sqlite3_last_insert_rowid`
  gives the windows to a snapshot that does not exist, or to another account's
  (`past.mingled` in `QuotaFiled`).
* A secret that is replaced or erased while the Secret Service is away stays in it, and
  is found again when it is back (`past.missed` in `SecretsCurrent`).
* A key that is stored before its row could be written is not erased with the account
  (`past.adrift` in `NothingLeftBehind`).
* An empty key file of the local API, left by a crash or a full disk, makes the
  constructor of `LocalApiServer` throw at every start (the guard of `Restart`).
* The removal of orphaned directories takes the profile of an account whose deletion it has
  seen in another thread's transaction and that a rollback brings back (`past.late`).
* `put` ignores that the file of an older secret could not be removed when the Secret Service
  has taken the new one (`UnfileFails`). While the service is away `get` then finds the
  replaced secret; `SecretsCurrent` allows it after such a failure only.
* An import may bring an account "router-local" (`ConfigManager.cpp:23-29` admits the id), whose
  key has the reference of the local API's own, "router-local-api-key". Configuring the account
  replaces the key that clients of the local API use, removing it erases that key, and a
  rotated local key becomes the account's; hence the exemption of `LocalApi` in
  `NothingLeftBehind`.

Behaviours of requests that no document excludes: a body
without `messages` is recorded as a failure of every Antigravity and Codex
account of the group, so that a few malformed requests cool all of them down
(`toCodexPrompt` throws into the catch block that records failures); an interaction of
Antigravity whose "model" or "id" is not a string is recorded as a success and then, as
reading it throws (`CompletionRouter.cpp:355-359`, `397-400`), as a failure, and the next
account is paid for the same request (a branch of `WriteSuccess`, no completion for
`SuccessReachesClient`); and a completion whose account was removed meanwhile is lost, with another provider called or an
exception in its place (the exemption in `SuccessReachesClient` and
`ThrowsOnlyAfterRemoval`).

## 4. The proofs

Every safety property that a passing run checks, invariant or action property, is
also a theorem: what TLC finds for two threads and two accounts holds for any
number of them. No proof uses the value of a bound (`MaxEdits`, `MaxTime`, `MaxOps`, `MaxDeltas`,
numbers of faults and jobs).

`CompletionRouterProofs` proves, for every set of requests and accounts, all
groups and bodies, and with no bound on the number of edits or on time (the
caps are constants of `Nat`; no proof uses their values):

| theorem | property |
|---|---|
| `TypeCorrect` | `Spec => []TypeOK` |
| `DistinctAttempts` | `Spec => []AttemptsDistinct` |
| `AutomaticBoundary` | `Spec => []CallsJustified` |
| `NoResurrection` | `Spec => RemovedStaysRemoved` |
| `BoundedCooldown` | `Spec => []CooldownBounded` |

They rest on `RoutingPolicyAssumption` and `CompletionRouterAssumption`: ids
are natural numbers, the cooldown constants are positive, the initial rows
are well-typed and sound. TLC evaluates both assumptions in each run.

* **Types.** `TypeOK` is not inductive: writing a row back needs the row a
  request holds to *be* a row. `Inv` adds, per stage, that a request that works on
  an account has an account and a row (`RequestOK`), and the same for an edit
  (`OperatorOK`). `RequestInv` and `OperatorInv` have a step per action.
* **Attempts.** `DecisionSound` shows what a decision gives under every strategy: an
  id that was not excluded, of a candidate that passed the filter. With the
  guard of the loop this keeps `attempted` injective and within `budget`
  (`AttemptsOK`, which adds that an idle request has attempted nothing).
* **Boundary.** `DispatchOK` states `CallsJustified` one stage earlier, from
  `Decide` on; between decision and call nothing but the request itself touches
  the row it holds, its view or its attempts.
* **Cooldown.** `CooldownBounded` speaks of stored rows, but a stored row is
  overwritten by copies read long before. `CopiesSound` states the same of every
  copy: rows held, rows read by `select`, the operator's row. Soundness
  survives the passing of time (`SoundLater`), so an old copy is as good as
  a new one. That is why whole-row overwrites, wrong for the operator's
  switch, cannot harm the cooldown.
* **Removal.** `UpdateAccount` leaves an absent row absent, and every step but
  `AddAccount` writes through it or deletes.

`RouterHistoryProofs` proves, under the same assumptions:

| theorem | property |
|---|---|
| `Exhaustive` | `HSpec => []FailoverExhaustive` |
| `SuccessDelivered` | `HSpec => []SuccessReachesClient` |
| `ThrowsExcused` | `HSpec => []ThrowsOnlyAfterRemoval` |

* **One request at a time.** `StepOf` says what a step of the program is for one request,
  whoever moved: it stays, is accepted or refused, works, tries an account, or
  concludes. The history of a request depends on nothing else, so `HistoryInv` is a
  conjunction over requests.
* **Failover.** A loop of n attempts over n
  accounts, each at most once, tries them all. While a request reads the rows one by one,
  every account that was open all along and is not attempted yet is offered or
  still to be read (`SteadyOffered`), so `select` can answer "none" only when all have been
  tried; and when the budget is used up, `attempted` is an injection into a set of
  that many members. The members of the group when the request began are that set, which is
  why the property needs `original`: without it an account that joins and takes an attempt
  refutes it, which is what the proof failed on and `JoiningChoices` lets happen.
* **Success and exceptions.** After a completion the request stays in the stages that
  deliver it unless it proves unreadable, and `served` loses it again, or the row is gone
  when it comes to write it; from then on an account of `served`
  is among `removed` (`Excused`, in `ServedOnce` and `Answered`). An exception needs the current
  row to be gone when its outcome is recorded, and `RemovalsSeen` says that this removal
  fell into the request.

`RoutingSelectionProofs` proves, for any set of callers, group and quota history
(`RoutingSelectionAssumption`: finitely many callers, none of them named "none"):

| theorem | property |
|---|---|
| `TypeCorrect` | `Spec => []TypeOK` |
| `OneAnswer` | `Spec => []OneDecision` |
| `Fair` | `Spec => []RotationFair` |
| `HealthTellsTruth` | `Spec => HealthForetells` |

* **One answer.** Every order compares keys that end in the id, so it is a strict total
  order (`KeyOrder`) and two decisions are one (`SelectionUnique`). That there is one at all
  takes a least key among finitely many: the least-number principle of the library, a fact about
  the well-founded order of the naturals, yields it without an induction scheme
  (`LeastNumber`, `LeastElement`).
* **Rotation.** `RotationOK` is the variant: what an open account has waited for and the
  distance the scan still has to go to it (`ScanOffset`) together stay below the number
  of members. `ScanMoves` says that each selection of a lone caller that passes an
  account over brings the scan nearer to it by at least one.
* **Forecasts.** `ForecastOK` follows what Routing Health has said from the screen to the
  selection that should fulfil it: first, nobody has moved and the forecast is what
  `select` would decide now (`FirstForecast`); then a caller has taken the primary, and the
  backup is what it will be given once its cursor is stored and the primary
  is excluded (`BackupForecast`). It relies on `recordFailure` of the primary changing nothing
  about the others.

`StreamRelayProofs` proves, for all groups, accounts, bodies, choices of the operator
and lengths of a stream:

| theorem | property |
|---|---|
| `StreamTypeCorrect` | `Spec => []TypeOK` |
| `RelayKeepsContract` | `Spec => KeepsContract`, that is `Spec => Contract!Spec` |
| `StreamEndTold` | `Spec => []EndIsTold` |
| `StreamSuccessComplete` | `Spec => []SuccessIsComplete` |
| `StreamEscapesExcused` | `Spec => []EscapesExcused` |

* **Types.** As above: `AttemptOK` says that an attempt has an account and a row.
* **Contract.** The refinement maps the sequence of pieces to the accounts that
  spoke (`Voices`), the number of texts, and whether an end is among them
  (`Over`). `RelayOK` is the inductive invariant: nothing is sent before a stream
  is open (`NothingEarly`); an attempt that has not `emitted` has sent nothing
  (`NothingUnnoticed`), which is why the loop may go on; while a stream is
  open only the current account has spoken (`OneVoice`); after an end the
  upstream is not open and the buffer holds no text (`NothingLate`, `BufferOK`).
  `DeliverEnd` and `DeliverDelta` say what writes do to the mapping whatever
  part of them succeeds; every step is then an `End`, a `Speak` or a stutter
  (`NextRelay`).
* **Ends.** `EndOK` says of each stage which part of the end has been sent and who has still to
  send the rest, the translator or the content provider; all three properties are
  among its conjuncts.

`CodexSessionProofs` proves, for any number of sessions, jobs and commands and for all
sizes of pipes and prompts:

| theorem | property |
|---|---|
| `SessionTypeCorrect` | `Spec => []TypeOK` |
| `LeavesNothing` | `Spec => []NothingLeft` |
| `ClosedMeansDead` | `Spec => []ClosedIsDead` |
| `WholeText` | `Spec => []TextIsWhole` |

* **Types.** `StepKnown` adds to `TypeOK` that a session that reads has no fourth message:
  `step` stays within `Script`.
* **Children.** `SessionOK` says of each stage which descriptors the router holds
  (`RouterHolds`) and what state the child is in (`ChildKnown`); `NothingLeft` is the
  last case. While a child runs it
  holds both of its own ends, so an end of file or a broken pipe, which means that
  nobody holds them, proves it dead whatever other processes hold.
* **Texts.** `TextOK` relates both pipes to the text: one `turn/start` at most is on its way or
  unanswered (`RequestsOK`); the deltas in the pipe ascend and an end is the last of them
  (`SpeechOK`); behind the answer to `turn/start` are exactly the deltas after those said too
  early, and once it has been read, exactly those that the text lacks (`AnswerOK`). So when the end
  is read nothing is missing, and after a success nothing more is said (`SuccessKnown`).

`RoutingGroupsProofs` proves, for any accounts, custom groups, threads and numbers of
operations (from `RoutingGroupsAssumption`: ids of a provider have different
numbers, custom groups are not default groups, the initial rows have modes):

| theorem | property |
|---|---|
| `GroupsTypeCorrect` | `Spec => []TypeOK` |
| `ManualMembers` | `Spec => []ManualIsMember` |
| `References` | `Spec => []ReferencesExist` |
| `AutomaticCapable` | `Spec => []AutomaticIsCapable` |
| `SyncsHeal` | `Spec => SyncHeals` |
| `SyncsKeepChoices` | `Spec => SyncKeepsChoices` |

* **Manual choices.** `ManualOK` adds that every group about to be saved obeys the
  rule, because `persist` and the first test of `saveGroup` ensured it; deleting
  an account takes choice and membership together (`WithoutManual`).
* **Operations that do not overlap.** `SerialOK` says that as long as `serial` holds one
  thread at most is at work, that the groups fit the accounts (`Fits`), and what the
  thread at work holds (`HeldOK`): the group it saves fits, except for the members it
  has not checked (`FitsSoFar`); the accounts it listed are those there are; the row it
  writes back has the stored mode. `OneMoves` leaves only the thread that moves
  to look at.
* **Syncs.** `SyncOK` says that, while nobody else has written, the accounts it
  listed are those there are, the groups already saved are what they call for, and the
  next one is rebuilt from the stored one. `Elsewhere` says that a step of another thread
  that writes clears `alone`.

`AccountStorageProofs` proves, for any finite set of accounts and of two or more threads,
every installation, and however many steps fail, processes end and outages there are
(`AccountStorageAssumption`: besides the kinds of the constants, that the members of an
installation's group have rows):

| theorem | property |
|---|---|
| `TypeCorrect` | `Spec => []TypeOK` |
| `ExitKeeps` | `Spec => ExitKeepsWrites` |
| `SavesWhole` | `Spec => []SavesAreWhole` |
| `HistoryFiled` | `Spec => []QuotaFiled` |
| `LogStaysBounded` | `Spec => []LogBounded` |
| `SecretsFound` | `Spec => []SecretsCurrent` |
| `RemovedWhole` | `Spec => []NothingLeftBehind` |
| `ProfilesStand` | `Spec => ProfilesKept` |

* **Scripts.** What an operation does is in the sequence of its steps, so the invariant is
  one about sequences: `Adjacent` says which step may follow which, `Sound` that every
  two neighbours of a script do. It holds of every script that starts and of each
  tail (`ScriptsOK`). Everything below reads off the first step of a script what the
  operation has done before it.
* **Transactions.** A thread is inside a transaction exactly when the connection has its
  transaction open (`Transactions`); without one the tables are those of the disk. That the
  failing step of a transaction goes to its `ROLLBACK` and a refused `BEGIN` does not is
  all it needs.
* **Saves.** `GroupOK`: in the open transaction the group of the tables is what the
  owner has made of the saved one so far, whichever statements of others joined. It
  holds because every statement that writes the group stands in a transaction.
* **History.** `QuotaOK` keeps the relation of windows to snapshots for the tables and for the
  disk, and says what an open transaction has done to it (`FiledFor`): windows go before
  snapshots, and come after them.
* **The log.** `LogOK` adds the bound on the disk while a transaction is open, since a
  `ROLLBACK` brings back what other threads have pruned meanwhile: each failure excuses one entry
  of every *other* thread. The proof made the bound of `LogBounded` as exact as that.
* **Secrets.** `SecretsOK` relates a put or an erase that is half done to what the service and
  the file hold (`FinishOK`). It speaks of references that no two threads work on at
  once; `Alone` says that those two threads are remembered in `past.crossed`. Nothing
  is assumed of the local API's reference, which may be an account's.
* **Removals.** `RowsOK`: an account that a thread is yet to write about has a row;
  `RecordsOK`: without a row nothing is recorded, in the tables and on the disk; `ErasedOK`:
  nor is a secret kept, already when the row is about to be deleted. The proof attempt
  showed that a row which had joined another thread's transaction and was rolled
  back breaks all three: that is `past.undone`, and happens in the installation `Additions`.
* **Profiles.** `ProfilesOK`: an account whose directory a thread is about to remove has no
  row, in the tables or, for orphans, on the disk either; a row that appears later is
  remembered for that thread in `past.late`.

`RoutingPolicyProofs` holds the facts on the policy operators that the others rest on:
deleting a member leaves a list without repetition, `FailurePolicy` maps rows to
rows, a decision is a selectable candidate, keys are totally ordered and finitely many of
them have a least one, and how far the round-robin scan goes to each member.

Model-checked only: liveness, because temporal reasoning under fairness (`ENABLED`) is out
of the prover's reach. That is `EveryRequestAnswered`, `NoStarvation`, `StreamCloses`,
`SessionEnds`, `RepairHeals` and `ConnectionFreed`. The properties that are violated are
refuted by TLC.

## 5. Plan

Written: the core (`CompletionRouter`), selection over a long run (`RoutingSelection`),
streams (`StreamRelay`), codex sessions (`CodexSession` over `ChildProcess`), groups
(`RoutingGroups`), storage (`AccountStorage` over `SharedConnection` and
`CredentialStore`), and the theorems on the safety properties of all of them. Left:

1. What the liveness properties rest on and can be proved: that a half-done operation
   always has a step it may take, and measures that its steps bring down.
2. An abstract specification of a buffered completion, as `StreamContract` is of a stream, with
   the refinement by `RouterHistory`.
3. That the steps of `AccountStorage` implement the single steps of `RoutingGroups` where
   nobody else is in a transaction.

## 6. Not modelled

Terminal screens, the admin web page, desktop profiles, the discovery and
installation of vendors' command-line tools, and the build: they format, start programs
or move files and share no state the properties speak of. `LocalApiServer::start` sets
`running_` and lets httplib's thread listen; whether a `stop` that comes before that thread
accepts is lost is decided inside httplib, which is not part of the repository. The
Windows branches (DPAPI, pipes of `DuplexProcess`) and the parsing and formatting of
JSON are left out.
