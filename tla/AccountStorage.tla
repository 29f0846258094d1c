----------------------------- MODULE AccountStorage -----------------------------
(***************************************************************************)
(* What an account owns is kept in three places: rows of the database,     *)
(* secrets of the CredentialStore and a directory of its runtime.  The     *)
(* operations on accounts, the groups and the request log change them one  *)
(* step after the other, in the thread of the terminal UI and in those of  *)
(* the Web Admin and the local API.  This module composes them over one    *)
(* SharedConnection and one CredentialStore, with statements that fail, a  *)
(* Secret Service that comes and goes, and a process that may end between  *)
(* any two steps.                                                          *)
(*                                                                         *)
(* An operation is a script: the steps it still has to take.  A step that  *)
(* throws ends the operation; in its own transaction it is followed by the *)
(* ROLLBACK of the handler.                                                *)
(*                                                                         *)
(* Abstractions.  Of a row of accounts it is kept whether it refers to a   *)
(* secret.  There is one group, a custom one, which syncDefaultGroups      *)
(* leaves alone; its position in the rotation belongs to RoutingSelection. *)
(* A quota snapshot has one window, and the two statements of a retention  *)
(* are one.  What the providers do between the steps takes time and is     *)
(* not modelled.  A directory is removed whole or not at all.              *)
(***************************************************************************)
EXTENDS SharedConnection, CredentialStore, Sequences, FiniteSets

CONSTANTS
  AccountId,   \* the ids accounts may get
  Codex,       \* those of Codex, which have a runtime, no API key and are
               \* not for automatic routing
  Thread,      \* the threads that run operations
  Main,        \* the one that constructs LocalApiServer
  MaxRows,     \* kDefaultRequestLogMaxRows
  Setups       \* the installations that are checked, see IsSetup

\* The references are named after the accounts, but for that of the local API's
\* own key: it is the one an account "router-local" has, which nextAccountId does
\* not give to anyone and an import may bring.
LocalApi == "router-local"
NoOne    == "no one"     \* the empty manual account
Row      == {"unkeyed", "keyed"}
NoRow    == "none"
Strategy == {"manual", "automatic"}
Group    == [strategy : Strategy, manual : AccountId \cup {NoOne}, members : SUBSET AccountId]

Tables ==
  [accounts : [AccountId -> Row \cup {NoRow}], group : Group,
   snapshots : SUBSET [id : Nat, account : AccountId],
   windows : SUBSET [snapshot : Nat, of : AccountId],
   numbered : Nat,    \* the last id of quota_snapshots
   logs : Nat,        \* how many rows request_logs has
   logged : Nat]      \* the last id of request_logs

OnAccount == {"remove", "configure", "login", "quota", "edit"}
Job == [op : OnAccount \cup {"add"}, id : AccountId]
         \cup [op : {"record", "prune", "clear", "clean", "rotate"}]
         \cup {j \in [op : {"save"}, strategy : Strategy, manual : AccountId \cup {NoOne},
                       members : Seq(AccountId)] :
                 j.manual = NoOne \/ \E i \in DOMAIN j.members : j.members[i] = j.manual}

\* An installation: its rows, the group of some of them, the accounts that have
\* a directory, where the secrets are kept, the jobs each thread may run and how
\* many of them, the last id of the log, how many entries may expire at once, and
\* how many steps fail, how often the process ends, and how often the Secret
\* Service comes or goes.
IsSetup(s) ==
  /\ s.rows \in [AccountId -> Row \cup {NoRow}]
  /\ s.group \in Group
  /\ \A a \in s.group.members \cup ({s.group.manual} \ {NoOne}) : s.rows[a] # NoRow
  /\ s.profiles \subseteq Codex
  /\ s.bus \in BOOLEAN
  /\ s.jobs \in [Thread -> SUBSET Job]
  /\ s.most \in [Thread -> Nat]
  /\ s.logged \in Nat
  /\ s.expired \subseteq Nat
  /\ s.faults \in Nat /\ s.ends \in Nat /\ s.outages \in Nat

ASSUME AccountStorageAssumption ==
  /\ NoOne \notin AccountId
  /\ Codex \subseteq AccountId /\ IsFiniteSet(AccountId)
  /\ Ref = AccountId \cup {LocalApi}
  /\ Nobody \notin Thread /\ IsFiniteSet(Thread)
  /\ Main \in Thread /\ Thread # {Main}
  /\ MaxRows \in Nat \ {0}
  /\ \A s \in Setups : IsSetup(s)

VARIABLES
  setup,    \* the installation, which does not change
  script,   \* script[t], the steps of the operation of t that are to come
  process,  \* it is "up", "stopping" since the UI was left, or "down"
  done,     \* done[t], how many jobs t has begun
  used,     \* the faults, ends of the process and outages so far
  dirs,     \* dirs[a]: the directory of a holds a "profile", is "empty", or "none"
  past      \* what the properties remember

(* past.crossed: the accounts and references two operations were on at the same time.
   past.possible[r]: what may be found under r: what the last operation that
     ended left, and what one that has not ended may leave.
   past.missed: the references with an entry in the Secret Service that an
     operation could not reach.
   past.adrift: the accounts that were removed by a row that did not refer to
     the secret that was stored.
   past.late: a thread and an account whose directory the operation of that
     thread clears, though the row of the account has appeared, or its deletion
     by another thread has turned out not to be committed, since it looked.
   past.mingled: the accounts whose windows were given the id of a row that
     another thread inserted.
   past.undone: the accounts whose row had joined a transaction of another
     thread that was not committed.
   past.saved: the group as committed operations leave it.                   *)

progress == <<setup, process, done, used>>
vars == <<connection, store, progress, script, dirs, past>>

-----------------------------------------------------------------------------
(* The operations as scripts.                                              *)

Do(op, id) == [op |-> op, id |-> id]

Update(a, row) == [op |-> "update", id |-> a, row |-> row]

CommitOf(op, a) == [op |-> "commit", id |-> a, for |-> op]

\* Slip: the snapshots are deleted before the windows that refer to them.
deleteAccount_WindowsLast(a) ==
  << Do("begin", a), Do("leave", a), Do("unpin", a), Do("dropSnapshots", a),
     Do("dropWindows", a), Do("dropRow", a), CommitOf("remove", a) >>

deleteAccount(a) ==
  << Do("begin", a), Do("leave", a), Do("unpin", a), Do("dropWindows", a),
     Do("dropSnapshots", a), Do("dropRow", a), CommitOf("remove", a) >>

recordQuotaSnapshot(a) ==
  << Do("begin", a), Do("snapshot", a), Do("rowid", a), Do("window", a),
     CommitOf("quota", a) >>

IdsOf(members) == {members[i] : i \in DOMAIN members}

saveRoutingGroup(strategy, manual, members) ==
  << Do("begin", NoOne),
     [op |-> "group", id |-> NoOne, strategy |-> strategy, manual |-> manual],
     Do("dropMembers", NoOne) >>
  \o [i \in DOMAIN members |-> Do("member", members[i])]
  \o << [op |-> "commit", id |-> NoOne, for |-> "save",
         group |-> [strategy |-> strategy, manual |-> manual, members |-> IdsOf(members)]] >>

\* RoutingManager::saveGroup looks the members of an automatic group up first.
saveGroup(strategy, manual, members) ==
  (IF strategy = "automatic" THEN [i \in DOMAIN members |-> Do("check", members[i])] ELSE <<>>)
  \o saveRoutingGroup(strategy, manual, members)

\* The editor, or an import, names members among the accounts it has listed.
EditMembers(job) ==
  << [op |-> "choose", id |-> NoOne, members |-> IdsOf(job.members)] >>
  \o saveGroup(job.strategy, job.manual, job.members)

put(ref, secret) == << [op |-> "store", id |-> ref, secret |-> secret] >>

erase(ref) == << Do("forget", ref), Do("remove", ref) >>

\* Slip: removeAccount removes the directory before the row.
removeAccount_HomeFirst(a, row) ==
  (IF row = "keyed" THEN erase(a) ELSE <<>>)
  \o (IF a \in Codex THEN << Do("removeHome", a) >> ELSE <<>>)
  \o deleteAccount(a)

\* Slip: the secret is erased when the row is gone.
removeAccount_EraseLast(a, row) ==
  deleteAccount(a)
  \o (IF a \in Codex THEN << Do("removeHome", a) >> ELSE <<>>)
  \o (IF row = "keyed" THEN erase(a) ELSE <<>>)

\* What removeAccount does when it has found the row.
removeAccount(a, row) ==
  (IF row = "keyed" THEN erase(a) ELSE <<>>)
  \o deleteAccount(a)
  \o (IF a \in Codex THEN << Do("removeHome", a) >> ELSE <<>>)

\* A secret that is not under ref yet.
Fresh(ref) ==
  LET known == past.possible[ref] \cup {service[ref], files[ref]}
  IN  CHOOSE n \in 1 .. Cardinality(known) + 1 : n \notin known

\* configureZaiApiKey, and configureAntigravityApiKey with a key that is valid.
configureApiKey(a) == put(a, Fresh(a)) \o << Update(a, "keyed") >>

loginAccount(a, row) == << Do("createHome", a), Update(a, row) >>

readQuota(a, row) == recordQuotaSnapshot(a) \o << Update(a, row) >>

\* A new status in the row that was read; setAccountEnabled and
\* setAccountPriority are no different here.
refreshAccountStatus(a, row) == << Update(a, row) >>

\* What an operation does when it has found the row of its account.
Rest(op, a, row) ==
  CASE op = "remove"    -> removeAccount(a, row)
    [] op = "configure" -> configureApiKey(a)
    [] op = "login"     -> loginAccount(a, row)
    [] op = "quota"     -> readQuota(a, row)
    [] op = "edit"      -> refreshAccountStatus(a, row)

\* Slip: the log is pruned before the entry is inserted.
recordRequestLog_PrunesFirst == << Do("prune", NoOne), Do("log", NoOne) >>

recordRequestLog == << Do("log", NoOne), Do("prune", NoOne) >>

Script(job) ==
  CASE job.op \in OnAccount -> << [op |-> "find", id |-> job.id, for |-> job.op] >>
    [] job.op = "add"       -> << Do("nextId", job.id) >>
    [] job.op = "record"    -> recordRequestLog
    [] job.op = "prune"     -> << Do("prune", NoOne) >>
    [] job.op = "clear"     -> << Do("clear", NoOne) >>
    [] job.op = "clean"     -> << Do("list", NoOne) >>
    [] job.op = "rotate"    -> put(LocalApi, Fresh(LocalApi))
    [] job.op = "save"      -> EditMembers(job)

-----------------------------------------------------------------------------
(* Threads and their steps.                                                *)

StepsOf(t) == {script[t][i] : i \in DOMAIN script[t]}

\* The accounts and references the thread has still to do with.
About(t) == {s.id : s \in StepsOf(t)}

Idle(t) == script[t] = <<>>

\* The next step of t, which is an op.
At(t, op) == process # "down" /\ ~ Idle(t) /\ Head(script[t]).op = op
Step(t)   == Head(script[t])

Continue(t, rest) == script' = [script EXCEPT ![t] = rest]
Advance(t)        == Continue(t, Tail(script[t]))

\* t removes the directory of a, or will when it finds no row of it.
Clears(t, a) ==
  \E s \in StepsOf(t) :
    \/ s.op \in {"removeHome", "removeTree"} /\ s.id = a
    \/ s.op = "scan" /\ a \notin s.known

\* The threads other than t that clear the directory of an account whose row
\* appears between two tables.
Appearing(t, old, new) ==
  {p \in (Thread \ {t}) \X AccountId :
     /\ old.accounts[p[2]] = NoRow /\ new.accounts[p[2]] # NoRow
     /\ Clears(p[1], p[2])}

\* The rows that are not on the disk when a transaction is undone.
Undone == {a \in AccountId : tables.accounts[a] # NoRow /\ disk.accounts[a] = NoRow}

Start(t) ==
  /\ process = "up" /\ Idle(t)
  /\ done[t] < setup.most[t]
  /\ \E job \in setup.jobs[t] :
       /\ Continue(t, Script(job))
       /\ past' = [past EXCEPT
            !.crossed = @ \cup (Ref \cap {Script(job)[i].id : i \in DOMAIN Script(job)}
                                     \cap UNION {About(u) : u \in Thread \ {t}}),
            !.late = {p \in @ : p[1] # t}]
  /\ done' = [done EXCEPT ![t] = @ + 1]
  /\ UNCHANGED <<connection, store, dirs, setup, process, used>>

-----------------------------------------------------------------------------
(* Statements of the database.                                             *)

\* A step that runs a statement and nothing else.
Runs(t, new) ==
  /\ Write(new)
  /\ Advance(t)
  /\ UNCHANGED <<store, dirs, progress, past>>

Begin(t) ==
  /\ At(t, "begin")
  /\ BeginImmediate(t)
  /\ Advance(t)
  /\ UNCHANGED <<store, dirs, progress, past>>

\* Slip: BEGIN is inside the try block, so its failure is followed by a ROLLBACK.
BeginRefused_RollsBack(t) ==
  /\ At(t, "begin") /\ InTransaction
  /\ Continue(t, << Do("rollback", Step(t).id) >>)
  /\ UNCHANGED <<connection, store, dirs, progress, past>>

\* BEGIN in the transaction of another thread throws, outside the try block.
BeginRefused(t) ==
  /\ At(t, "begin") /\ InTransaction
  /\ Continue(t, <<>>)
  /\ UNCHANGED <<connection, store, dirs, progress, past>>

\* The group as the COMMIT s of an operation should leave it.
Settled(s, old) ==
  CASE s.for = "save"   -> s.group
    [] s.for = "quota"  -> old
    [] s.for = "remove" -> [old EXCEPT !.manual = IF @ = s.id THEN NoOne ELSE @,
                                       !.members = @ \ {s.id}]

CommitTransaction(t) ==
  /\ At(t, "commit")
  /\ Commit
  /\ past' = [past EXCEPT !.saved = Settled(Step(t), @)]
  /\ Advance(t)
  /\ UNCHANGED <<store, dirs, progress>>

RollbackTransaction(t) ==
  /\ At(t, "rollback")
  /\ Rollback
  /\ past' = [past EXCEPT !.late = @ \cup Appearing(t, tables, tables'),
                          !.undone = @ \cup Undone]
  /\ Advance(t)
  /\ UNCHANGED <<store, dirs, progress>>

\* nextAccountId: the id is given again when no row has it.
NextAccountId(t) ==
  /\ At(t, "nextId")
  /\ Continue(t, IF tables.accounts[Step(t).id] = NoRow
                 THEN << Do("insert", Step(t).id) >> ELSE <<>>)
  /\ UNCHANGED <<connection, store, dirs, progress, past>>

\* insertAccount; an id that was taken meanwhile violates the primary key.
InsertAccount(t) ==
  LET a   == Step(t).id
      new == [tables EXCEPT !.accounts[a] = "unkeyed"]
  IN  /\ At(t, "insert")
      /\ \/ /\ tables.accounts[a] = NoRow
            /\ Insert(new, OtherRow)
            /\ past' = [past EXCEPT !.late = @ \cup Appearing(t, tables, new)]
         \/ /\ tables.accounts[a] # NoRow
            /\ UNCHANGED <<connection, past>>
      /\ Advance(t)
      /\ UNCHANGED <<store, dirs, progress>>

\* findAccount, with which the operations on an account begin.
FindAccount(t) ==
  LET a == Step(t).id
      row == tables.accounts[a]
  IN  /\ At(t, "find")
      /\ Continue(t, IF row = NoRow THEN <<>> ELSE Rest(Step(t).for, a, row))
      /\ past' = [past EXCEPT !.adrift =
           IF Step(t).for = "remove" /\ row = "unkeyed"
              /\ {service[a], files[a]} # {NoSecret}
           THEN @ \cup {a} ELSE @]
      /\ UNCHANGED <<connection, store, dirs, progress>>

UpdateAccount(t) ==
  /\ At(t, "update")
  /\ Runs(t, [tables EXCEPT !.accounts[Step(t).id] =
                IF @ = NoRow THEN NoRow ELSE Step(t).row])

DeleteMemberships(t) ==
  /\ At(t, "leave")
  /\ Runs(t, [tables EXCEPT !.group.members = @ \ {Step(t).id}])

ClearManual(t) ==
  /\ At(t, "unpin")
  /\ Runs(t, [tables EXCEPT !.group.manual = IF @ = Step(t).id THEN NoOne ELSE @])

SnapshotsOf(a) == {s.id : s \in {x \in tables.snapshots : x.account = a}}

DeleteWindows(t) ==
  /\ At(t, "dropWindows")
  /\ Runs(t, [tables EXCEPT !.windows = {w \in @ : w.snapshot \notin SnapshotsOf(Step(t).id)}])

DeleteSnapshots(t) ==
  /\ At(t, "dropSnapshots")
  /\ Runs(t, [tables EXCEPT !.snapshots = {s \in @ : s.account # Step(t).id}])

DeleteRow(t) ==
  /\ At(t, "dropRow")
  /\ Runs(t, [tables EXCEPT !.accounts[Step(t).id] = NoRow])

InsertSnapshot(t) ==
  LET id == tables.numbered + 1
  IN  /\ At(t, "snapshot")
      /\ Insert([tables EXCEPT
                   !.snapshots = @ \cup {[id |-> id, account |-> Step(t).id]},
                   !.numbered = id], id)
      /\ Advance(t)
      /\ UNCHANGED <<store, dirs, progress, past>>

\* sqlite3_last_insert_rowid, which the windows are inserted with.
LastInsertRowid(t) ==
  LET a == Step(t).id
      window == [op |-> "window", id |-> a, snapshot |-> lastRow]
  IN  /\ At(t, "rowid")
      /\ Continue(t, << window >> \o Tail(Tail(script[t])))
      /\ past' = [past EXCEPT !.mingled =
           IF [id |-> lastRow, account |-> a] \in tables.snapshots THEN @ ELSE @ \cup {a}]
      /\ UNCHANGED <<connection, store, dirs, progress>>

InsertWindow(t) ==
  /\ At(t, "window")
  /\ Insert([tables EXCEPT !.windows =
               @ \cup {[snapshot |-> Step(t).snapshot, of |-> Step(t).id]}], OtherRow)
  /\ Advance(t)
  /\ UNCHANGED <<store, dirs, progress, past>>

\* listAccounts of the editor: an account that is not there cannot be named.
ChooseMembers(t) ==
  /\ At(t, "choose")
  /\ Continue(t, IF \E a \in Step(t).members : tables.accounts[a] = NoRow
                 THEN <<>> ELSE Tail(script[t]))
  /\ UNCHANGED <<connection, store, dirs, progress, past>>

\* saveGroup throws when a member has no row or is not automaticRoutingCapable.
CheckMember(t) ==
  LET a == Step(t).id
  IN  /\ At(t, "check")
      /\ Continue(t, IF tables.accounts[a] = NoRow \/ a \in Codex
                     THEN <<>> ELSE Tail(script[t]))
      /\ UNCHANGED <<connection, store, dirs, progress, past>>

UpsertGroup(t) ==
  /\ At(t, "group")
  /\ Runs(t, [tables EXCEPT !.group.strategy = Step(t).strategy,
                            !.group.manual = Step(t).manual])

DeleteMembers(t) ==
  /\ At(t, "dropMembers")
  /\ Runs(t, [tables EXCEPT !.group.members = {}])

InsertMember(t) ==
  /\ At(t, "member")
  /\ Insert([tables EXCEPT !.group.members = @ \cup {Step(t).id}], OtherRow)
  /\ Advance(t)
  /\ UNCHANGED <<store, dirs, progress, past>>

InsertLog(t) ==
  LET id == tables.logged + 1
  IN  /\ At(t, "log")
      /\ Insert([tables EXCEPT !.logs = @ + 1, !.logged = id], id)
      /\ Advance(t)
      /\ UNCHANGED <<store, dirs, progress, past>>

AtMost(n, most) == IF n < most THEN n ELSE most

\* applyRequestLogRetention: by age, and then by count.
PruneLogs(t) ==
  /\ At(t, "prune")
  /\ \E old \in setup.expired :
       Runs(t, [tables EXCEPT !.logs = AtMost(@ - AtMost(old, @), MaxRows)])

ClearLogs(t) ==
  /\ At(t, "clear")
  /\ Runs(t, [tables EXCEPT !.logs = 0])

DatabaseStep(t) ==
  \/ Begin(t) \/ BeginRefused(t) \/ CommitTransaction(t) \/ RollbackTransaction(t)
  \/ NextAccountId(t) \/ InsertAccount(t) \/ FindAccount(t) \/ UpdateAccount(t)
  \/ DeleteMemberships(t) \/ ClearManual(t) \/ DeleteWindows(t) \/ DeleteSnapshots(t)
  \/ DeleteRow(t)
  \/ InsertSnapshot(t) \/ LastInsertRowid(t) \/ InsertWindow(t)
  \/ ChooseMembers(t) \/ CheckMember(t) \/ UpsertGroup(t) \/ DeleteMembers(t) \/ InsertMember(t)
  \/ InsertLog(t) \/ PruneLogs(t) \/ ClearLogs(t)

-----------------------------------------------------------------------------
(* Secrets.                                                                *)

\* Whether an entry of the Secret Service stays behind what is done now.
Missed(ref) ==
  IF ~ reachable /\ service[ref] # NoSecret THEN past.missed \cup {ref}
  ELSE past.missed \ {ref}

\* put asks the Secret Service, and goes on with the file when it is refused.
Store(t) ==
  LET ref == Step(t).id
      secret == Step(t).secret
      file == IF reachable THEN << [op |-> "unfile", id |-> ref, secret |-> secret] >>
              ELSE << Do("truncate", ref), [op |-> "write", id |-> ref, secret |-> secret] >>
  IN  /\ At(t, "store")
      /\ \/ StoreInService(ref, secret)
         \/ ~ reachable /\ UNCHANGED store
      /\ Continue(t, file \o Tail(script[t]))
      /\ past' = [past EXCEPT !.missed = Missed(ref),
                              !.possible[ref] = @ \cup (IF reachable THEN {secret} ELSE {})]
      /\ UNCHANGED <<connection, dirs, progress>>

\* Slip: the file of an earlier put stays.
Unfile_Keeps(t) ==
  /\ At(t, "unfile")
  /\ past' = [past EXCEPT !.possible[Step(t).id] = {Step(t).secret}]
  /\ Advance(t)
  /\ UNCHANGED <<connection, store, dirs, progress>>

\* A secret in the Secret Service replaces the file, and put returns.
Unfile(t) ==
  /\ At(t, "unfile")
  /\ RemoveFile(Step(t).id)
  /\ past' = [past EXCEPT !.possible[Step(t).id] = {Step(t).secret}]
  /\ Advance(t)
  /\ UNCHANGED <<connection, dirs, progress>>

Truncate(t) ==
  /\ At(t, "truncate")
  /\ TruncateFile(Step(t).id)
  /\ past' = [past EXCEPT !.possible[Step(t).id] = @ \cup {Torn}]
  /\ Advance(t)
  /\ UNCHANGED <<connection, dirs, progress>>

WriteSecret(t) ==
  /\ At(t, "write")
  /\ WriteFile(Step(t).id, Step(t).secret)
  /\ past' = [past EXCEPT !.possible[Step(t).id] = {Step(t).secret}]
  /\ Advance(t)
  /\ UNCHANGED <<connection, dirs, progress>>

Forget(t) ==
  /\ At(t, "forget")
  /\ EraseFromService(Step(t).id)
  /\ past' = [past EXCEPT !.missed = Missed(Step(t).id),
                          !.possible[Step(t).id] = @ \cup {NoSecret}]
  /\ Advance(t)
  /\ UNCHANGED <<connection, dirs, progress>>

Remove(t) ==
  /\ At(t, "remove")
  /\ RemoveFile(Step(t).id)
  /\ past' = [past EXCEPT !.possible[Step(t).id] = {NoSecret}]
  /\ Advance(t)
  /\ UNCHANGED <<connection, dirs, progress>>

StoreStep(t) ==
  Store(t) \/ Unfile(t) \/ Truncate(t) \/ WriteSecret(t) \/ Forget(t) \/ Remove(t)

-----------------------------------------------------------------------------
(* Runtime directories.                                                    *)

SetDir(t, content) ==
  /\ dirs' = [dirs EXCEPT ![Step(t).id] = content]
  /\ Advance(t)
  /\ UNCHANGED <<connection, store, progress, past>>

\* CodexCli::login creates codex-home in the directory of the account.
CreateHome(t) == At(t, "createHome") /\ SetDir(t, "profile")

\* removeAccount removes codex-home and leaves the directory around it.
RemoveHome(t) ==
  /\ At(t, "removeHome")
  /\ SetDir(t, IF dirs[Step(t).id] = "none" THEN "none" ELSE "empty")

\* inspect lists the accounts and afterwards the directories.  An account that
\* is being deleted by another thread is not among them.
ListAccounts(t) ==
  LET known == {a \in AccountId : tables.accounts[a] # NoRow}
  IN  /\ At(t, "list")
      /\ Continue(t, << [op |-> "scan", id |-> NoOne, known |-> known] >>)
      /\ past' = [past EXCEPT !.late =
           @ \cup {t} \X {a \in AccountId \ known : disk.accounts[a] # NoRow}]
      /\ UNCHANGED <<connection, store, dirs, progress>>

ListDirectories(t) ==
  LET orphans == {a \in AccountId \ Step(t).known : dirs[a] # "none"}
  IN  /\ At(t, "scan")
      /\ \E order \in [1 .. Cardinality(orphans) -> orphans] :
           /\ \A a \in orphans : \E i \in DOMAIN order : order[i] = a
           /\ Continue(t, [i \in DOMAIN order |-> Do("removeTree", order[i])])
      /\ UNCHANGED <<connection, store, dirs, progress, past>>

RemoveTree(t) == At(t, "removeTree") /\ SetDir(t, "none")

DirectoryStep(t) ==
  CreateHome(t) \/ RemoveHome(t) \/ ListAccounts(t) \/ ListDirectories(t) \/ RemoveTree(t)

-----------------------------------------------------------------------------
(* Failures.                                                               *)

\* The steps that may throw: another process holds the lock of the database,
\* the disk is full, a file cannot be opened or removed.
Fallible ==
  {"begin", "commit", "insert", "update", "leave", "unpin", "dropWindows",
   "dropSnapshots", "dropRow", "snapshot", "window", "group", "dropMembers",
   "member", "log", "prune", "clear", "truncate", "remove"}

Fault ==
  /\ used.faults < setup.faults
  /\ used' = [used EXCEPT !.faults = @ + 1]
  /\ UNCHANGED <<setup, process, done>>

\* Slip: the handler only throws on.
Fails_Forgets(t) ==
  /\ \E op \in Fallible : At(t, op)
  /\ Fault
  /\ Continue(t, <<>>)
  /\ UNCHANGED <<connection, store, dirs, past>>

\* A step throws.  recordRequestLog swallows what its last step throws.
Fails(t) ==
  /\ \E op \in Fallible : At(t, op)
  /\ Fault
  /\ Continue(t, IF owner = t THEN << Do("rollback", Step(t).id) >> ELSE <<>>)
  /\ UNCHANGED <<connection, store, dirs, past>>

\* writeBytes looks at the stream before the stream is flushed: put returns.
FlushFails(t) ==
  /\ At(t, "write")
  /\ Fault
  /\ past' = [past EXCEPT !.possible[Step(t).id] = {Torn}]
  /\ Advance(t)
  /\ UNCHANGED <<connection, store, dirs>>

\* put ignores that the file cannot be removed, and returns.
UnfileFails(t) ==
  LET ref == Step(t).id
  IN  /\ At(t, "unfile") /\ files[ref] # NoSecret
      /\ Fault
      /\ past' = [past EXCEPT !.possible[ref] = {Step(t).secret, files[ref]}]
      /\ Advance(t)
      /\ UNCHANGED <<connection, store, dirs>>

IgnoredFailure(t) == FlushFails(t) \/ UnfileFails(t)

MayEnd == used.crashes + used.exits < setup.ends

\* The process ends between two steps.
Crash ==
  /\ process # "down"
  /\ MayEnd
  /\ used' = [used EXCEPT !.crashes = @ + 1]
  /\ Close
  /\ process' = "down"
  /\ script' = [t \in Thread |-> <<>>]
  /\ past' = [past EXCEPT !.undone = @ \cup Undone]
  /\ UNCHANGED <<store, dirs, setup, done>>

\* The terminal UI is left, with nothing to do in its thread: the server is told
\* to stop, and takes no more requests.
Exit ==
  /\ process = "up" /\ Idle(Main)
  /\ MayEnd
  /\ used' = [used EXCEPT !.exits = @ + 1]
  /\ process' = "stopping"
  /\ UNCHANGED <<connection, store, script, dirs, setup, done, past>>

\* Slip: the listening thread is not joined.
Stop_Detached ==
  /\ process = "stopping"
  /\ Close
  /\ process' = "down"
  /\ script' = [t \in Thread |-> <<>>]
  /\ UNCHANGED <<store, dirs, setup, done, used, past>>

\* The listening thread ends after the handlers; it is joined, and the
\* destructors close the connection.
Stop ==
  /\ process = "stopping" /\ \A t \in Thread : Idle(t)
  /\ Close
  /\ process' = "down"
  /\ UNCHANGED <<store, script, dirs, setup, done, used, past>>

\* The constructor of LocalApiServer creates the key it does not find.  It
\* throws at an empty file, and then the process ends again.
Restart ==
  /\ process = "down"
  /\ Get(LocalApi) # Torn
  /\ process' = "up"
  /\ script' = [script EXCEPT ![Main] =
       IF Get(LocalApi) = NoSecret THEN put(LocalApi, Fresh(LocalApi)) ELSE <<>>]
  /\ UNCHANGED <<connection, store, dirs, setup, done, used, past>>

\* The Secret Service comes or goes.
Outage ==
  /\ used.outages < setup.outages
  /\ used' = [used EXCEPT !.outages = @ + 1]
  /\ Toggle
  /\ UNCHANGED <<connection, script, dirs, setup, process, done, past>>

-----------------------------------------------------------------------------

\* The secret an account, or the local API, has at the start.
Initially(ref) ==
  IF ref = LocalApi \/ setup.rows[ref] = "keyed" THEN 0 ELSE NoSecret

Init ==
  /\ setup \in Setups
  /\ Open([accounts |-> setup.rows, group |-> setup.group, snapshots |-> {},
           windows |-> {}, numbered |-> 0, logs |-> 0, logged |-> setup.logged])
  /\ reachable = setup.bus
  /\ service = [ref \in Ref |-> IF setup.bus THEN Initially(ref) ELSE NoSecret]
  /\ files = [ref \in Ref |-> IF setup.bus THEN NoSecret ELSE Initially(ref)]
  /\ dirs = [a \in AccountId |-> IF a \in setup.profiles THEN "profile" ELSE "none"]
  /\ script = [t \in Thread |-> <<>>]
  /\ process = "up"
  /\ done = [t \in Thread |-> 0]
  /\ used = [faults |-> 0, crashes |-> 0, exits |-> 0, outages |-> 0]
  /\ past = [crossed |-> {}, missed |-> {}, adrift |-> {}, late |-> {}, mingled |-> {},
             undone |-> {}, possible |-> [ref \in Ref |-> {Initially(ref)}], saved |-> setup.group]

Next ==
  \/ \E t \in Thread :
       Start(t) \/ DatabaseStep(t) \/ StoreStep(t) \/ DirectoryStep(t)
         \/ Fails(t) \/ IgnoredFailure(t)
  \/ Crash \/ Exit \/ Stop \/ Restart \/ Outage

Spec == Init /\ [][Next]_vars

\* A thread goes on with the operation it has begun.
Fairness == \A t \in Thread : WF_vars(DatabaseStep(t) \/ StoreStep(t) \/ DirectoryStep(t))

FairSpec == Spec /\ Fairness

-----------------------------------------------------------------------------
(* Properties.                                                             *)

AnyStep ==
  [op : {"begin", "rollback"}, id : AccountId \cup {NoOne}]
    \cup [op : {"leave", "unpin", "dropWindows", "dropSnapshots", "dropRow", "snapshot", "rowid",
               "member", "check", "nextId", "insert", "createHome", "removeHome", "removeTree"},
          id : AccountId]
    \cup [op : {"dropMembers", "log", "prune", "clear", "list"}, id : {NoOne}]
    \cup [op : {"truncate", "forget", "remove"}, id : Ref]
    \cup [op : {"find"}, id : AccountId, for : OnAccount]
    \cup [op : {"update"}, id : AccountId, row : Row]
    \cup [op : {"window"}, id : AccountId]
    \cup [op : {"window"}, id : AccountId, snapshot : Nat]
    \cup [op : {"choose"}, id : {NoOne}, members : SUBSET AccountId]
    \cup [op : {"group"}, id : {NoOne}, strategy : Strategy, manual : AccountId \cup {NoOne}]
    \cup [op : {"commit"}, id : AccountId, for : {"remove", "quota"}]
    \cup [op : {"commit"}, id : {NoOne}, for : {"save"}, group : Group]
    \cup [op : {"store", "unfile", "write"}, id : Ref, secret : Secret]
    \cup [op : {"scan"}, id : {NoOne}, known : SUBSET AccountId]

TypeOK ==
  /\ setup \in Setups
  /\ tables \in Tables /\ disk \in Tables
  /\ owner \in Thread \cup {Nobody}
  /\ lastRow \in Nat
  /\ CredentialStoreTypeOK
  /\ script \in [Thread -> Seq(AnyStep)]
  /\ process \in {"up", "stopping", "down"}
  /\ done \in [Thread -> Nat]
  /\ used \in [faults : Nat, crashes : Nat, exits : Nat, outages : Nat]
  /\ dirs \in [AccountId -> {"profile", "empty", "none"}]
  /\ past \in [crossed : SUBSET Ref, missed : SUBSET Ref,
               adrift : SUBSET AccountId, late : SUBSET (Thread \X AccountId),
               mingled : SUBSET AccountId, undone : SUBSET AccountId,
               possible : [Ref -> SUBSET (Secret \cup {NoSecret, Torn})], saved : Group]

\* What a request had written when the terminal UI is left is on the disk when
\* the process has ended: stop waits for the handlers, and none of them, however
\* it ended, leaves a transaction behind for the destructor to undo.
ExitKeepsWrites ==
  [][process = "stopping" /\ process' = "down" /\ used' = used => disk' = tables]_vars

\* No transaction stays open for ever, whoever fails in it: every operation of
\* the program needs the connection (BEGIN in the open transaction of another
\* thread throws).
ConnectionFreed == []<>(~ InTransaction)

\* What is on the disk of the group is what the saves and removals that were
\* committed make of it: no crash, no failed statement, no refused BEGIN and no
\* statement of another thread leaves half a saveRoutingGroup or deleteAccount.
SavesAreWhole == disk.group = past.saved

\* Every window of the quota history belongs to a snapshot of the account it was
\* measured for, whatever was removed, rolled back or lost in a crash
\* (FOREIGN KEY of quota_windows, which nothing enforces); unless another thread
\* inserted a row between the INSERT of the snapshot and last_insert_rowid.
QuotaFiled ==
  \A w \in disk.windows :
    w.of \notin past.mingled => [id |-> w.snapshot, account |-> w.of] \in disk.snapshots

\* What is left of an account on the disk and in the store.
Recorded(a) ==
  \/ \E s \in disk.snapshots : s.account = a
  \/ \E w \in disk.windows : w.of = a
  \/ a \in disk.group.members
  \/ a = disk.group.manual

SecretKept(a) == service[a] # NoSecret \/ files[a] # NoSecret

\* The account has no row, and no transaction is about to change that.
Gone(a) == disk.accounts[a] = NoRow /\ ~ InTransaction

\* Removing an account leaves no history, no membership and no secret of it
\* behind, even when steps fail or the process ends in between: removeAccount
\* takes the secret first and the row last.  Not promised where operations on
\* the account overlap, for a row that another thread's transaction undid, for a
\* secret no row refers to yet, for an entry in a Secret Service that is away, and
\* for the local API's key, which an account of that name shares.
NothingLeftBehind ==
  \A a \in AccountId \ (past.crossed \cup past.undone) :
    Gone(a) =>
      /\ a \notin past.mingled => ~ Recorded(a)
      /\ a \notin past.adrift \cup past.missed \cup {LocalApi} => ~ SecretKept(a)

\* "Permanent remove deletes local account metadata, quota history, routing
\* memberships, local credential reference, and isolated runtime profile"
\* (README.md, Account Overview).
RemoveIsComplete ==
  process = "up" /\ (\A t \in Thread : Idle(t)) =>
    \A a \in AccountId : Gone(a) => ~ Recorded(a) /\ ~ SecretKept(a)

\* get finds what the last put that returned has stored, or, when put could not
\* remove the file of an earlier one, the older secret in it; and nothing after an
\* erase; while a put or an erase is under way or was cut off, what it replaces,
\* what it stores or an empty file.  Not promised for a reference whose entry in
\* the Secret Service could not be reached by put or erase.
SecretsCurrent ==
  \A ref \in Ref \ (past.crossed \cup past.missed) :
    \/ Get(ref) \in past.possible[ref]
    \/ Get(ref) = NoSecret /\ InService(ref) # service[ref]

\* The runtime profile of an account with a row is never removed, by a removal
\* that fails or by a cleanup of orphans, unless the operation that removes it
\* looked for the row before it appeared, or while another thread was deleting it.
ProfilesKept ==
  [][\A a \in AccountId :
       dirs[a] = "profile" /\ dirs'[a] # "profile" /\ disk.accounts[a] # NoRow
         => \E t \in Thread : script'[t] # script[t] /\ <<t, a>> \in past.late]_vars

\* "Runtime cleanup removes only direct orphan children of .routerai/accounts; it
\* does not touch active account runtime paths" (CHANGELOG.md, 0.7.1): the whole
\* directory of an account that has a row, and a profile in it, is never removed.
CleanupSparesActive ==
  [][\A a \in AccountId :
       dirs[a] = "profile" /\ dirs'[a] = "none"
         => NoRow \in {tables.accounts[a], disk.accounts[a]}]_vars

\* The request log stays within its limit but for the entries that are being
\* recorded, one of every other thread for each failure, whose ROLLBACK may undo
\* what they pruned, and those being recorded when the process ends: retention,
\* which recordRequestLog does not insist on, is made up for by the next entry.
LogBounded ==
  LET recording == {t \in Thread : \E s \in StepsOf(t) : s.op = "prune"}
      threads   == Cardinality(Thread)
  IN  tables.logs <= MaxRows + Cardinality(recording) + (threads - 1) * used.faults
                     + threads * used.crashes

=============================================================================
