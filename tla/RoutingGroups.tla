---------------------------- MODULE RoutingGroups ----------------------------
(***************************************************************************)
(* The routing groups and the accounts they name, changed by the terminal  *)
(* UI and by the handlers of the Web Admin, which run in other threads.    *)
(* Five default groups follow the accounts: syncDefaultGroups rebuilds     *)
(* them after every operation.  Custom groups hold what the editor saved.  *)
(* Nothing but the code keeps the two tables consistent: the foreign keys  *)
(* of routing_group_members are declared but not enforced.                 *)
(*                                                                         *)
(* Every call on the database is one step, so a thread may write what it   *)
(* read before another thread's write.                                     *)
(*                                                                         *)
(* Abstractions.  The members of a group are a set: their order and the    *)
(* round-robin cursor belong to RoutingSelection.  Of a row of accounts    *)
(* the provider mode is kept.  Transactions are atomic and statements do   *)
(* not fail, except an INSERT of an id that is taken.  listRoutingGroups   *)
(* is one read.  saveGroup checks the members in any order, and repair     *)
(* and import visit groups and accounts in any order.                      *)
(***************************************************************************)
EXTENDS Naturals

CONSTANTS
  AccountId,        \* the ids accounts may get
  Provider,         \* Provider[a], the provider whose prefix id a has
  Number,           \* Number[a], the number at the end of id a
  CustomId,         \* ids the operator may give to custom groups
  Thread,           \* the threads that run operations
  Terminal,         \* those of them that run the terminal UI
  OfferedStrategies,  \* the strategies the operator and imported files use
  InitialAccounts,  \* what the accounts table may hold at the start
  NoOne,            \* the empty manual account
  NoGroup,          \* what findRoutingGroup returns when there is no such row
  MaxOps            \* bound on each thread's operations and imported items

NoAccount == "none"
ModesOf == [codex       |-> {"subscription-runtime"},
            antigravity |-> {"consumer-cli", "api-project"},
            zai         |-> {"general-api", "coding-plan"}]
Mode    == UNION {ModesOf[p] : p \in DOMAIN ModesOf}

\* The modes that take an API key, and the rows for which configuring one of
\* that mode is allowed: those of Z.ai take over the mode.
WithKey == {"general-api", "coding-plan", "api-project"}
KeyedLike(mode) == IF mode = "api-project" THEN {mode} ELSE ModesOf["zai"]

\* automaticRoutingCapable
CapableModes == {"general-api", "api-project"}

Strategy == {"HEALTH_FIRST", "LEAST_USED", "PRIORITY", "ROUND_ROBIN", "MANUAL"}

\* The default groups in the order in which syncDefaultGroups saves them,
\* and the accounts each of them collects.
DefaultOrder == <<"codex-default", "antigravity-default",
                  "antigravity-api-default", "zai-default", "mixed-default">>
DefaultId    == {DefaultOrder[i] : i \in 1 .. 5}
FixedManual  == {"codex-default", "antigravity-default"}
ModesIn(g)   == CASE g = "codex-default"           -> ModesOf["codex"]
                  [] g = "antigravity-default"     -> {"consumer-cli"}
                  [] g = "antigravity-api-default" -> {"api-project"}
                  [] g = "zai-default"             -> {"general-api"}
                  [] g = "mixed-default"           -> {"api-project", "general-api"}

GroupId == DefaultId \cup CustomId
Group   == [strategy : Strategy, enabled : BOOLEAN,
            manual : AccountId \cup {NoOne}, members : SUBSET AccountId]

ASSUME RoutingGroupsAssumption ==
  /\ Provider \in [AccountId -> DOMAIN ModesOf]
  /\ Number \in [AccountId -> Nat \ {0}]
  /\ \A a, b \in AccountId : Provider[a] = Provider[b] /\ Number[a] = Number[b] => a = b
  /\ CustomId \cap DefaultId = {}
  /\ Terminal \subseteq Thread
  /\ OfferedStrategies \subseteq Strategy
  /\ InitialAccounts \subseteq [AccountId -> Mode \cup {NoAccount}]
  /\ NoOne \notin AccountId
  /\ NoGroup \notin Group
  /\ MaxOps \in [Thread -> Nat]

VARIABLES
  accounts,  \* the accounts table: the mode of every row, or NoAccount
  groups,    \* the groups table and their members: a group, or NoGroup
  pc,        \* what each thread does next
  known,     \* the accounts table as the thread last listed it
  draft,     \* the group the thread is about to save
  target,    \* the id of that group
  todo,      \* the members saveGroup has still to check
  row,       \* the account the thread is about to write or to delete
  next,      \* which default group the thread rebuilds
  copies,    \* the groups the repair has read and not visited
  then,      \* where the thread goes on after a sync or a save
  alone,     \* nobody else has written since the thread listed the accounts
  serial,    \* no operation has begun while another was running
  ops        \* each thread's operations and imported items so far

vars == <<accounts, groups, pc, known, draft, target, todo, row, next,
          copies, then, alone, serial, ops>>
tables == <<accounts, groups>>
local  == <<known, draft, target, todo, row, next, copies>>

Present(table)  == {a \in AccountId : table[a] # NoAccount}
Named(group)    == group.members \cup ({group.manual} \ {NoOne})
ManualSound(group) == group.manual = NoOne \/ group.manual \in group.members

-----------------------------------------------------------------------------
(* The five groups syncDefaultGroups rebuilds.                              *)

FreshGroup(strategy) ==
  [strategy |-> strategy, enabled |-> TRUE, manual |-> NoOne, members |-> {}]

\* Slip: persist only adds members.
Rebuilt_KeepsMembers(g, old, table) ==
  LET kept     == IF old = NoGroup THEN FreshGroup("HEALTH_FIRST") ELSE old
      strategy == IF g \in FixedManual THEN "MANUAL" ELSE kept.strategy
      members  == kept.members \cup {a \in AccountId : table[a] \in ModesIn(g)}
  IN  [strategy |-> strategy, enabled |-> kept.enabled, members |-> members,
       manual |-> IF strategy = "MANUAL" /\ kept.manual \notin members
                    THEN NoOne ELSE kept.manual]

\* Slip: persist does not take over the switch.
Rebuilt_Enables(g, old, table) ==
  LET kept     == IF old = NoGroup THEN FreshGroup("HEALTH_FIRST") ELSE old
      strategy == IF g \in FixedManual THEN "MANUAL" ELSE kept.strategy
      members  == {a \in AccountId : table[a] \in ModesIn(g)}
  IN  [strategy |-> strategy, enabled |-> TRUE, members |-> members,
       manual |-> IF strategy = "MANUAL" /\ kept.manual \notin members
                    THEN NoOne ELSE kept.manual]

\* Group g as persist saves it, old being the stored one: membership comes
\* from the accounts; strategy, switch and manual choice are the stored
\* ones, unless g is always manual or its choice is no longer a member.
Rebuilt(g, old, table) ==
  LET kept     == IF old = NoGroup THEN FreshGroup("HEALTH_FIRST") ELSE old
      strategy == IF g \in FixedManual THEN "MANUAL" ELSE kept.strategy
      members  == {a \in AccountId : table[a] \in ModesIn(g)}
  IN  [strategy |-> strategy, enabled |-> kept.enabled, members |-> members,
       manual |-> IF strategy = "MANUAL" /\ kept.manual \notin members
                    THEN NoOne ELSE kept.manual]

\* main runs syncDefaultGroups before it starts the other threads.
Init ==
  /\ accounts \in InitialAccounts
  /\ groups = [g \in GroupId |-> IF g \in DefaultId
                                   THEN Rebuilt(g, NoGroup, accounts) ELSE NoGroup]
  /\ pc = [t \in Thread |-> "idle"]
  /\ known = [t \in Thread |-> accounts]
  /\ draft = [t \in Thread |-> NoGroup]
  /\ target = [t \in Thread |-> DefaultOrder[1]]
  /\ todo = [t \in Thread |-> {}]
  /\ row = [t \in Thread |-> [id |-> NoOne, mode |-> NoAccount]]
  /\ next = [t \in Thread |-> 1]
  /\ copies = [t \in Thread |-> [g \in GroupId |-> NoGroup]]
  /\ then = [t \in Thread |-> "idle"]
  /\ alone = [t \in Thread |-> FALSE]
  /\ serial = TRUE
  /\ ops = [t \in Thread |-> 0]

Goto(t, place) == pc' = [pc EXCEPT ![t] = place]

\* An exception ends the operation.
Throw(t) == Goto(t, "idle")

\* An operation, or an item of an imported file, within the bound.
Count(t) == ops[t] < MaxOps[t] /\ ops' = [ops EXCEPT ![t] = @ + 1]

Begin(t) ==
  /\ pc[t] = "idle"
  /\ Count(t)
  /\ serial' = (serial /\ \A u \in Thread : pc[u] = "idle")

\* t writes: what the others have read may be out of date.
Disturb(t) == alone' = [u \in Thread |-> u = t /\ alone[t]]

\* t lists the accounts.
ListAccounts(t) ==
  /\ known' = [known EXCEPT ![t] = accounts]
  /\ alone' = [alone EXCEPT ![t] = TRUE]

-----------------------------------------------------------------------------
(* syncDefaultGroups, after which the thread goes on at place.              *)

SyncThen(t, place) == Goto(t, "list") /\ then' = [then EXCEPT ![t] = place]

List(t) ==
  /\ pc[t] = "list"
  /\ ListAccounts(t)
  /\ next' = [next EXCEPT ![t] = 1]
  /\ Goto(t, "find")
  /\ UNCHANGED <<tables, draft, target, todo, row, copies, then, serial, ops>>

FindDefault(t) ==
  /\ pc[t] = "find"
  /\ LET g == DefaultOrder[next[t]]
     IN  /\ target' = [target EXCEPT ![t] = g]
         /\ draft' = [draft EXCEPT ![t] = Rebuilt(g, groups[g], known[t])]
  /\ Goto(t, "save")
  /\ UNCHANGED <<tables, known, todo, row, next, copies, then, alone, serial, ops>>

\* Slip: one group too many.
SaveDefault_PastEnd(t) ==
  /\ pc[t] = "save"
  /\ groups' = [groups EXCEPT ![target[t]] = draft[t]]
  /\ IF next[t] <= 5
       THEN next' = [next EXCEPT ![t] = @ + 1] /\ Goto(t, "find")
       ELSE UNCHANGED next /\ Goto(t, then[t])
  /\ Disturb(t)
  /\ UNCHANGED <<accounts, known, draft, target, todo, row, copies, then, serial, ops>>

SaveDefault(t) ==
  /\ pc[t] = "save"
  /\ groups' = [groups EXCEPT ![target[t]] = draft[t]]
  /\ IF next[t] < 5
       THEN next' = [next EXCEPT ![t] = @ + 1] /\ Goto(t, "find")
       ELSE UNCHANGED next /\ Goto(t, then[t])
  /\ Disturb(t)
  /\ UNCHANGED <<accounts, known, draft, target, todo, row, copies, then, serial, ops>>

-----------------------------------------------------------------------------
(* saveGroup, after which the thread goes on at place.                      *)

Save(t, g, group, place) ==
  /\ target' = [target EXCEPT ![t] = g]
  /\ draft' = [draft EXCEPT ![t] = group]
  /\ todo' = [todo EXCEPT ![t] = IF group.strategy = "MANUAL" THEN {} ELSE group.members]
  /\ then' = [then EXCEPT ![t] = place]
  /\ IF ManualSound(group) THEN Goto(t, "check") ELSE Throw(t)

\* Slip: only that the account exists is checked.
CheckMember_AnyMode(t) ==
  /\ pc[t] = "check"
  /\ \E a \in todo[t] :
       /\ todo' = [todo EXCEPT ![t] = @ \ {a}]
       /\ IF accounts[a] # NoAccount THEN UNCHANGED pc ELSE Throw(t)
  /\ UNCHANGED <<tables, known, draft, target, row, next, copies, then, alone, serial, ops>>

CheckMember(t) ==
  /\ pc[t] = "check"
  /\ \E a \in todo[t] :
       /\ todo' = [todo EXCEPT ![t] = @ \ {a}]
       /\ IF accounts[a] \in CapableModes THEN UNCHANGED pc ELSE Throw(t)
  /\ UNCHANGED <<tables, known, draft, target, row, next, copies, then, alone, serial, ops>>

WriteGroup(t) ==
  /\ pc[t] = "check"
  /\ todo[t] = {}
  /\ groups' = [groups EXCEPT ![target[t]] = draft[t]]
  /\ Goto(t, then[t])
  /\ Disturb(t)
  /\ UNCHANGED <<accounts, local, then, serial, ops>>

-----------------------------------------------------------------------------
(* Operations on accounts; each is followed by a sync.                      *)

\* The screens that only show the groups, the refreshes, and an
\* addAntigravityAccount that returns the consumer session there is.
Refresh(t) ==
  /\ Begin(t)
  /\ SyncThen(t, "idle")
  /\ UNCHANGED <<tables, local, alone>>

\* nextAccountId: one more than the highest number of the provider.
NextAccountId(a, table) ==
  LET taken == {b \in Present(table) : Provider[b] = Provider[a]}
  IN  /\ \A b \in taken : Number[b] < Number[a]
      /\ Number[a] = 1 \/ \E b \in taken : Number[b] + 1 = Number[a]

\* addAntigravityAccount looks for a consumer session first.
BeginAdd(t) ==
  /\ Begin(t)
  /\ \E mode \in Mode :
       /\ mode = "consumer-cli" => \A a \in AccountId : accounts[a] # mode
       /\ row' = [row EXCEPT ![t] = [id |-> NoOne, mode |-> mode]]
  /\ Goto(t, "number")
  /\ UNCHANGED <<tables, known, draft, target, todo, next, copies, then, alone>>

\* A thread that runs out of AccountId, a bound, adds nothing.
NumberAccount(t) ==
  /\ pc[t] = "number"
  /\ LET ids == {a \in AccountId : /\ row[t].mode \in ModesOf[Provider[a]]
                                   /\ NextAccountId(a, accounts)}
     IN  \/ /\ \E a \in ids : row' = [row EXCEPT ![t].id = a]
            /\ Goto(t, "insert")
         \/ /\ ids = {}
            /\ Throw(t)
            /\ UNCHANGED row
  /\ UNCHANGED <<tables, known, draft, target, todo, next, copies, then, alone, serial, ops>>

\* insertAccount; the primary key rejects an id that was taken meanwhile.  An
\* API key that came with the account is configured before the sync.
Insert(t) ==
  /\ pc[t] = "insert"
  /\ IF accounts[row[t].id] = NoAccount
       THEN /\ accounts' = [accounts EXCEPT ![row[t].id] = row[t].mode]
            /\ Disturb(t)
            /\ \/ SyncThen(t, "idle")
               \/ row[t].mode \in WithKey /\ Goto(t, "configure") /\ UNCHANGED then
       ELSE Throw(t) /\ UNCHANGED <<accounts, alone, then>>
  /\ UNCHANGED <<groups, local, serial, ops>>

\* configureZaiApiKey and configureAntigravityApiKey find the new row again; it
\* may be gone, or an account of another kind.
Configure(t) ==
  /\ pc[t] = "configure"
  /\ IF accounts[row[t].id] \in KeyedLike(row[t].mode) THEN Goto(t, "update") ELSE Throw(t)
  /\ UNCHANGED <<tables, local, then, alone, serial, ops>>

\* findAccount of an operation that writes the row back or deletes it.
FindAccount(t) ==
  /\ Begin(t)
  /\ \E a \in Present(accounts) :
       row' = [row EXCEPT ![t] = [id |-> a, mode |-> accounts[a]]]
  /\ \E place \in {"update", "delete"} : Goto(t, place)
  /\ UNCHANGED <<tables, known, draft, target, todo, next, copies, then, alone>>

\* updateAccount rewrites the row, if it is still there.
Rewrite(t) ==
  IF accounts[row[t].id] = NoAccount
    THEN UNCHANGED <<accounts, alone>>
    ELSE accounts' = [accounts EXCEPT ![row[t].id] = row[t].mode] /\ Disturb(t)

\* Enable, disable, priority, API key, login, refresh of the status.
Update(t) ==
  /\ pc[t] = "update"
  /\ Rewrite(t)
  /\ SyncThen(t, "idle")
  /\ UNCHANGED <<groups, local, serial, ops>>

\* Slip: deleteAccount forgets the manual choices.
Without_KeepsManual(group, a) ==
  IF group = NoGroup THEN NoGroup ELSE [group EXCEPT !.members = @ \ {a}]

\* deleteAccount: the row, its memberships and its manual choices.
Without(group, a) ==
  IF group = NoGroup THEN NoGroup
  ELSE [group EXCEPT !.members = @ \ {a}, !.manual = IF @ = a THEN NoOne ELSE @]

Delete(t) ==
  /\ pc[t] = "delete"
  /\ accounts' = [accounts EXCEPT ![row[t].id] = NoAccount]
  /\ groups' = [g \in GroupId |-> Without(groups[g], row[t].id)]
  /\ Disturb(t)
  /\ SyncThen(t, "idle")
  /\ UNCHANGED <<local, serial, ops>>

-----------------------------------------------------------------------------
(* The group editor and the quota advisor of the terminal UI.               *)

BeginEdit(t) ==
  /\ t \in Terminal
  /\ Begin(t)
  /\ SyncThen(t, "open")
  /\ UNCHANGED <<tables, local, alone>>

\* The operator opens a group that was listed, or creates one.
Open(t) ==
  /\ pc[t] = "open"
  /\ \E g \in GroupId :
       /\ target' = [target EXCEPT ![t] = g]
       /\ draft' = [draft EXCEPT ![t] =
            IF groups[g] # NoGroup THEN groups[g] ELSE FreshGroup("MANUAL")]
  /\ Goto(t, "edit")
  /\ UNCHANGED <<tables, known, todo, row, next, copies, then, alone, serial, ops>>

\* What the operator may make of a group whose members come from choices:
\* a manual group has a manual account, the others have none.
Chosen(group, strategy, members) ==
  {[group EXCEPT !.strategy = strategy, !.members = members, !.manual = m] :
     m \in IF strategy = "MANUAL" THEN members ELSE {NoOne}}

\* editRoutingGroupMembers lists the accounts and offers those the strategy
\* allows; the strategy may have been changed before.
EditCustom(t) ==
  /\ target[t] \in CustomId
  /\ \E strategy \in OfferedStrategies \cup {draft[t].strategy} :
       LET candidates == {a \in Present(accounts) :
                            strategy = "MANUAL" \/ accounts[a] \in CapableModes}
       IN  /\ candidates # {}
           /\ \E members \in SUBSET candidates :
              \E group \in Chosen(draft[t], strategy, members) :
                Save(t, target[t], group, "idle")

\* Of a default group the operator changes the strategy and the manual
\* account; those that are always manual keep their strategy.
EditDefault(t) ==
  /\ target[t] \in DefaultId
  /\ \E strategy \in IF target[t] \in FixedManual THEN {"MANUAL"} ELSE OfferedStrategies :
     \E group \in Chosen(draft[t], strategy, draft[t].members) :
       Save(t, target[t], group, "idle")

Edit(t) ==
  /\ pc[t] = "edit"
  /\ EditCustom(t) \/ EditDefault(t)
  /\ UNCHANGED <<tables, known, row, next, copies, alone, serial, ops>>

\* The operator gives up, or the provider or the credential store throws.
Cancel(t) ==
  /\ pc[t] \in {"open", "edit", "update", "delete"}
  /\ Goto(t, "idle")
  /\ UNCHANGED <<tables, local, then, alone, serial, ops>>

-----------------------------------------------------------------------------
(* applyImport: accounts, sync, groups, sync.                               *)

BeginImport(t) ==
  /\ Begin(t)
  /\ Goto(t, "accounts")
  /\ UNCHANGED <<tables, local, then, alone>>

\* An account of the file, of any provider whatever its id; a row that exists
\* keeps its provider and mode.
ImportAccount(t) ==
  /\ pc[t] = "accounts"
  /\ Count(t)
  /\ \E a \in AccountId :
     \E mode \in IF accounts[a] # NoAccount THEN {accounts[a]} ELSE Mode :
       row' = [row EXCEPT ![t] = [id |-> a, mode |-> mode]]
  /\ Goto(t, IF accounts[row'[t].id] # NoAccount THEN "importUpdate" ELSE "importInsert")
  /\ UNCHANGED <<tables, known, draft, target, todo, next, copies, then, alone, serial>>

ImportUpdate(t) ==
  /\ pc[t] = "importUpdate"
  /\ Rewrite(t)
  /\ Goto(t, "accounts")
  /\ UNCHANGED <<groups, local, then, serial, ops>>

ImportInsert(t) ==
  /\ pc[t] = "importInsert"
  /\ IF accounts[row[t].id] = NoAccount
       THEN /\ accounts' = [accounts EXCEPT ![row[t].id] = row[t].mode]
            /\ Disturb(t)
            /\ Goto(t, "accounts")
       ELSE Throw(t) /\ UNCHANGED <<accounts, alone>>
  /\ UNCHANGED <<groups, local, then, serial, ops>>

ImportSync(t) ==
  /\ pc[t] = "accounts"
  /\ SyncThen(t, "known")
  /\ UNCHANGED <<tables, local, alone, serial, ops>>

KnownAccounts(t) ==
  /\ pc[t] = "known"
  /\ ListAccounts(t)
  /\ Goto(t, "items")
  /\ UNCHANGED <<tables, draft, target, todo, row, next, copies, then, serial, ops>>

\* Slip: members are taken from the file as they are.
ImportGroup_Unfiltered(t) ==
  /\ pc[t] = "items"
  /\ Count(t)
  /\ \E g \in GroupId, strategy \in OfferedStrategies, enabled \in BOOLEAN,
        members \in SUBSET AccountId,
        manual \in Present(known[t]) \cup {NoOne} :
       Save(t, g, [strategy |-> strategy, enabled |-> enabled,
                   manual |-> manual, members |-> members], "items")
  /\ UNCHANGED <<tables, known, row, next, copies, alone, serial>>

\* A group of the file, restricted to the known accounts.
ImportGroup(t) ==
  /\ pc[t] = "items"
  /\ Count(t)
  /\ \E g \in GroupId, strategy \in OfferedStrategies, enabled \in BOOLEAN,
        members \in SUBSET Present(known[t]),
        manual \in Present(known[t]) \cup {NoOne} :
       Save(t, g, [strategy |-> strategy, enabled |-> enabled,
                   manual |-> manual, members |-> members], "items")
  /\ UNCHANGED <<tables, known, row, next, copies, alone, serial>>

\* An item that is not of the expected type, or names a member twice.
ImportThrows(t) ==
  /\ pc[t] \in {"accounts", "items"}
  /\ Throw(t)
  /\ UNCHANGED <<tables, local, then, alone, serial, ops>>

FinishImport(t) ==
  /\ pc[t] = "items"
  /\ SyncThen(t, "idle")
  /\ UNCHANGED <<tables, local, alone, serial, ops>>

-----------------------------------------------------------------------------
(* repairRoutingGroups.                                                     *)

BeginRepair(t) ==
  /\ t \in Terminal
  /\ Begin(t)
  /\ ListAccounts(t)
  /\ Goto(t, "copy")
  /\ UNCHANGED <<tables, draft, target, todo, row, next, copies, then>>

CopyGroups(t) ==
  /\ pc[t] = "copy"
  /\ copies' = [copies EXCEPT ![t] = groups]
  /\ Goto(t, "repair")
  /\ UNCHANGED <<tables, known, draft, target, todo, row, next, then, alone, serial, ops>>

\* Slip: only the manual choice is cleaned.
Cleaned_KeepsMembers(group, table) ==
  [group EXCEPT !.manual = IF @ \in Present(table) THEN @ ELSE NoOne]

Cleaned(group, table) ==
  [group EXCEPT !.members = @ \cap Present(table),
                !.manual = IF @ \in Present(table) THEN @ ELSE NoOne]

\* The groups still to visit that name an account the repair does not know.
Broken(t) == {g \in GroupId : copies[t][g] # NoGroup
                             /\ Cleaned(copies[t][g], known[t]) # copies[t][g]}

RepairGroup(t) ==
  /\ pc[t] = "repair"
  /\ \E g \in Broken(t) :
       /\ copies' = [copies EXCEPT ![t][g] = NoGroup]
       /\ Save(t, g, Cleaned(copies[t][g], known[t]), "repair")
  /\ UNCHANGED <<tables, known, row, next, alone, serial, ops>>

RepairDone(t) ==
  /\ pc[t] = "repair"
  /\ Broken(t) = {}
  /\ SyncThen(t, "idle")
  /\ UNCHANGED <<tables, local, alone, serial, ops>>

-----------------------------------------------------------------------------
Step(t) ==
  \/ Refresh(t) \/ List(t) \/ FindDefault(t) \/ SaveDefault(t)
  \/ CheckMember(t) \/ WriteGroup(t)
  \/ BeginAdd(t) \/ NumberAccount(t) \/ Insert(t) \/ Configure(t) \/ FindAccount(t) \/ Update(t) \/ Delete(t)
  \/ BeginEdit(t) \/ Open(t) \/ Edit(t) \/ Cancel(t)
  \/ BeginImport(t) \/ ImportAccount(t) \/ ImportUpdate(t) \/ ImportInsert(t)
  \/ ImportSync(t) \/ KnownAccounts(t) \/ ImportGroup(t) \/ ImportThrows(t)
  \/ FinishImport(t)
  \/ BeginRepair(t) \/ CopyGroups(t) \/ RepairGroup(t) \/ RepairDone(t)

Next == \E t \in Thread : Step(t)

Spec == Init /\ [][Next]_vars

-----------------------------------------------------------------------------
Place == {"idle", "list", "find", "save", "check", "number", "insert", "configure",
          "update", "delete", "open", "edit", "accounts", "importUpdate", "importInsert", "known",
          "items", "copy", "repair"}

\* Every variable has its type; a thread that writes an account or a group
\* holds one.
TypeOK ==
  /\ accounts \in [AccountId -> Mode \cup {NoAccount}]
  /\ groups \in [GroupId -> Group \cup {NoGroup}]
  /\ pc \in [Thread -> Place]
  /\ known \in [Thread -> [AccountId -> Mode \cup {NoAccount}]]
  /\ draft \in [Thread -> Group \cup {NoGroup}]
  /\ target \in [Thread -> GroupId]
  /\ todo \in [Thread -> SUBSET AccountId]
  /\ row \in [Thread -> [id : AccountId \cup {NoOne}, mode : Mode \cup {NoAccount}]]
  /\ next \in [Thread -> 1 .. 5]
  /\ copies \in [Thread -> [GroupId -> Group \cup {NoGroup}]]
  /\ then \in [Thread -> {"idle", "open", "known", "items", "repair"}]
  /\ alone \in [Thread -> BOOLEAN]
  /\ serial \in BOOLEAN
  /\ ops \in [Thread -> Nat]
  /\ \A t \in Thread :
       /\ pc[t] \in {"save", "check", "edit"} => draft[t] \in Group
       /\ pc[t] = "number" => row[t].mode \in Mode
       /\ pc[t] \in {"insert", "configure", "update", "delete", "importUpdate", "importInsert"} =>
            row[t].id \in AccountId /\ row[t].mode \in Mode

\* A stored group in manual mode routes to one of its members, whatever the
\* threads do: deleteAccount and saveRoutingGroup change the choice and the
\* membership in one transaction, and every write was checked or rebuilt.
ManualIsMember ==
  \A g \in GroupId :
    groups[g] # NoGroup /\ groups[g].strategy = "MANUAL" => ManualSound(groups[g])

\* As long as operations do not overlap, a group names accounts there are:
\* deleteAccount, saveGroup, the import and the sync keep the two tables
\* consistent without foreign keys.
ReferencesExist ==
  serial => \A g \in GroupId :
    groups[g] # NoGroup => Named(groups[g]) \subseteq Present(accounts)

\* As long as operations do not overlap, an automatic group has only members
\* with a general-purpose API: neither an imported strategy nor a new account
\* under an old id brings a consumer profile or a coding plan into one.
AutomaticIsCapable ==
  serial => \A g \in GroupId :
    groups[g] # NoGroup /\ groups[g].strategy # "MANUAL" =>
      \A a \in groups[g].members : accounts[a] \in CapableModes

\* A sync that no other thread wrote into ends with every default group
\* holding exactly the accounts of its kind, though it saves them one by one.
SyncHeals ==
  [][\A t \in Thread :
       pc[t] = "save" /\ next[t] = 5 /\ alone[t] /\ pc'[t] # "save" =>
         \A g \in DefaultId :
           groups'[g].members = {a \in AccountId : accounts'[a] \in ModesIn(g)}]_vars

\* A sync that no other thread wrote into loses nothing the operator set: the
\* switch of a default group, its strategy and its manual member stay.
SyncKeepsChoices ==
  [][\A t \in Thread :
       pc[t] = "save" /\ alone[t] /\ pc'[t] # "save" /\ groups[target[t]] # NoGroup =>
         LET old == groups[target[t]]
             new == groups'[target[t]]
         IN  /\ new.enabled = old.enabled
             /\ target[t] \notin FixedManual => new.strategy = old.strategy
             /\ old.manual \in new.members => new.manual = old.manual]_vars

\* A repair that no other thread wrote into and that no save stopped leaves no
\* group, custom ones included, that names a missing account.
RepairHeals ==
  [][\A t \in Thread :
       pc[t] = "repair" /\ pc'[t] = "list" /\ alone[t] =>
         \A g \in GroupId :
           groups[g] # NoGroup => Named(groups[g]) \subseteq Present(accounts)]_vars

\* CHANGELOG.md: "Removed accounts are also removed from routing memberships
\* and manual group selections", of every account no operation is handling.
NoGhosts ==
  (\A t \in Thread : pc[t] = "idle") =>
    \A g \in GroupId :
      groups[g] # NoGroup => Named(groups[g]) \subseteq Present(accounts)

=============================================================================
