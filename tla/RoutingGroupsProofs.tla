------------------------- MODULE RoutingGroupsProofs -------------------------
(***************************************************************************)
(* Theorems about RoutingGroups, for any accounts, custom groups, threads  *)
(* and numbers of operations.                                              *)
(***************************************************************************)
EXTENDS RoutingGroups, TLAPS

(***************************************************************************)
(* Types.                                                                  *)
(***************************************************************************)

LEMMA DefaultsAreGroups ==
  /\ \A i \in 1 .. 5 : DefaultOrder[i] \in GroupId
  /\ DefaultId \subseteq GroupId /\ CustomId \subseteq GroupId
  /\ "MANUAL" \in Strategy /\ "HEALTH_FIRST" \in Strategy
BY DEF DefaultId, GroupId, Strategy

LEMMA NoneIsNoMode ==
  NoAccount \notin Mode
BY DEF NoAccount, Mode, ModesOf

\* A rebuilt group is a group.
LEMMA RebuiltType ==
  ASSUME NEW g \in GroupId, NEW old \in Group \cup {NoGroup}, NEW table
  PROVE  Rebuilt(g, old, table) \in Group
<1> DEFINE kept == IF old = NoGroup THEN FreshGroup("HEALTH_FIRST") ELSE old
<1>1. FreshGroup("HEALTH_FIRST") \in Group
  BY DefaultsAreGroups DEF FreshGroup, Group
<1>2. kept \in Group
  BY <1>1
<1>3. kept.strategy \in Strategy /\ kept.enabled \in BOOLEAN /\ kept.manual \in AccountId \cup {NoOne}
  BY <1>2 DEF Group
<1> QED BY <1>3, DefaultsAreGroups DEF Rebuilt, Group

\* saveGroup sends a group of the right type on its way.
LEMMA SaveType ==
  ASSUME TypeOK, NEW t \in Thread, NEW g \in GroupId, NEW group \in Group,
         NEW place \in {"idle", "items", "repair"}, Save(t, g, group, place)
  PROVE  /\ pc' \in [Thread -> Place] /\ then' \in [Thread -> {"idle", "open", "known", "items", "repair"}]
         /\ draft' \in [Thread -> Group \cup {NoGroup}]
         /\ target' \in [Thread -> GroupId] /\ todo' \in [Thread -> SUBSET AccountId]
         /\ \A u \in Thread : pc'[u] \in {"save", "check", "edit"} => draft'[u] \in Group
         /\ \A u \in Thread : u # t => pc'[u] = pc[u]
         /\ pc'[t] \in {"check", "idle"}
<1>1. pc' = [pc EXCEPT ![t] = "check"] \/ pc' = [pc EXCEPT ![t] = "idle"]
  BY DEF Save, Goto, Throw
<1>2. group.members \subseteq AccountId
  BY DEF Group
<1> QED BY <1>1, <1>2 DEF Save, TypeOK, Place


\* What the operator makes of a group is a group.
LEMMA ChosenType ==
  ASSUME NEW t, draft[t] \in Group, target[t] \in GroupId, EditCustom(t) \/ EditDefault(t)
  PROVE  \E group \in Group : Save(t, target[t], group, "idle")
<1>1. ASSUME NEW strategy \in Strategy, NEW members \in SUBSET AccountId
      PROVE  Chosen(draft[t], strategy, members) \subseteq Group
  BY DEF Chosen, Group
<1>2. draft[t].strategy \in Strategy /\ draft[t].members \in SUBSET AccountId
  BY DEF Group
<1>3. CASE EditCustom(t)
  BY <1>1, <1>2, <1>3, RoutingGroupsAssumption DEF EditCustom, Present
<1>4. CASE EditDefault(t)
  BY <1>1, <1>2, <1>4, RoutingGroupsAssumption, DefaultsAreGroups DEF EditDefault
<1> QED BY <1>3, <1>4

\* A group without an account is a group.
LEMMA WithoutType ==
  ASSUME NEW group \in Group \cup {NoGroup}, NEW a
  PROVE  Without(group, a) \in Group \cup {NoGroup}
<1>1. CASE group = NoGroup
  BY <1>1 DEF Without
<1>2. CASE group # NoGroup
  <2>1. /\ group.strategy \in Strategy /\ group.enabled \in BOOLEAN
        /\ group.manual \in AccountId \cup {NoOne} /\ group.members \in SUBSET AccountId
    BY <1>2 DEF Group
  <2> QED BY <1>2, <2>1 DEF Without, Group
<1> QED BY <1>1, <1>2

\* Every step keeps the types.
LEMMA StepType ==
  ASSUME TypeOK, NEW t \in Thread, Step(t)
  PROVE  TypeOK'
<1> USE DEF Place
<1>1. CASE Refresh(t)
  BY <1>1 DEF TypeOK, Refresh, Begin, Count, SyncThen, Goto, tables, local
<1>2. CASE List(t)
  BY <1>2 DEF TypeOK, List, ListAccounts, Goto, tables
<1>3. CASE FindDefault(t)
  <2>1. /\ DefaultOrder[next[t]] \in GroupId
        /\ Rebuilt(DefaultOrder[next[t]], groups[DefaultOrder[next[t]]], known[t]) \in Group
    BY RebuiltType, DefaultsAreGroups DEF TypeOK
  <2> QED BY <1>3, <2>1 DEF TypeOK, FindDefault, Goto, tables
<1>4. CASE SaveDefault(t)
  <2>1. draft[t] \in Group /\ target[t] \in GroupId /\ next[t] \in 1 .. 5
    BY <1>4 DEF SaveDefault, TypeOK
  <2>2. groups' \in [GroupId -> Group \cup {NoGroup}]
    BY <1>4, <2>1 DEF SaveDefault, TypeOK
  <2>3. next' \in [Thread -> 1 .. 5]
    <3>1. CASE next[t] < 5
      <4>1. next' = [next EXCEPT ![t] = next[t] + 1]
        BY <1>4, <3>1 DEF SaveDefault
      <4>2. next[t] + 1 \in 1 .. 5
        BY <2>1, <3>1
      <4> QED BY <4>1, <4>2 DEF TypeOK
    <3>2. CASE ~ (next[t] < 5)
      BY <1>4, <3>2 DEF SaveDefault, TypeOK
    <3> QED BY <3>1, <3>2
  <2> QED BY <1>4, <2>2, <2>3 DEF TypeOK, SaveDefault, Goto, Disturb
<1>5. CASE CheckMember(t)
  BY <1>5 DEF TypeOK, CheckMember, Throw, Goto, tables
<1>6. CASE WriteGroup(t)
  BY <1>6 DEF TypeOK, WriteGroup, Goto, Disturb, local
<1>7. CASE BeginAdd(t)
  BY <1>7, NoneIsNoMode DEF TypeOK, BeginAdd, Begin, Count, Goto, tables
<1>29. CASE NumberAccount(t)
  <2>1. CASE \E a \in AccountId : row' = [row EXCEPT ![t].id = a]
    <3>1. PICK a \in AccountId : row' = [row EXCEPT ![t].id = a]
      BY <2>1
    <3>2. row[t] \in [id : AccountId \cup {NoOne}, mode : Mode \cup {NoAccount}]
      BY DEF TypeOK
    <3>3. row[t].mode \in Mode
      BY <1>29 DEF NumberAccount, TypeOK
    <3>4. row'[t].id = a /\ row'[t].mode \in Mode
      BY <3>1, <3>2, <3>3 DEF TypeOK
    <3>5. row' \in [Thread -> [id : AccountId \cup {NoOne}, mode : Mode \cup {NoAccount}]]
      BY <3>1, <3>2 DEF TypeOK
    <3>6. pc' = [pc EXCEPT ![t] = "insert"] \/ pc' = [pc EXCEPT ![t] = "idle"]
      BY <1>29 DEF NumberAccount, Throw, Goto
    <3> QED BY <1>29, <3>1, <3>4, <3>5, <3>6 DEF TypeOK, NumberAccount, tables
  <2>2. CASE UNCHANGED row /\ Throw(t)
    BY <1>29, <2>2 DEF TypeOK, NumberAccount, Throw, Goto, tables
  <2> QED BY <1>29, <2>1, <2>2 DEF NumberAccount
<1>30. CASE Configure(t)
  BY <1>30 DEF TypeOK, Configure, Throw, Goto, tables, local
<1>8. CASE Insert(t)
  <2>1. accounts' \in [AccountId -> Mode \cup {NoAccount}]
    <3>1. accounts' = accounts \/ accounts' = [accounts EXCEPT ![row[t].id] = row[t].mode]
      BY <1>8 DEF Insert
    <3>2. row[t].mode \in Mode
      BY <1>8 DEF Insert, TypeOK
    <3>3. accounts \in [AccountId -> Mode \cup {NoAccount}]
      BY DEF TypeOK
    <3> QED BY <3>1, <3>2, <3>3
  <2>2. CASE accounts[row[t].id] = NoAccount
    <3>1. /\ \/ pc' = [pc EXCEPT ![t] = "list"] /\ then' = [then EXCEPT ![t] = "idle"]
             \/ pc' = [pc EXCEPT ![t] = "configure"] /\ then' = then
          /\ alone' = [u \in Thread |-> u = t /\ alone[t]]
          /\ UNCHANGED <<groups, local, serial, ops>>
      BY <1>8, <2>2 DEF Insert, Goto, SyncThen, Disturb
    <3>2. row[t].id \in AccountId /\ row[t].mode \in Mode
      BY <1>8 DEF Insert, TypeOK
    <3>3. CASE pc' = [pc EXCEPT ![t] = "list"] /\ then' = [then EXCEPT ![t] = "idle"]
      BY <2>1, <3>1, <3>3 DEF TypeOK, local
    <3>4. CASE pc' = [pc EXCEPT ![t] = "configure"] /\ then' = then
      BY <2>1, <3>1, <3>2, <3>4 DEF TypeOK, local
    <3> QED BY <3>1, <3>3, <3>4
  <2>3. CASE accounts[row[t].id] # NoAccount
    BY <1>8, <2>1, <2>3 DEF TypeOK, Insert, Throw, Goto, local
  <2> QED BY <2>2, <2>3
<1>9. CASE FindAccount(t)
  BY <1>9, NoneIsNoMode DEF TypeOK, FindAccount, Begin, Count, Goto, Present, tables
<1>10. CASE Update(t)
  BY <1>10 DEF TypeOK, Update, Rewrite, SyncThen, Goto, Disturb, local
<1>11. CASE Delete(t)
  <2>1. \A g \in GroupId : Without(groups[g], row[t].id) \in Group \cup {NoGroup}
    BY WithoutType DEF TypeOK
  <2> QED BY <1>11, <2>1 DEF TypeOK, Delete, SyncThen, Goto, Disturb, local
<1>12. CASE BeginEdit(t)
  BY <1>12 DEF TypeOK, BeginEdit, Begin, Count, SyncThen, Goto, tables, local
<1>13. CASE Open(t)
  <2>1. FreshGroup("MANUAL") \in Group
    BY DefaultsAreGroups DEF FreshGroup, Group
  <2> QED BY <1>13, <2>1 DEF TypeOK, Open, Goto, tables
<1>14. CASE Edit(t)
  <2>1. draft[t] \in Group /\ target[t] \in GroupId
    BY <1>14 DEF Edit, TypeOK
  <2>2. PICK group \in Group : Save(t, target[t], group, "idle")
    BY <1>14, <2>1, ChosenType DEF Edit
  <2> QED BY <1>14, <2>1, <2>2, SaveType DEF TypeOK, Edit, tables
<1>15. CASE Cancel(t)
  BY <1>15 DEF TypeOK, Cancel, Goto, tables, local
<1>16. CASE BeginImport(t)
  BY <1>16 DEF TypeOK, BeginImport, Begin, Count, Goto, tables, local
<1>17. CASE ImportAccount(t)
  <2>1. PICK a \in AccountId, mode \in Mode :
          row' = [row EXCEPT ![t] = [id |-> a, mode |-> mode]]
    BY <1>17 DEF ImportAccount, TypeOK
  <2>2. row'[t].id \in AccountId /\ row'[t].mode \in Mode
    BY <2>1 DEF TypeOK
  <2> QED BY <1>17, <2>1, <2>2 DEF TypeOK, ImportAccount, Count, Goto, tables
<1>18. CASE ImportUpdate(t)
  BY <1>18 DEF TypeOK, ImportUpdate, Rewrite, Goto, Disturb, local
<1>19. CASE ImportInsert(t)
  <2>1. accounts' \in [AccountId -> Mode \cup {NoAccount}]
    <3>1. accounts' = accounts \/ accounts' = [accounts EXCEPT ![row[t].id] = row[t].mode]
      BY <1>19 DEF ImportInsert
    <3>2. row[t].mode \in Mode
      BY <1>19 DEF ImportInsert, TypeOK
    <3>3. accounts \in [AccountId -> Mode \cup {NoAccount}]
      BY DEF TypeOK
    <3> QED BY <3>1, <3>2, <3>3
  <2>2. CASE accounts[row[t].id] = NoAccount
    <3>1. /\ pc' = [pc EXCEPT ![t] = "accounts"]
          /\ alone' = [u \in Thread |-> u = t /\ alone[t]]
          /\ UNCHANGED <<groups, local, then, serial, ops>>
      BY <1>19, <2>2 DEF ImportInsert, Goto, Disturb
    <3> QED BY <2>1, <3>1 DEF TypeOK, local
  <2>3. CASE accounts[row[t].id] # NoAccount
    BY <1>19, <2>1, <2>3 DEF TypeOK, ImportInsert, Throw, Goto, local
  <2> QED BY <2>2, <2>3
<1>20. CASE ImportSync(t)
  BY <1>20 DEF TypeOK, ImportSync, SyncThen, Goto, tables, local
<1>21. CASE KnownAccounts(t)
  BY <1>21 DEF TypeOK, KnownAccounts, ListAccounts, Goto, tables
<1>22. CASE ImportGroup(t)
  <2>1. PICK g \in GroupId, group \in Group : Save(t, g, group, "items")
    BY <1>22, RoutingGroupsAssumption DEF ImportGroup, Group, Present
  <2> QED BY <1>22, <2>1, SaveType DEF TypeOK, ImportGroup, Count, tables
<1>23. CASE ImportThrows(t)
  BY <1>23 DEF TypeOK, ImportThrows, Throw, Goto, tables, local
<1>24. CASE FinishImport(t)
  BY <1>24 DEF TypeOK, FinishImport, SyncThen, Goto, tables, local
<1>25. CASE BeginRepair(t)
  BY <1>25 DEF TypeOK, BeginRepair, Begin, Count, ListAccounts, Goto, tables
<1>26. CASE CopyGroups(t)
  BY <1>26 DEF TypeOK, CopyGroups, Goto, tables
<1>27. CASE RepairGroup(t)
  <2>1. PICK g \in GroupId : copies[t][g] \in Group
                              /\ copies' = [copies EXCEPT ![t][g] = NoGroup]
                              /\ Save(t, g, Cleaned(copies[t][g], known[t]), "repair")
    <3>1. \A g \in Broken(t) : g \in GroupId /\ copies[t][g] \in Group
      BY DEF Broken, TypeOK
    <3> QED BY <1>27, <3>1 DEF RepairGroup
  <2>2. Cleaned(copies[t][g], known[t]) \in Group
    BY <2>1 DEF Cleaned, Group
  <2> QED BY <1>27, <2>1, <2>2, SaveType DEF TypeOK, RepairGroup, tables
<1>28. CASE RepairDone(t)
  BY <1>28 DEF TypeOK, RepairDone, SyncThen, Goto, tables, local
<1> QED BY <1>1, <1>2, <1>3, <1>4, <1>5, <1>6, <1>7, <1>8, <1>9, <1>10, <1>11, <1>12, <1>13, <1>14, <1>15, <1>16, <1>17, <1>18, <1>19, <1>20, <1>21, <1>22, <1>23, <1>24, <1>25, <1>26, <1>27, <1>28, <1>29, <1>30 DEF Step


LEMMA InitType == Init => TypeOK
<1> SUFFICES ASSUME Init PROVE TypeOK
  OBVIOUS
<1>1. \A g \in GroupId : groups[g] \in Group \cup {NoGroup}
  BY RebuiltType DEF Init
<1> QED BY <1>1, DefaultsAreGroups, RoutingGroupsAssumption DEF Init, TypeOK, Place

\* The variables keep their types.
THEOREM GroupsTypeCorrect == Spec => []TypeOK
<1>1. TypeOK /\ [Next]_vars => TypeOK'
  <2>1. ASSUME TypeOK, UNCHANGED vars PROVE TypeOK'
    BY <2>1 DEF TypeOK, vars
  <2> QED BY <2>1, StepType DEF Next
<1> QED BY InitType, <1>1, PTL DEF Spec

-----------------------------------------------------------------------------
(* What the steps have in common.                                           *)

\* Steps that neither write a group nor prepare one.
Silent(t) ==
  \/ Refresh(t) \/ List(t) \/ CheckMember(t)
  \/ BeginAdd(t) \/ NumberAccount(t) \/ Insert(t) \/ Configure(t)
  \/ FindAccount(t) \/ Update(t) \/ BeginEdit(t) \/ Cancel(t) \/ BeginImport(t)
  \/ ImportAccount(t) \/ ImportUpdate(t) \/ ImportInsert(t) \/ ImportSync(t) \/ KnownAccounts(t)
  \/ ImportThrows(t) \/ FinishImport(t) \/ BeginRepair(t) \/ CopyGroups(t) \/ RepairDone(t)

LEMMA SilentKeeps ==
  ASSUME TypeOK, NEW t \in Thread, Silent(t)
  PROVE  /\ groups' = groups /\ draft' = draft
         /\ \E p \in Place \ {"save", "edit"} :
              (p = "check" => pc[t] = "check") /\ pc' = [pc EXCEPT ![t] = p]
<1> USE DEF Place
<1>1. CASE Refresh(t)
  BY <1>1 DEF Refresh, SyncThen, Goto, tables, local
<1>2. CASE List(t)
  BY <1>2 DEF List, Goto, tables
<1>3. CASE CheckMember(t)
  BY <1>3 DEF CheckMember, Throw, Goto, tables, TypeOK
<1>4. CASE BeginAdd(t)
  BY <1>4 DEF BeginAdd, Goto, tables
<1>21. CASE NumberAccount(t)
  BY <1>21 DEF NumberAccount, Throw, Goto, tables
<1>22. CASE Configure(t)
  BY <1>22 DEF Configure, Throw, Goto, tables, local
<1>5. CASE Insert(t)
  BY <1>5 DEF Insert, Throw, SyncThen, Goto, local
<1>6. CASE FindAccount(t)
  BY <1>6 DEF FindAccount, Goto, tables
<1>7. CASE Update(t)
  BY <1>7 DEF Update, SyncThen, Goto, local
<1>8. CASE BeginEdit(t)
  BY <1>8 DEF BeginEdit, SyncThen, Goto, tables, local
<1>9. CASE Cancel(t)
  BY <1>9 DEF Cancel, Goto, tables, local
<1>10. CASE BeginImport(t)
  BY <1>10 DEF BeginImport, Goto, tables, local
<1>11. CASE ImportAccount(t)
  BY <1>11 DEF ImportAccount, Goto, tables
<1>12. CASE ImportUpdate(t)
  BY <1>12 DEF ImportUpdate, Goto, local
<1>13. CASE ImportInsert(t)
  BY <1>13 DEF ImportInsert, Throw, Goto, local
<1>14. CASE ImportSync(t)
  BY <1>14 DEF ImportSync, SyncThen, Goto, tables, local
<1>15. CASE KnownAccounts(t)
  BY <1>15 DEF KnownAccounts, Goto, tables
<1>16. CASE ImportThrows(t)
  BY <1>16 DEF ImportThrows, Throw, Goto, tables, local
<1>17. CASE FinishImport(t)
  BY <1>17 DEF FinishImport, SyncThen, Goto, tables, local
<1>18. CASE BeginRepair(t)
  BY <1>18 DEF BeginRepair, Goto, tables
<1>19. CASE CopyGroups(t)
  BY <1>19 DEF CopyGroups, Goto, tables
<1>20. CASE RepairDone(t)
  BY <1>20 DEF RepairDone, SyncThen, Goto, tables, local
<1> QED BY <1>1, <1>2, <1>3, <1>4, <1>5, <1>6, <1>7, <1>8, <1>9, <1>10, <1>11, <1>12, <1>13, <1>14, <1>15, <1>16, <1>17, <1>18, <1>19, <1>20, <1>21, <1>22 DEF Silent

-----------------------------------------------------------------------------
(* Manual choices: what is stored, and what is about to be.                 *)

ManualRule(group) == group.strategy = "MANUAL" => ManualSound(group)

ManualOK ==
  /\ \A g \in GroupId : groups[g] # NoGroup => ManualRule(groups[g])
  /\ \A t \in Thread : pc[t] \in {"save", "check"} => ManualRule(draft[t])

LEMMA RebuiltManual ==
  ASSUME NEW g, NEW old, NEW table
  PROVE  ManualRule(Rebuilt(g, old, table))
BY DEF Rebuilt, ManualRule, ManualSound

LEMMA WithoutManual ==
  ASSUME NEW group \in Group, NEW a, ManualRule(group)
  PROVE  ManualRule(Without(group, a))
<1>1. group # NoGroup
  BY RoutingGroupsAssumption
<1>2. Without(group, a) = [strategy |-> group.strategy, enabled |-> group.enabled,
                           manual |-> IF group.manual = a THEN NoOne ELSE group.manual,
                           members |-> group.members \ {a}]
  BY <1>1 DEF Without, Group
<1> QED BY <1>2 DEF ManualRule, ManualSound

\* saveGroup prepares only groups whose manual account is a member.
LEMMA SaveManual ==
  ASSUME TypeOK, ManualOK, NEW t \in Thread, NEW g, NEW group, NEW place,
         Save(t, g, group, place), groups' = groups
  PROVE  ManualOK'
<1>1. CASE ManualSound(group)
  BY <1>1 DEF Save, Goto, ManualOK, ManualRule, TypeOK
<1>2. CASE ~ ManualSound(group)
  BY <1>2 DEF Save, Throw, Goto, ManualOK, TypeOK
<1> QED BY <1>1, <1>2

LEMMA StepManual ==
  ASSUME TypeOK, ManualOK, NEW t \in Thread, Step(t)
  PROVE  ManualOK'
<1>1. CASE Silent(t)
  BY <1>1, SilentKeeps DEF ManualOK, TypeOK
<1>2. CASE FindDefault(t)
  BY <1>2, RebuiltManual DEF FindDefault, Goto, ManualOK, TypeOK, tables
<1>3. ASSUME pc[t] \in {"save", "check"}, pc' = [pc EXCEPT ![t] = "find"]
                \/ pc' = [pc EXCEPT ![t] = then[t]],
             groups' = [groups EXCEPT ![target[t]] = draft[t]], draft' = draft
      PROVE  ManualOK'
  BY <1>3 DEF ManualOK, TypeOK
<1>4. CASE SaveDefault(t)
  BY <1>3, <1>4 DEF SaveDefault, Goto
<1>5. CASE WriteGroup(t)
  BY <1>3, <1>5 DEF WriteGroup, Goto, local
<1>6. CASE Delete(t)
  <2>1. \A g \in GroupId : groups'[g] # NoGroup => ManualRule(groups'[g])
    <3>1. ASSUME NEW g \in GroupId, groups'[g] # NoGroup
          PROVE  groups[g] \in Group /\ groups'[g] = Without(groups[g], row[t].id)
      BY <1>6, <3>1 DEF Delete, Without, TypeOK
    <3> QED BY <3>1, WithoutManual, RoutingGroupsAssumption DEF ManualOK
  <2> QED BY <1>6, <2>1 DEF Delete, SyncThen, Goto, ManualOK, TypeOK, local
<1>7. CASE Open(t)
  BY <1>7 DEF Open, Goto, ManualOK, TypeOK, tables
<1>8. CASE Edit(t)
  <2>1. PICK group : Save(t, target[t], group, "idle")
    BY <1>8 DEF Edit, EditCustom, EditDefault
  <2> QED BY <1>8, <2>1, SaveManual DEF Edit, tables
<1>9. CASE ImportGroup(t)
  <2>1. PICK g, group : Save(t, g, group, "items")
    BY <1>9 DEF ImportGroup
  <2> QED BY <1>9, <2>1, SaveManual DEF ImportGroup, tables
<1>10. CASE RepairGroup(t)
  <2>1. PICK g, group : Save(t, g, group, "repair")
    BY <1>10 DEF RepairGroup
  <2> QED BY <1>10, <2>1, SaveManual DEF RepairGroup, tables
<1> QED BY <1>1, <1>2, <1>4, <1>5, <1>6, <1>7, <1>8, <1>9, <1>10 DEF Step, Silent

LEMMA InitManual == Init => ManualOK
<1> SUFFICES ASSUME Init PROVE ManualOK
  OBVIOUS
<1>1. \A g \in GroupId : groups[g] # NoGroup => ManualRule(groups[g])
  BY RebuiltManual DEF Init
<1> QED BY <1>1 DEF Init, ManualOK

\* Whatever the threads do, a stored manual group routes to one of its members.
THEOREM ManualMembers == Spec => []ManualIsMember
<1>1. TypeOK /\ ManualOK /\ [Next]_vars => ManualOK'
  <2>1. ASSUME ManualOK, UNCHANGED vars PROVE ManualOK'
    BY <2>1 DEF ManualOK, vars
  <2> QED BY <2>1, StepManual DEF Next
<1>2. ManualOK => ManualIsMember
  BY DEF ManualOK, ManualIsMember, ManualRule
<1> QED BY InitManual, <1>1, <1>2, GroupsTypeCorrect, PTL DEF Spec

-----------------------------------------------------------------------------
(* Operations that do not overlap.                                          *)

\* A group that names accounts there are, and capable ones when automatic.
Fits(group, table) ==
  /\ Named(group) \subseteq Present(table)
  /\ group.strategy # "MANUAL" => \A a \in group.members : table[a] \in CapableModes

\* The same of a group of which saveGroup has not checked all the members.
FitsSoFar(group, unchecked, table) ==
  /\ Named(group) \subseteq Present(table)
  /\ group.strategy # "MANUAL" =>
       \A a \in group.members \ unchecked : table[a] \in CapableModes

\* The thread still relies on the accounts it has listed.
Relies(t) ==
  \/ pc[t] \in {"find", "save", "items", "copy", "repair"}
  \/ pc[t] = "check" /\ then[t] \in {"items", "repair"}

\* What a thread holds when no other is at work.
HeldOK(t) ==
  /\ pc[t] \in {"save", "edit"} => Fits(draft[t], accounts)
  /\ pc[t] = "check" => FitsSoFar(draft[t], todo[t], accounts)
  /\ Relies(t) => known[t] = accounts
  /\ pc[t] \in {"configure", "update", "importUpdate"} => accounts[row[t].id] = row[t].mode

OneAtWork == \A t, u \in Thread : pc[t] # "idle" /\ pc[u] # "idle" => t = u
GroupsFit == \A g \in GroupId : groups[g] # NoGroup => Fits(groups[g], accounts)

SerialOK == serial => OneAtWork /\ GroupsFit /\ \A t \in Thread : HeldOK(t)

\* A step moves one thread; it begins an operation or continues one.
LEMMA Moves ==
  ASSUME TypeOK, NEW t \in Thread, Step(t)
  PROVE  /\ \A u \in Thread : u # t => pc'[u] = pc[u]
         /\ \/ pc[t] # "idle" /\ serial' = serial
            \/ serial' = (serial /\ \A u \in Thread : pc[u] = "idle")
<1>1. CASE Refresh(t)
  BY <1>1 DEF TypeOK, Refresh, Begin, SyncThen, Goto
<1>2. CASE List(t)
  BY <1>2 DEF TypeOK, List, Goto
<1>3. CASE FindDefault(t)
  BY <1>3 DEF TypeOK, FindDefault, Goto
<1>4. CASE SaveDefault(t)
  BY <1>4 DEF TypeOK, SaveDefault, Goto
<1>5. CASE CheckMember(t)
  BY <1>5 DEF TypeOK, CheckMember, Throw, Goto
<1>6. CASE WriteGroup(t)
  BY <1>6 DEF TypeOK, WriteGroup, Goto
<1>7. CASE BeginAdd(t)
  BY <1>7 DEF TypeOK, BeginAdd, Begin, Goto
<1>29. CASE NumberAccount(t)
  BY <1>29 DEF TypeOK, NumberAccount, Throw, Goto
<1>30. CASE Configure(t)
  BY <1>30 DEF TypeOK, Configure, Throw, Goto
<1>8. CASE Insert(t)
  BY <1>8 DEF TypeOK, Insert, SyncThen, Throw, Goto
<1>9. CASE FindAccount(t)
  BY <1>9 DEF TypeOK, FindAccount, Begin, Goto
<1>10. CASE Update(t)
  BY <1>10 DEF TypeOK, Update, SyncThen, Goto
<1>11. CASE Delete(t)
  BY <1>11 DEF TypeOK, Delete, SyncThen, Goto
<1>12. CASE BeginEdit(t)
  BY <1>12 DEF TypeOK, BeginEdit, Begin, SyncThen, Goto
<1>13. CASE Open(t)
  BY <1>13 DEF TypeOK, Open, Goto
<1>14. CASE Edit(t)
  BY <1>14 DEF TypeOK, Edit, EditCustom, EditDefault, Save, Throw, Goto
<1>15. CASE Cancel(t)
  BY <1>15 DEF TypeOK, Cancel, Goto
<1>16. CASE BeginImport(t)
  BY <1>16 DEF TypeOK, BeginImport, Begin, Goto
<1>17. CASE ImportAccount(t)
  BY <1>17 DEF TypeOK, ImportAccount, Goto
<1>18. CASE ImportUpdate(t)
  BY <1>18 DEF TypeOK, ImportUpdate, Goto
<1>19. CASE ImportInsert(t)
  BY <1>19 DEF TypeOK, ImportInsert, Throw, Goto
<1>20. CASE ImportSync(t)
  BY <1>20 DEF TypeOK, ImportSync, SyncThen, Goto
<1>21. CASE KnownAccounts(t)
  BY <1>21 DEF TypeOK, KnownAccounts, Goto
<1>22. CASE ImportGroup(t)
  BY <1>22 DEF TypeOK, ImportGroup, Save, Throw, Goto
<1>23. CASE ImportThrows(t)
  BY <1>23 DEF TypeOK, ImportThrows, Throw, Goto
<1>24. CASE FinishImport(t)
  BY <1>24 DEF TypeOK, FinishImport, SyncThen, Goto
<1>25. CASE BeginRepair(t)
  BY <1>25 DEF TypeOK, BeginRepair, Begin, Goto
<1>26. CASE CopyGroups(t)
  BY <1>26 DEF TypeOK, CopyGroups, Goto
<1>27. CASE RepairGroup(t)
  BY <1>27 DEF TypeOK, RepairGroup, Save, Throw, Goto
<1>28. CASE RepairDone(t)
  BY <1>28 DEF TypeOK, RepairDone, SyncThen, Goto
<1> QED BY <1>1, <1>2, <1>3, <1>4, <1>5, <1>6, <1>7, <1>8, <1>9, <1>10, <1>11, <1>12, <1>13, <1>14, <1>15, <1>16, <1>17, <1>18, <1>19, <1>20, <1>21, <1>22, <1>23, <1>24, <1>25, <1>26, <1>27, <1>28, <1>29, <1>30 DEF Step


\* So it is enough to look at the thread that moves.
LEMMA OneMoves ==
  ASSUME TypeOK, SerialOK, NEW t \in Thread, Step(t),
         serial /\ GroupsFit /\ HeldOK(t) => GroupsFit' /\ HeldOK(t)'
  PROVE  SerialOK'
<1> SUFFICES ASSUME serial' PROVE OneAtWork' /\ GroupsFit' /\ \A u \in Thread : HeldOK(u)'
  BY DEF SerialOK
<1>1. serial /\ OneAtWork /\ GroupsFit /\ HeldOK(t)
  BY Moves DEF SerialOK
<1>2. \A u \in Thread : u # t => pc'[u] = "idle"
  BY <1>1, Moves DEF OneAtWork
<1>3. \A u \in Thread : u # t => HeldOK(u)'
  BY <1>2 DEF HeldOK, Relies
<1> QED BY <1>1, <1>2, <1>3 DEF OneAtWork

LEMMA DefaultModes ==
  \A g \in DefaultId :
    ModesIn(g) \subseteq Mode /\ (g \notin FixedManual => ModesIn(g) \subseteq CapableModes)
<1>1. \A g \in DefaultId :
        \/ g = "codex-default" /\ ModesIn(g) = {"subscription-runtime"}
        \/ g = "antigravity-default" /\ ModesIn(g) = {"consumer-cli"}
        \/ g = "antigravity-api-default" /\ ModesIn(g) = {"api-project"}
        \/ g = "zai-default" /\ ModesIn(g) = {"general-api"}
        \/ g = "mixed-default" /\ ModesIn(g) = {"api-project", "general-api"}
  BY DEF DefaultId, DefaultOrder, ModesIn, ModesOf
<1>2. {"subscription-runtime", "consumer-cli", "api-project", "general-api"} \subseteq Mode
  BY DEF Mode, ModesOf
<1> QED BY <1>1, <1>2 DEF FixedManual, CapableModes

\* Rebuilding from the accounts there are gives a group that fits.
LEMMA RebuiltFits ==
  ASSUME NEW g \in DefaultId, NEW old, NEW table, old # NoGroup => Fits(old, table)
  PROVE  Fits(Rebuilt(g, old, table), table)
<1> DEFINE new == Rebuilt(g, old, table)
<1>1. new.members = {a \in AccountId : table[a] \in ModesIn(g)}
  BY DEF Rebuilt
<1>2. new.members \subseteq Present(table)
  BY <1>1, DefaultModes, NoneIsNoMode DEF Present
<1>3. \/ new.manual \in new.members \cup {NoOne}
      \/ old # NoGroup /\ new.manual = old.manual
  <2> DEFINE kept == IF old = NoGroup THEN FreshGroup("HEALTH_FIRST") ELSE old
  <2>1. new.manual = NoOne \/ new.manual = kept.manual
    BY DEF Rebuilt
  <2>2. FreshGroup("HEALTH_FIRST").manual = NoOne
    BY DEF FreshGroup
  <2> QED BY <2>1, <2>2
<1>4. Named(new) \subseteq Present(table)
  BY <1>2, <1>3 DEF Fits, Named
<1>5. new.strategy # "MANUAL" => g \notin FixedManual
  BY DEF Rebuilt
<1> QED BY <1>1, <1>4, <1>5, DefaultModes DEF Fits

\* A group that fits does so when the accounts gain a row, and without an account
\* when they lose it.
LEMMA FitsMore ==
  ASSUME NEW group, NEW a \in AccountId, NEW mode \in Mode,
         NEW table \in [AccountId -> Mode \cup {NoAccount}], table[a] = NoAccount,
         Fits(group, table)
  PROVE  Fits(group, [table EXCEPT ![a] = mode])
BY NoneIsNoMode DEF Fits, Named, Present

LEMMA FitsLess ==
  ASSUME NEW group \in Group, NEW a \in AccountId,
         NEW table \in [AccountId -> Mode \cup {NoAccount}],
         Fits(group, table)
  PROVE  Fits(Without(group, a), [table EXCEPT ![a] = NoAccount])
<1>1. group # NoGroup
  BY RoutingGroupsAssumption
<1>2. Without(group, a) = [strategy |-> group.strategy, enabled |-> group.enabled,
                           manual |-> IF group.manual = a THEN NoOne ELSE group.manual,
                           members |-> group.members \ {a}]
  BY <1>1 DEF Without, Group
<1>3. Named(Without(group, a)) \subseteq Named(group) \ {a}
  BY <1>2, RoutingGroupsAssumption DEF Named
<1>4. Named(group) \ {a} \subseteq Present([table EXCEPT ![a] = NoAccount])
  BY DEF Fits, Present
<1>5. group.members \subseteq AccountId
  BY DEF Group
<1>6. ASSUME group.strategy # "MANUAL", NEW b \in group.members \ {a}
      PROVE  [table EXCEPT ![a] = NoAccount][b] \in CapableModes
  BY <1>5, <1>6 DEF Fits
<1>7. Without(group, a).strategy = group.strategy /\ Without(group, a).members = group.members \ {a}
  BY <1>2
<1> QED BY <1>3, <1>4, <1>6, <1>7 DEF Fits

\* saveGroup prepares a group that names accounts there are.
LEMMA SaveFits ==
  ASSUME TypeOK, NEW t \in Thread, NEW g \in GroupId, NEW group,
         NEW place \in {"idle", "items", "repair"}, Save(t, g, group, place),
         Named(group) \subseteq Present(accounts), accounts' = accounts, known' = known,
         place # "idle" => known[t] = accounts
  PROVE  HeldOK(t)'
<1>1. CASE ManualSound(group)
  <2>1. /\ pc'[t] = "check" /\ then'[t] = place /\ draft'[t] = group
        /\ todo'[t] = IF group.strategy = "MANUAL" THEN {} ELSE group.members
    BY <1>1 DEF Save, Goto, TypeOK
  <2>2. FitsSoFar(group, IF group.strategy = "MANUAL" THEN {} ELSE group.members, accounts)
    BY DEF FitsSoFar
  <2> QED BY <2>1, <2>2 DEF HeldOK, Relies
<1>2. CASE ~ ManualSound(group)
  <2>1. pc'[t] = "idle"
    BY <1>2 DEF Save, Throw, Goto, TypeOK
  <2> QED BY <2>1 DEF HeldOK, Relies
<1> QED BY <1>1, <1>2


\* Places where a thread holds nothing that could be out of date.
Free == {"idle", "list", "number", "insert", "delete", "open", "accounts", "importInsert", "known"}

LEMMA FreeHolds ==
  ASSUME NEW t \in Thread, pc[t] \in Free
  PROVE  HeldOK(t)
BY DEF Free, HeldOK, Relies

\* A row that is inserted, or written back as it is, keeps the groups fitting.
LEMMA GroupsFitMore ==
  ASSUME TypeOK, GroupsFit, groups' = groups, NEW a \in AccountId, NEW mode \in Mode,
         accounts[a] \in {NoAccount, mode}, accounts' = [accounts EXCEPT ![a] = mode]
  PROVE  GroupsFit'
<1>1. CASE accounts[a] = NoAccount
  <2>1. accounts \in [AccountId -> Mode \cup {NoAccount}]
    BY DEF TypeOK
  <2>2. \A g \in GroupId : groups[g] # NoGroup => Fits(groups[g], accounts')
    BY <1>1, <2>1, FitsMore DEF GroupsFit
  <2> QED BY <2>2 DEF GroupsFit
<1>2. CASE accounts[a] = mode
  <2>1. accounts' = accounts
    BY <1>2 DEF TypeOK
  <2> QED BY <2>1 DEF GroupsFit
<1> QED BY <1>1, <1>2

LEMMA StepSerial ==
  ASSUME TypeOK, SerialOK, NEW t \in Thread, Step(t)
  PROVE  SerialOK'
<1> SUFFICES ASSUME GroupsFit, HeldOK(t) PROVE GroupsFit' /\ HeldOK(t)'
  BY OneMoves
<1>a. ASSUME accounts' = accounts, groups' = groups PROVE GroupsFit'
  BY <1>a DEF GroupsFit
<1>b. ASSUME pc' = [pc EXCEPT ![t] = "idle"] \/ \E p \in Free : pc' = [pc EXCEPT ![t] = p]
      PROVE HeldOK(t)'
  <2>1. pc'[t] \in Free
    BY <1>b DEF Free, TypeOK
  <2> QED BY <2>1 DEF Free, HeldOK, Relies
<1>c. ASSUME pc[t] \in {"save", "check"}, known' = known, draft' = draft, accounts' = accounts,
             pc' = [pc EXCEPT ![t] = then[t]], then' = then,
             groups' = [groups EXCEPT ![target[t]] = draft[t]],
             Fits(draft[t], accounts), pc[t] = "check" => todo[t] = {}
      PROVE  GroupsFit' /\ HeldOK(t)'
  <2>1. GroupsFit'
    BY <1>c DEF GroupsFit, TypeOK
  <2>2. pc'[t] = then[t] /\ then[t] \in {"idle", "open", "known", "items", "repair"}
    BY <1>c DEF TypeOK
  <2>3. pc'[t] \in {"items", "repair"} => known'[t] = accounts'
    BY <1>c, <2>2 DEF HeldOK, Relies
  <2> QED BY <2>1, <2>2, <2>3 DEF HeldOK, Relies
<1>1. CASE Refresh(t)
  BY <1>1, <1>a, <1>b DEF Free, Refresh, SyncThen, Goto, tables
<1>2. CASE BeginAdd(t)
  BY <1>2, <1>a, <1>b DEF Free, BeginAdd, Goto, tables
<1>29. CASE NumberAccount(t)
  BY <1>29, <1>a, <1>b DEF Free, NumberAccount, Throw, Goto, tables
<1>30. CASE Configure(t)
  <2>1. CASE pc' = [pc EXCEPT ![t] = "update"]
    <3>1. pc'[t] = "update" /\ accounts'[row'[t].id] = row'[t].mode
      BY <1>30, <2>1 DEF Configure, HeldOK, TypeOK, tables, local
    <3> QED BY <1>30, <1>a, <3>1 DEF Configure, tables, HeldOK, Relies
  <2>2. CASE pc' = [pc EXCEPT ![t] = "idle"]
    BY <1>30, <1>a, <1>b, <2>2 DEF Configure, tables
  <2> QED BY <1>30, <2>1, <2>2 DEF Configure, Throw, Goto
<1>3. CASE BeginEdit(t)
  BY <1>3, <1>a, <1>b DEF Free, BeginEdit, SyncThen, Goto, tables
<1>4. CASE Cancel(t)
  BY <1>4, <1>a, <1>b DEF Free, Cancel, Goto, tables
<1>5. CASE BeginImport(t)
  BY <1>5, <1>a, <1>b DEF Free, BeginImport, Goto, tables
<1>6. CASE ImportSync(t)
  BY <1>6, <1>a, <1>b DEF Free, ImportSync, SyncThen, Goto, tables
<1>7. CASE ImportThrows(t)
  BY <1>7, <1>a, <1>b DEF Free, ImportThrows, Throw, Goto, tables
<1>8. CASE FinishImport(t)
  BY <1>8, <1>a, <1>b DEF Free, FinishImport, SyncThen, Goto, tables
<1>9. CASE RepairDone(t)
  BY <1>9, <1>a, <1>b DEF Free, RepairDone, SyncThen, Goto, tables
<1>10. CASE List(t)
  <2>1. known'[t] = accounts' /\ pc'[t] = "find"
    BY <1>10 DEF List, ListAccounts, Goto, TypeOK, tables
  <2> QED BY <1>10, <1>a, <2>1 DEF List, tables, HeldOK, Relies
<1>11. CASE KnownAccounts(t)
  <2>1. known'[t] = accounts' /\ pc'[t] = "items"
    BY <1>11 DEF KnownAccounts, ListAccounts, Goto, TypeOK, tables
  <2> QED BY <1>11, <1>a, <2>1 DEF KnownAccounts, tables, HeldOK, Relies
<1>12. CASE BeginRepair(t)
  <2>1. known'[t] = accounts' /\ pc'[t] = "copy"
    BY <1>12 DEF BeginRepair, ListAccounts, Goto, TypeOK, tables
  <2> QED BY <1>12, <1>a, <2>1 DEF BeginRepair, tables, HeldOK, Relies
<1>13. CASE CopyGroups(t)
  <2>1. known'[t] = accounts' /\ pc'[t] = "repair"
    BY <1>13 DEF CopyGroups, Goto, TypeOK, tables, HeldOK, Relies
  <2> QED BY <1>13, <1>a, <2>1 DEF CopyGroups, tables, HeldOK, Relies
<1>14. CASE FindAccount(t)
  <2>1. \E a \in AccountId : row'[t] = [id |-> a, mode |-> accounts[a]]
    BY <1>14 DEF FindAccount, Present, TypeOK
  <2>2. pc'[t] \in {"update", "delete"}
    BY <1>14 DEF FindAccount, Goto, TypeOK
  <2> QED BY <1>14, <1>a, <2>1, <2>2 DEF FindAccount, tables, HeldOK, Relies
<1>15. CASE ImportAccount(t)
  <2>1. PICK a, mode :
          /\ a \in AccountId
          /\ mode \in IF accounts[a] # NoAccount THEN {accounts[a]} ELSE Mode
          /\ row' = [row EXCEPT ![t] = [id |-> a, mode |-> mode]]
    BY <1>15 DEF ImportAccount
  <2>2. row'[t].id = a /\ row'[t].mode = mode
    BY <2>1 DEF TypeOK
  <2>3. /\ pc'[t] \in {"importUpdate", "importInsert"}
        /\ pc'[t] = "importUpdate" => accounts[a] # NoAccount
    BY <1>15, <2>2 DEF ImportAccount, Goto, TypeOK
  <2> QED BY <1>15, <1>a, <2>1, <2>2, <2>3 DEF ImportAccount, tables, HeldOK, Relies
<1>16. CASE FindDefault(t)
  <2> DEFINE g == DefaultOrder[next[t]]
  <2>1. g \in DefaultId /\ g \in GroupId /\ known[t] = accounts
    BY <1>16, DefaultsAreGroups DEF FindDefault, DefaultId, TypeOK, HeldOK, Relies
  <2>2. draft'[t] = Rebuilt(g, groups[g], accounts) /\ pc'[t] = "save"
    BY <1>16, <2>1 DEF FindDefault, Goto, TypeOK
  <2>3. Fits(draft'[t], accounts)
    BY <2>1, <2>2, RebuiltFits DEF GroupsFit
  <2> QED BY <1>16, <1>a, <2>1, <2>2, <2>3 DEF FindDefault, tables, HeldOK, Relies
<1>17. CASE SaveDefault(t)
  <2>1. Fits(draft[t], accounts) /\ known[t] = accounts
    BY <1>17 DEF SaveDefault, HeldOK, Relies
  <2>2. CASE next[t] < 5
    <3>1. pc'[t] = "find" /\ known'[t] = accounts'
      BY <1>17, <2>1, <2>2 DEF SaveDefault, Goto, TypeOK
    <3>2. GroupsFit'
      BY <1>17, <2>1 DEF SaveDefault, GroupsFit, TypeOK
    <3> QED BY <3>1, <3>2 DEF HeldOK, Relies
  <2>3. CASE ~ (next[t] < 5)
    BY <1>17, <1>c, <2>1, <2>3 DEF SaveDefault, Goto
  <2> QED BY <2>2, <2>3
<1>18. CASE WriteGroup(t)
  <2>1. Fits(draft[t], accounts)
    BY <1>18 DEF WriteGroup, HeldOK, FitsSoFar, Fits
  <2> QED BY <1>18, <1>c, <2>1 DEF WriteGroup, Goto, local
<1>19. CASE CheckMember(t)
  <2>1. PICK a \in todo[t] :
          /\ todo' = [todo EXCEPT ![t] = @ \ {a}]
          /\ IF accounts[a] \in CapableModes THEN UNCHANGED pc ELSE Throw(t)
    BY <1>19 DEF CheckMember
  <2>2. CASE accounts[a] \in CapableModes
    <3>1. FitsSoFar(draft[t], todo'[t], accounts)
      BY <1>19, <2>1, <2>2 DEF CheckMember, HeldOK, FitsSoFar, TypeOK
    <3> QED BY <1>19, <1>a, <2>1, <2>2, <3>1 DEF CheckMember, tables, HeldOK, Relies
  <2>3. CASE accounts[a] \notin CapableModes
    BY <1>19, <1>a, <1>b, <2>1, <2>3 DEF CheckMember, Throw, Goto, tables
  <2> QED BY <2>2, <2>3
<1>20. CASE Insert(t)
  <2>1. CASE accounts[row[t].id] = NoAccount
    <3>1. GroupsFit'
      BY <1>20, <2>1, GroupsFitMore DEF Insert, TypeOK
    <3>2. CASE SyncThen(t, "idle")
      BY <1>b, <3>1, <3>2 DEF SyncThen, Goto, Free
    <3>3. CASE Goto(t, "configure")
      <4>1. pc'[t] = "configure" /\ accounts'[row'[t].id] = row'[t].mode
        BY <1>20, <2>1, <3>3 DEF Insert, Goto, TypeOK, local
      <4> QED BY <3>1, <4>1 DEF HeldOK, Relies
    <3> QED BY <1>20, <2>1, <3>2, <3>3 DEF Insert
  <2>2. CASE accounts[row[t].id] # NoAccount
    BY <1>20, <1>a, <1>b, <2>2 DEF Insert, Throw, Goto
  <2> QED BY <2>1, <2>2
<1>21. CASE ImportInsert(t)
  <2>1. CASE accounts[row[t].id] = NoAccount
    <3>1. GroupsFit'
      BY <1>21, <2>1, GroupsFitMore DEF ImportInsert, TypeOK
    <3> QED BY <1>21, <1>b, <2>1, <3>1 DEF ImportInsert, Goto, Free
  <2>2. CASE accounts[row[t].id] # NoAccount
    BY <1>21, <1>a, <1>b, <2>2 DEF ImportInsert, Throw, Goto
  <2> QED BY <2>1, <2>2
<1>22. CASE Update(t)
  <2>1. accounts' = accounts
    BY <1>22 DEF Update, Rewrite, HeldOK, TypeOK
  <2> QED BY <1>22, <1>a, <1>b, <2>1 DEF Update, SyncThen, Goto, Free
<1>23. CASE ImportUpdate(t)
  <2>1. accounts' = accounts
    BY <1>23 DEF ImportUpdate, Rewrite, HeldOK, TypeOK
  <2> QED BY <1>23, <1>a, <1>b, <2>1 DEF ImportUpdate, Goto, Free
<1>24. CASE Delete(t)
  <2>1. row[t].id \in AccountId /\ accounts \in [AccountId -> Mode \cup {NoAccount}]
    BY <1>24 DEF Delete, TypeOK
  <2>2. ASSUME NEW g \in GroupId, groups'[g] # NoGroup
        PROVE  Fits(groups'[g], accounts')
    <3>1. groups'[g] = Without(groups[g], row[t].id) /\ groups[g] \in Group
      BY <1>24, <2>2 DEF Delete, Without, TypeOK
    <3>2. Fits(groups[g], accounts)
      BY <3>1, RoutingGroupsAssumption DEF GroupsFit
    <3> QED BY <1>24, <2>1, <3>1, <3>2, FitsLess DEF Delete
  <2>3. GroupsFit'
    BY <2>2 DEF GroupsFit
  <2> QED BY <1>24, <1>b, <2>3 DEF Delete, SyncThen, Goto, Free
<1>25. CASE Open(t)
  <2>1. PICK g \in GroupId :
          draft' = [draft EXCEPT ![t] =
            IF groups[g] # NoGroup THEN groups[g] ELSE FreshGroup("MANUAL")]
    BY <1>25 DEF Open
  <2>2. Fits(FreshGroup("MANUAL"), accounts)
    BY DEF FreshGroup, Fits, Named
  <2>3. Fits(draft'[t], accounts) /\ pc'[t] = "edit"
    BY <1>25, <2>1, <2>2 DEF Open, Goto, GroupsFit, TypeOK
  <2> QED BY <1>25, <1>a, <2>3 DEF Open, tables, HeldOK, Relies
<1>26. CASE Edit(t)
  <2>1. PICK group : /\ Save(t, target[t], group, "idle")
                     /\ Named(group) \subseteq Present(accounts)
    <3>1. Fits(draft[t], accounts) /\ draft[t] \in Group
      BY <1>26 DEF Edit, HeldOK, TypeOK
    <3>2. ASSUME NEW strategy, NEW members \in SUBSET Present(accounts),
                 NEW group \in Chosen(draft[t], strategy, members)
          PROVE  Named(group) \subseteq Present(accounts)
      BY <3>1, <3>2 DEF Chosen, Named, Group
    <3>3. draft[t].members \in SUBSET Present(accounts)
      BY <3>1 DEF Fits, Named
    <3>4. CASE EditCustom(t)
      BY <3>2, <3>4 DEF EditCustom
    <3>5. CASE EditDefault(t)
      BY <3>2, <3>3, <3>5 DEF EditDefault
    <3> QED BY <1>26, <3>4, <3>5 DEF Edit
  <2>2. target[t] \in GroupId
    BY DEF TypeOK
  <2> QED BY <1>26, <1>a, <2>1, <2>2, SaveFits DEF Edit, tables
<1>27. CASE ImportGroup(t)
  <2>1. known[t] = accounts
    BY <1>27 DEF ImportGroup, HeldOK, Relies
  <2>2. PICK g, group : /\ g \in GroupId /\ Save(t, g, group, "items")
                      /\ Named(group) \subseteq Present(accounts)
    BY <1>27, <2>1 DEF ImportGroup, Named
  <2> QED BY <1>27, <1>a, <2>1, <2>2, SaveFits DEF ImportGroup, tables
<1>28. CASE RepairGroup(t)
  <2>1. known[t] = accounts
    BY <1>28 DEF RepairGroup, HeldOK, Relies
  <2>2. PICK g \in GroupId : /\ copies[t][g] \in Group
                            /\ Save(t, g, Cleaned(copies[t][g], accounts), "repair")
    <3>1. \A g \in Broken(t) : g \in GroupId /\ copies[t][g] \in Group
      BY DEF Broken, TypeOK
    <3> QED BY <1>28, <2>1, <3>1 DEF RepairGroup
  <2>3. Named(Cleaned(copies[t][g], accounts)) \subseteq Present(accounts)
    BY <2>2 DEF Cleaned, Named, Group
  <2> QED BY <1>28, <1>a, <2>1, <2>2, <2>3, SaveFits DEF RepairGroup, tables
<1> QED BY <1>1, <1>2, <1>3, <1>4, <1>5, <1>6, <1>7, <1>8, <1>9, <1>10, <1>11, <1>12, <1>13, <1>14, <1>15, <1>16, <1>17, <1>18, <1>19, <1>20, <1>21, <1>22, <1>23, <1>24, <1>25, <1>26, <1>27, <1>28, <1>29, <1>30 DEF Step

LEMMA InitSerial == Init => SerialOK
<1> SUFFICES ASSUME Init PROVE SerialOK
  OBVIOUS
<1>1. \A g \in DefaultId : Fits(Rebuilt(g, NoGroup, accounts), accounts)
  BY RebuiltFits
<1>2. GroupsFit
  BY <1>1 DEF Init, GroupsFit
<1> QED BY <1>2 DEF Init, SerialOK, OneAtWork, HeldOK, Relies

LEMMA SerialInvariance == Spec => []SerialOK
<1>1. TypeOK /\ SerialOK /\ [Next]_vars => SerialOK'
  <2>1. ASSUME SerialOK, UNCHANGED vars PROVE SerialOK'
    BY <2>1 DEF SerialOK, OneAtWork, GroupsFit, HeldOK, Relies, vars
  <2> QED BY <2>1, StepSerial DEF Next
<1> QED BY InitSerial, <1>1, GroupsTypeCorrect, PTL DEF Spec

\* While operations do not overlap, groups name accounts there are.
THEOREM References == Spec => []ReferencesExist
<1>1. SerialOK => ReferencesExist
  BY DEF SerialOK, GroupsFit, Fits, ReferencesExist
<1> QED BY <1>1, SerialInvariance, PTL

\* While operations do not overlap, automatic groups have capable members only.
THEOREM AutomaticCapable == Spec => []AutomaticIsCapable
<1>1. SerialOK => AutomaticIsCapable
  BY DEF SerialOK, GroupsFit, Fits, AutomaticIsCapable
<1> QED BY <1>1, SerialInvariance, PTL

-----------------------------------------------------------------------------
(* A sync that nobody disturbs.                                             *)

\* A step leaves alone what another thread holds, and tells it of its writes.
LEMMA Elsewhere ==
  ASSUME TypeOK, NEW t \in Thread, Step(t), NEW u \in Thread, u # t
  PROVE  /\ pc'[u] = pc[u] /\ known'[u] = known[u] /\ next'[u] = next[u]
         /\ target'[u] = target[u] /\ draft'[u] = draft[u]
         /\ alone'[u] => alone[u] /\ accounts' = accounts /\ groups' = groups
<1>0. pc'[u] = pc[u]
  BY Moves
<1>1. CASE Refresh(t)
  BY <1>0, <1>1 DEF TypeOK, Refresh, tables, local
<1>2. CASE List(t)
  BY <1>0, <1>2 DEF TypeOK, List, ListAccounts, tables, local
<1>3. CASE FindDefault(t)
  BY <1>0, <1>3 DEF TypeOK, FindDefault, tables, local
<1>4. CASE SaveDefault(t)
  BY <1>0, <1>4 DEF TypeOK, SaveDefault, Disturb, tables, local
<1>5. CASE CheckMember(t)
  BY <1>0, <1>5 DEF TypeOK, CheckMember, tables, local
<1>6. CASE WriteGroup(t)
  BY <1>0, <1>6 DEF TypeOK, WriteGroup, Disturb, tables, local
<1>7. CASE BeginAdd(t)
  BY <1>0, <1>7 DEF TypeOK, BeginAdd, tables, local
<1>29. CASE NumberAccount(t)
  BY <1>0, <1>29 DEF TypeOK, NumberAccount, tables, local
<1>30. CASE Configure(t)
  BY <1>0, <1>30 DEF TypeOK, Configure, tables, local
<1>8. CASE Insert(t)
  BY <1>0, <1>8 DEF TypeOK, Insert, Disturb, tables, local
<1>9. CASE FindAccount(t)
  BY <1>0, <1>9 DEF TypeOK, FindAccount, tables, local
<1>10. CASE Update(t)
  BY <1>0, <1>10 DEF TypeOK, Update, Disturb, Rewrite, tables, local
<1>11. CASE Delete(t)
  BY <1>0, <1>11 DEF TypeOK, Delete, Disturb, tables, local
<1>12. CASE BeginEdit(t)
  BY <1>0, <1>12 DEF TypeOK, BeginEdit, tables, local
<1>13. CASE Open(t)
  BY <1>0, <1>13 DEF TypeOK, Open, tables, local
<1>14. CASE Edit(t)
  BY <1>0, <1>14 DEF TypeOK, Edit, EditCustom, EditDefault, Save, tables, local
<1>15. CASE Cancel(t)
  BY <1>0, <1>15 DEF TypeOK, Cancel, tables, local
<1>16. CASE BeginImport(t)
  BY <1>0, <1>16 DEF TypeOK, BeginImport, tables, local
<1>17. CASE ImportAccount(t)
  BY <1>0, <1>17 DEF TypeOK, ImportAccount, tables, local
<1>18. CASE ImportUpdate(t)
  BY <1>0, <1>18 DEF TypeOK, ImportUpdate, Disturb, Rewrite, tables, local
<1>19. CASE ImportInsert(t)
  BY <1>0, <1>19 DEF TypeOK, ImportInsert, Disturb, tables, local
<1>20. CASE ImportSync(t)
  BY <1>0, <1>20 DEF TypeOK, ImportSync, tables, local
<1>21. CASE KnownAccounts(t)
  BY <1>0, <1>21 DEF TypeOK, KnownAccounts, ListAccounts, tables, local
<1>22. CASE ImportGroup(t)
  BY <1>0, <1>22 DEF TypeOK, ImportGroup, Save, tables, local
<1>23. CASE ImportThrows(t)
  BY <1>0, <1>23 DEF TypeOK, ImportThrows, tables, local
<1>24. CASE FinishImport(t)
  BY <1>0, <1>24 DEF TypeOK, FinishImport, tables, local
<1>25. CASE BeginRepair(t)
  BY <1>0, <1>25 DEF TypeOK, BeginRepair, ListAccounts, tables, local
<1>26. CASE CopyGroups(t)
  BY <1>0, <1>26 DEF TypeOK, CopyGroups, tables, local
<1>27. CASE RepairGroup(t)
  BY <1>0, <1>27 DEF TypeOK, RepairGroup, Save, tables, local
<1>28. CASE RepairDone(t)
  BY <1>0, <1>28 DEF TypeOK, RepairDone, tables, local
<1> QED BY <1>1, <1>2, <1>3, <1>4, <1>5, <1>6, <1>7, <1>8, <1>9, <1>10, <1>11, <1>12, <1>13, <1>14, <1>15, <1>16, <1>17, <1>18, <1>19, <1>20, <1>21, <1>22, <1>23, <1>24, <1>25, <1>26, <1>27, <1>28, <1>29, <1>30 DEF Step

Kind(g, table) == {a \in AccountId : table[a] \in ModesIn(g)}

\* A sync rebuilds from the accounts it has listed, and as long as nobody else
\* writes, from the group that is stored, and the groups it has saved are those
\* the accounts call for.
SyncOK(t) ==
  /\ pc[t] = "save" => /\ target[t] = DefaultOrder[next[t]]
                       /\ draft[t].members = Kind(target[t], known[t])
  /\ pc[t] = "save" /\ alone[t] =>
       draft[t] = Rebuilt(target[t], groups[target[t]], known[t])
  /\ pc[t] \in {"find", "save"} /\ alone[t] =>
       /\ known[t] = accounts
       /\ \A i \in 1 .. 5 : i < next[t] =>
            groups[DefaultOrder[i]].members = Kind(DefaultOrder[i], accounts)

HealOK == \A t \in Thread : SyncOK(t)

\* What a save of the sync adds to the groups saved before.
LEMMA SaveHeals ==
  ASSUME TypeOK, NEW t \in Thread, SyncOK(t), SaveDefault(t), alone[t],
         NEW i \in 1 .. 5, i <= next[t]
  PROVE  groups'[DefaultOrder[i]].members = Kind(DefaultOrder[i], accounts)
<1>1. /\ target[t] = DefaultOrder[next[t]] /\ known[t] = accounts
      /\ draft[t].members = Kind(target[t], accounts)
      /\ i < next[t] => groups[DefaultOrder[i]].members = Kind(DefaultOrder[i], accounts)
  BY DEF SaveDefault, SyncOK
<1>2. groups' = [groups EXCEPT ![target[t]] = draft[t]] /\ DefaultOrder[i] \in GroupId
  BY DefaultsAreGroups DEF SaveDefault
<1>3. groups \in [GroupId -> Group \cup {NoGroup}] /\ next[t] \in 1 .. 5
  BY DEF TypeOK
<1>4. CASE DefaultOrder[i] = target[t]
  BY <1>1, <1>2, <1>3, <1>4
<1>5. CASE DefaultOrder[i] # target[t]
  <2>1. i < next[t]
    BY <1>1, <1>3, <1>5
  <2> QED BY <1>1, <1>2, <1>3, <1>5, <2>1
<1> QED BY <1>4, <1>5

LEMMA StepHeals ==
  ASSUME TypeOK, HealOK, NEW t \in Thread, Step(t)
  PROVE  HealOK'
<1>1. ASSUME NEW u \in Thread, u # t PROVE SyncOK(u)'
  BY <1>1, Elsewhere DEF HealOK, SyncOK
<1>2. SyncOK(t)'
  <2>1. SyncOK(t)
    BY DEF HealOK
  <2>2. CASE List(t)
    <3>1. pc'[t] = "find" /\ next'[t] = 1 /\ known'[t] = accounts'
      BY <2>2 DEF List, ListAccounts, Goto, TypeOK, tables
    <3>2. \A i \in 1 .. 5 : ~ (i < next'[t])
      BY <3>1
    <3> QED BY <3>1, <3>2 DEF SyncOK
  <2>3. CASE FindDefault(t)
    <3>1. /\ pc[t] = "find" /\ pc'[t] = "save" /\ alone' = alone /\ next' = next
          /\ known' = known /\ accounts' = accounts /\ groups' = groups
          /\ target'[t] = DefaultOrder[next[t]]
          /\ draft'[t] = Rebuilt(target'[t], groups[target'[t]], known[t])
      BY <2>3 DEF FindDefault, Goto, TypeOK, tables
    <3>2. draft'[t].members = Kind(target'[t], known'[t])
      BY <3>1 DEF Rebuilt, Kind
    <3> QED BY <2>1, <3>1, <3>2 DEF SyncOK
  <2>4. CASE SaveDefault(t)
    <3>1. CASE next[t] < 5
      <4>1. /\ pc[t] = "save" /\ pc'[t] = "find" /\ next'[t] = next[t] + 1
            /\ known' = known /\ accounts' = accounts
            /\ alone'[t] => alone[t]
        BY <2>4, <3>1 DEF SaveDefault, Goto, Disturb, TypeOK
      <4>2. ASSUME alone[t], NEW i \in 1 .. 5, i < next'[t]
            PROVE  groups'[DefaultOrder[i]].members = Kind(DefaultOrder[i], accounts')
        <5>1. next[t] \in 1 .. 5
          BY DEF TypeOK
        <5>2. i <= next[t]
          BY <4>1, <4>2, <5>1
        <5>3. groups'[DefaultOrder[i]].members = Kind(DefaultOrder[i], accounts)
          BY <2>1, <2>4, <4>2, <5>2, SaveHeals
        <5> QED BY <4>1, <5>3 DEF Kind
      <4>3. alone'[t] => known'[t] = accounts'
        BY <2>1, <4>1 DEF SyncOK
      <4> QED BY <4>1, <4>2, <4>3 DEF SyncOK
    <3>2. CASE ~ (next[t] < 5)
      <4>1. pc'[t] = then[t] /\ then[t] \notin {"find", "save"}
        BY <2>4, <3>2 DEF SaveDefault, Goto, TypeOK
      <4> QED BY <4>1 DEF SyncOK
    <3> QED BY <3>1, <3>2
  <2>5. ASSUME pc'[t] \notin {"find", "save"} PROVE SyncOK(t)'
    BY <2>5 DEF SyncOK
  <2>6. CASE Silent(t)
    <3>1. CASE List(t)
      BY <2>2, <3>1
    <3>2. pc'[t] \notin {"find", "save"} \/ List(t)
      BY <2>6 DEF Silent, Refresh, CheckMember, BeginAdd, NumberAccount, Insert, Configure,
         FindAccount, Update, BeginEdit,
         Cancel, BeginImport, ImportAccount, ImportUpdate, ImportInsert, ImportSync,
         KnownAccounts, ImportThrows, FinishImport, BeginRepair, CopyGroups, RepairDone,
         SyncThen, Throw, Goto, TypeOK, tables, local
    <3> QED BY <2>5, <3>1, <3>2
  <2>7. CASE WriteGroup(t) \/ Delete(t) \/ Open(t)
    BY <2>5, <2>7 DEF WriteGroup, Delete, Open, SyncThen, Goto, TypeOK
  <2>8. ASSUME NEW g, NEW group, NEW place, Save(t, g, group, place) PROVE SyncOK(t)'
    BY <2>5, <2>8 DEF Save, Throw, Goto, TypeOK
  <2>9. CASE Edit(t) \/ ImportGroup(t) \/ RepairGroup(t)
    BY <2>8, <2>9 DEF Edit, EditCustom, EditDefault, ImportGroup, RepairGroup
  <2> QED BY <2>3, <2>4, <2>6, <2>7, <2>9 DEF Step, Silent
<1> QED BY <1>1, <1>2 DEF HealOK

\* Only the sync itself leaves the place where it saves.
LEMMA OnlySaves ==
  ASSUME TypeOK, NEW t \in Thread, Step(t), pc[t] = "save"
  PROVE  SaveDefault(t)
BY DEF Step, Begin, Refresh, List, FindDefault, CheckMember, WriteGroup, BeginAdd,
   NumberAccount, Insert, Configure,
   FindAccount, Update, Delete, BeginEdit, Open, Edit, Cancel, BeginImport, ImportAccount,
   ImportUpdate, ImportInsert, ImportSync, KnownAccounts, ImportGroup, ImportThrows,
   FinishImport, BeginRepair, CopyGroups, RepairGroup, RepairDone

LEMMA LastSaveHeals ==
  ASSUME TypeOK, HealOK, NEW u \in Thread, Step(u), NEW t \in Thread,
         pc[t] = "save", next[t] = 5, alone[t], pc'[t] # "save", NEW g \in DefaultId
  PROVE  groups'[g].members = {a \in AccountId : accounts'[a] \in ModesIn(g)}
<1>1. u = t
  BY Elsewhere
<1>2. SaveDefault(t) /\ SyncOK(t)
  BY <1>1, OnlySaves DEF HealOK
<1>3. PICK i \in 1 .. 5 : g = DefaultOrder[i]
  BY DEF DefaultId
<1>4. groups'[DefaultOrder[i]].members = Kind(DefaultOrder[i], accounts)
  BY <1>2, <1>3, SaveHeals
<1>5. accounts' = accounts
  BY <1>2 DEF SaveDefault
<1> QED BY <1>3, <1>4, <1>5 DEF Kind

LEMMA HealInvariance == Spec => []HealOK
<1>1. Init => HealOK
  BY DEF Init, HealOK, SyncOK
<1>2. TypeOK /\ HealOK /\ [Next]_vars => HealOK'
  <2>1. ASSUME HealOK, UNCHANGED vars PROVE HealOK'
    BY <2>1 DEF HealOK, SyncOK, vars
  <2> QED BY <2>1, StepHeals DEF Next
<1> QED BY <1>1, <1>2, GroupsTypeCorrect, PTL DEF Spec

\* A sync that no other thread wrote into ends with every default group holding
\* exactly the accounts of its kind, however many threads there are.
THEOREM SyncsHeal == Spec => SyncHeals
<1>1. TypeOK /\ HealOK /\ [Next]_vars =>
        [\A t \in Thread :
           pc[t] = "save" /\ next[t] = 5 /\ alone[t] /\ pc'[t] # "save" =>
             \A g \in DefaultId :
               groups'[g].members = {a \in AccountId : accounts'[a] \in ModesIn(g)}]_vars
  BY LastSaveHeals DEF Next
<1> QED BY <1>1, HealInvariance, GroupsTypeCorrect, PTL DEF Spec, SyncHeals

LEMMA RebuiltKeeps ==
  ASSUME NEW g, NEW old, NEW table, old # NoGroup
  PROVE  LET new == Rebuilt(g, old, table)
         IN  /\ new.enabled = old.enabled
             /\ g \notin FixedManual => new.strategy = old.strategy
             /\ old.manual \in new.members => new.manual = old.manual
BY DEF Rebuilt

LEMMA SaveKeepsChoices ==
  ASSUME TypeOK, HealOK, NEW u \in Thread, Step(u), NEW t \in Thread,
         pc[t] = "save", alone[t], pc'[t] # "save", groups[target[t]] # NoGroup
  PROVE  LET old == groups[target[t]]
             new == groups'[target[t]]
         IN  /\ new.enabled = old.enabled
             /\ target[t] \notin FixedManual => new.strategy = old.strategy
             /\ old.manual \in new.members => new.manual = old.manual
<1>1. u = t
  BY Elsewhere
<1>2. SaveDefault(t) /\ SyncOK(t)
  BY <1>1, OnlySaves DEF HealOK
<1>3. groups'[target[t]] = Rebuilt(target[t], groups[target[t]], known[t])
  BY <1>2 DEF SaveDefault, SyncOK, TypeOK
<1> QED BY <1>3, RebuiltKeeps

\* A sync that no other thread wrote into keeps the switch, the strategy and the
\* manual member the operator gave a default group.
THEOREM SyncsKeepChoices == Spec => SyncKeepsChoices
<1>1. TypeOK /\ HealOK /\ [Next]_vars =>
        [\A t \in Thread :
           pc[t] = "save" /\ alone[t] /\ pc'[t] # "save" /\ groups[target[t]] # NoGroup =>
             LET old == groups[target[t]]
                 new == groups'[target[t]]
             IN  /\ new.enabled = old.enabled
                 /\ target[t] \notin FixedManual => new.strategy = old.strategy
                 /\ old.manual \in new.members => new.manual = old.manual]_vars
  BY SaveKeepsChoices DEF Next
<1> QED BY <1>1, HealInvariance, GroupsTypeCorrect, PTL DEF Spec, SyncKeepsChoices

=============================================================================
