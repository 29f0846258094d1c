----------------------- MODULE RoutingSelectionProofs -----------------------
(***************************************************************************)
(* Theorems about RoutingSelection, for every group, every set of callers  *)
(* and however often accounts fail and the operator edits them.            *)
(***************************************************************************)
EXTENDS RoutingSelection, RoutingPolicyProofs

-----------------------------------------------------------------------------
(* Types.                                                                  *)

\* The group keeps its members, and is enabled.
MembersOK == group.members = setup.members /\ group.enabled

Shape == TypeOK /\ MembersOK

\* What a strategy decides is a record of an account and a cursor.
LEMMA DecisionRecord ==
  ASSUME NEW g, NEW candidates, NEW t, NEW excludedIds,
         NEW d \in selectInternal(g, candidates, t, excludedIds)
  PROVE  d = [id |-> d.id, index |-> d.index]
<1> DEFINE selectable == Selectable(g, candidates, t, excludedIds)
<1>1. CASE g.strategy = "MANUAL"
  <2> DEFINE ids == {c.id : c \in selectable} \cap {g.manual}
  <2>1. d \in {[id |-> i, index |-> g.lastIndex] : i \in ids} \/ d \in {}
    BY <1>1, Zenon DEF selectInternal
  <2> HIDE DEF ids
  <2> QED BY <2>1
<1>2. CASE g.strategy = "ROUND_ROBIN"
  <2>1. d = [id |-> g.members[d.index + 1], index |-> d.index]
    BY <1>2, ScanDecision
  <2>2. d.id = g.members[d.index + 1]
    BY <2>1
  <2> QED BY <2>1, <2>2
<1>3. CASE g.strategy \notin {"MANUAL", "ROUND_ROBIN"}
  <2> DEFINE least == {c \in selectable : \A o \in selectable \ {c} : Before(g.strategy, c, o)}
  <2>1. d \in {[id |-> c.id, index |-> g.lastIndex] : c \in least} \/ d \in {}
    BY <1>3, Zenon DEF selectInternal
  <2> HIDE DEF least
  <2> QED BY <2>1
<1> QED BY <1>1, <1>2, <1>3

LEMMA SetupType ==
  ASSUME TypeOK
  PROVE  /\ IsSetup(setup)
         /\ Member \subseteq AccountId /\ setup.members \in MemberList
         /\ IsFiniteSet(Member) /\ Cardinality(Member) = Len(setup.members)
<1>1. IsSetup(setup)
  BY RoutingSelectionAssumption DEF TypeOK
<1>2. setup.members \in Seq(AccountId) /\ IsInjective(setup.members)
  BY <1>1 DEF IsSetup
<1>3. Member \subseteq AccountId
  BY <1>2 DEF Member, Range
<1>4. IsFiniteSet(Member) /\ Cardinality(Member) = Len(setup.members)
  BY <1>2, InjectiveCount DEF Member
<1> QED BY <1>1, <1>2, <1>3, <1>4 DEF MemberList

\* There is one candidate for every member, with its row.
LEMMA Candidates ==
  ASSUME Shape, NEW g, g.members = setup.members
  PROVE  LET C == candidatesFor(g)
         IN  /\ C \subseteq Candidate /\ IsFiniteSet(C)
             /\ \A c \in C : c.id \in Member /\ c.row = accounts[c.id]
             /\ \A a \in Member : \E c \in C : c.id = a /\ c.row = accounts[a]
             /\ \A c \in C, d \in C : c.id = d.id => c = d
<1> DEFINE cand(a) == [id |-> a, row |-> accounts[a], used |-> latestUsedPercent(quota[a])]
           C == candidatesFor(g)
<1>1. Range(g.members) = Member
  BY DEF Member
<1>2. C = {cand(a) : a \in Member}
  BY <1>1 DEF candidatesFor
<1>3. \A a \in Member : cand(a) \in Candidate /\ cand(a).id = a /\ cand(a).row = accounts[a]
  <2>1. ASSUME NEW a \in Member PROVE latestUsedPercent(quota[a]) \in Nat \cup {UnknownUse}
    BY LatestUsedType DEF Shape, TypeOK
  <2>2. ASSUME NEW a \in Member PROVE a \in AccountId /\ accounts[a] \in Row
    BY SetupType DEF Shape, TypeOK
  <2> QED BY <2>1, <2>2 DEF Candidate
<1>4. IsFiniteSet(C)
  <2> DEFINE f == [a \in Member |-> cand(a)]
  <2> HIDE DEF cand
  <2>1. f \in Surjection(Member, C)
    BY <1>2 DEF Surjection
  <2> QED BY <2>1, SetupType, FS_Surjection DEF Shape
<1> HIDE DEF cand, C
<1>5. C \subseteq Candidate
  BY <1>2, <1>3
<1>6. \A c \in C : c.id \in Member /\ c.row = accounts[c.id] /\ c = cand(c.id)
  BY <1>2, <1>3
<1>7. \A a \in Member : \E c \in C : c.id = a /\ c.row = accounts[a]
  BY <1>2, <1>3
<1> QED BY <1>4, <1>5, <1>6, <1>7 DEF C

\* select gives a member of the group that may be used now.
LEMMA DecisionType ==
  ASSUME Shape, NEW excludedIds, NEW d \in Decisions(excludedIds)
  PROVE  /\ d \in [id : Member, index : Int]
         /\ d.id \notin excludedIds /\ eligible(accounts[d.id], now)
         /\ group.strategy # "MANUAL" => d.id \in Open(group, accounts, now)
<1>1. group \in Group /\ group.members = setup.members
  BY DEF Shape, TypeOK, MembersOK
<1>2. \E c \in candidatesFor(group) :
        /\ c.id = d.id /\ d.id \notin excludedIds
        /\ eligible(c.row, now)
        /\ IF group.strategy = "MANUAL" THEN d.id = group.manual ELSE automaticRoutingCapable(c.row)
  BY DecisionIsSelectable DEF Decisions
<1>3. d.index \in Int /\ d = [id |-> d.id, index |-> d.index]
  BY <1>1, DecisionIndex, DecisionRecord DEF Decisions
<1>4. \A c \in candidatesFor(group) : c.id \in Member /\ c.row = accounts[c.id]
  BY <1>1, Candidates
<1> QED BY <1>1, <1>2, <1>3, <1>4 DEF Open, Member

\* What a preview names is an account, or none.
LEMMA NamedType ==
  ASSUME Shape, NEW excludedIds
  PROVE  Named(Decisions(excludedIds)) \in AccountId \cup {NoAccount}
<1>1. \A d \in Decisions(excludedIds) : d.id \in AccountId
  BY DecisionType, SetupType DEF Shape
<1> QED BY <1>1 DEF Named

\* The counts of the properties stay counts.
LEMMA WaitedType ==
  ASSUME Shape, setup' = setup
  PROVE  /\ \A rows, t : StillWaiting(rows, t) => waited' \in [Member' -> Nat]
         /\ \A t, id : PassedOver(t, id) => waited' \in [Member' -> Nat]
         /\ waited' = [a \in Member |-> 0] => waited' \in [Member' -> Nat]
         /\ waited' = waited => waited' \in [Member' -> Nat]
         /\ Member' = Member
<1>1. Member' = Member
  BY DEF Member
<1>2. waited \in [Member -> Nat] /\ Len(setup.members) \in Nat
  BY SetupType DEF Shape, TypeOK, MemberList
<1>3. ASSUME NEW rows, NEW t, StillWaiting(rows, t) PROVE waited' \in [Member' -> Nat]
  BY <1>1, <1>2, <1>3 DEF StillWaiting
<1>4. ASSUME NEW t, NEW id, PassedOver(t, id) PROVE waited' \in [Member' -> Nat]
  <2>1. \A a \in Member : AtMost(waited[a] + 1, Len(setup.members)) \in Nat
    BY <1>2 DEF AtMost
  <2> QED BY <1>1, <1>2, <1>4, <2>1 DEF PassedOver
<1> QED BY <1>1, <1>2, <1>3, <1>4

LEMMA GroupType ==
  ASSUME Shape, NEW i \in Int
  PROVE  LET g == [group EXCEPT !.lastIndex = i]
         IN  g \in Group /\ g.members = setup.members /\ g.enabled
                /\ g.strategy = group.strategy /\ g.manual = group.manual /\ g.lastIndex = i
BY DEF Shape, TypeOK, MembersOK, Group

\* Forecasts.
ForecastType == [ids : Seq(AccountId \cup {NoAccount}), by : {"none", "health", "groups"},
                 follower : Caller \cup {"none"}]

LEMMA ForecastUsedType ==
  ASSUME Shape, NEW t \in Caller, ForecastUsed(t)
  PROVE  forecast' \in ForecastType
<1>1. forecast \in ForecastType
  BY DEF Shape, TypeOK, ForecastType
<1>2. NoForecast \in ForecastType
  BY DEF ForecastType, NoForecast
<1>3. CASE Follows(t)
  <2>1. forecast.ids \in Seq(AccountId \cup {NoAccount}) /\ forecast.ids # <<>>
    <3>1. forecast.ids \in Seq(AccountId \cup {NoAccount})
      BY <1>1 DEF ForecastType
    <3>2. Len(forecast.ids) = 2 \/ Len(forecast.ids) = 1
      BY <1>3, Zenon DEF Follows
    <3>3. \A s \in Seq(AccountId \cup {NoAccount}) : Len(s) = 2 \/ Len(s) = 1 => s # <<>>
      <4> TAKE s \in Seq(AccountId \cup {NoAccount})
      <4>1. ASSUME Len(s) = 2 \/ Len(s) = 1, s = <<>> PROVE FALSE
        BY <4>1
      <4> QED BY <4>1
    <3> QED BY <3>1, <3>2, <3>3, Zenon
  <2>2. Tail(forecast.ids) \in Seq(AccountId \cup {NoAccount})
    BY <2>1, HeadTailProperties
  <2> QED BY <1>1, <1>3, <2>2 DEF ForecastUsed, ForecastType
<1> QED BY <1>2, <1>3 DEF ForecastUsed

LEMMA SelectShape ==
  ASSUME Shape, NEW t \in Caller, Select(t)
  PROVE  Shape'
<1>1. /\ UNCHANGED <<setup, accounts, group, quota, now, edits>>
      /\ ForecastUsed(t) /\ pc[t] = "idle"
  BY DEF Select
<1>2. MembersOK' /\ Member' = Member
  BY <1>1 DEF Shape, MembersOK, Member
<1>3. forecast' \in ForecastType
  BY <1>1, ForecastUsedType
<1>4. /\ decision' \in [Caller -> [id : AccountId \cup {NoAccount}, index : Int]]
      /\ tried' \in [Caller -> SUBSET Member]
      /\ pc' \in [Caller -> {"idle", "cursor", "chosen"}]
      /\ waited' \in [Member' -> Nat]
  <2>1. CASE UNCHANGED <<pc, waited>> /\ decision' = [decision EXCEPT ![t] = NoDecision]
             /\ tried' = [tried EXCEPT ![t] = {}]
    BY <1>1, <2>1, WaitedType DEF Shape, TypeOK, NoDecision
  <2>2. ASSUME NEW d \in Decisions(tried[t]),
               decision' = [decision EXCEPT ![t] = d],
               tried' = [tried EXCEPT ![t] = @ \cup {d.id}],
               pc' = [pc EXCEPT ![t] = IF group.strategy = "ROUND_ROBIN" THEN "cursor" ELSE "chosen"],
               PassedOver(t, d.id)
        PROVE  <1>4!1 /\ <1>4!2 /\ <1>4!3 /\ <1>4!4
    <3>1. d \in [id : AccountId \cup {NoAccount}, index : Int] /\ d.id \in Member
      BY DecisionType, SetupType DEF Shape
    <3>2. waited' \in [Member' -> Nat]
      BY <1>1, <2>2, WaitedType
    <3> QED BY <2>2, <3>1, <3>2 DEF Shape, TypeOK
  <2> QED BY <2>1, <2>2 DEF Select
<1> QED BY <1>1, <1>2, <1>3, <1>4 DEF Shape, TypeOK, ForecastType

LEMMA OutcomeShape ==
  ASSUME Shape, NEW t \in Caller, StoreCursor(t) \/ RecordFailure(t) \/ RecordSuccess(t)
  PROVE  Shape'
<1>1. UNCHANGED <<setup, quota, now, decision, edits>>
  BY DEF StoreCursor, RecordFailure, RecordSuccess
<1>2. Member' = Member /\ now \in Nat
  BY <1>1 DEF Member, Shape, TypeOK
<1>3. CASE StoreCursor(t)
  <2>1. decision[t].index \in Int
    BY DEF Shape, TypeOK
  <2>2. group' \in Group /\ group'.members = setup.members /\ group'.enabled
    BY <1>3, <2>1, GroupType DEF StoreCursor
  <2> QED BY <1>1, <1>2, <1>3, <2>2 DEF StoreCursor, Shape, TypeOK, MembersOK
<1>4. CASE RecordFailure(t)
  <2>1. accounts' \in [Member -> Row]
    <3>1. \A x \in Row : FailureRecorded(x, now) \in Row
      BY <1>2, FailureRecordedType
    <3>2. accounts' = [accounts EXCEPT ![decision[t].id] = FailureRecorded(@, now)]
      BY <1>4 DEF RecordFailure
    <3> QED BY <3>1, <3>2 DEF Shape, TypeOK
  <2>2. waited' \in [Member' -> Nat]
    BY <1>1, <1>4, WaitedType DEF RecordFailure
  <2> QED BY <1>1, <1>2, <1>4, <2>1, <2>2 DEF RecordFailure, Shape, TypeOK, MembersOK
<1>5. CASE RecordSuccess(t)
  <2>1. accounts' \in [Member -> Row]
    <3>1. \A x \in Row : SuccessRecorded(x) \in Row
      BY SuccessRecordedType
    <3>2. accounts' = [accounts EXCEPT ![decision[t].id] = SuccessRecorded(@)]
      BY <1>5 DEF RecordSuccess
    <3> QED BY <3>1, <3>2 DEF Shape, TypeOK
  <2> QED BY <1>1, <1>2, <1>5, <2>1 DEF RecordSuccess, Shape, TypeOK, MembersOK, NoForecast
<1> QED BY <1>3, <1>4, <1>5

LEMMA ScreenShape ==
  ASSUME Shape, RoutingHealth \/ PreviewSelection
  PROVE  Shape'
<1>1. UNCHANGED <<setup, accounts, quota, now, pc, tried, decision>>
  BY DEF RoutingHealth, PreviewSelection
<1>2. Member' = Member
  BY <1>1 DEF Member
<1>3. CASE RoutingHealth
  <2> DEFINE primary == Named(Decisions({}))
             backup  == Named(Decisions({primary}))
  <2>1. primary \in AccountId \cup {NoAccount} /\ backup \in AccountId \cup {NoAccount}
    BY NamedType
  <2>2. /\ UNCHANGED <<group, edits, waited>>
        /\ forecast' = [ids |-> IF primary # NoAccount /\ group.strategy # "MANUAL"
                                THEN <<primary, backup>> ELSE <<primary>>,
                        by |-> "health", follower |-> "none"]
    BY <1>3 DEF RoutingHealth
  <2> HIDE DEF primary, backup
  <2>3. forecast' \in ForecastType
    <3>1. \A p \in AccountId \cup {NoAccount}, b \in AccountId \cup {NoAccount} :
            /\ <<p>> \in Seq(AccountId \cup {NoAccount})
            /\ <<p, b>> \in Seq(AccountId \cup {NoAccount})
      OBVIOUS
    <3>2. <<primary>> \in Seq(AccountId \cup {NoAccount})
          /\ <<primary, backup>> \in Seq(AccountId \cup {NoAccount})
      BY <2>1, <3>1
    <3> QED BY <2>2, <3>2 DEF ForecastType
  <2> QED BY <1>1, <1>2, <2>2, <2>3 DEF Shape, TypeOK, MembersOK, ForecastType
<1>4. CASE PreviewSelection
  <2>1. /\ edits' = edits + 1 /\ waited' = [a \in Member |-> 0]
        /\ forecast' = [ids |-> <<Named(Decisions({}))>>, by |-> "groups", follower |-> "none"]
        /\ group' = group \/ \E d \in Decisions({}) : group' = [group EXCEPT !.lastIndex = d.index]
    BY <1>4 DEF PreviewSelection
  <2>2. forecast' \in ForecastType
    BY <2>1, NamedType DEF ForecastType
  <2>3. group' \in Group /\ group'.members = setup.members /\ group'.enabled
    <3>1. CASE group' = group
      BY <3>1 DEF Shape, TypeOK, MembersOK
    <3>2. ASSUME NEW d \in Decisions({}), group' = [group EXCEPT !.lastIndex = d.index]
          PROVE  group' \in Group /\ group'.members = setup.members /\ group'.enabled
      <4>1. d.index \in Int
        BY DecisionType
      <4> QED BY <3>2, <4>1, GroupType
    <3> QED BY <2>1, <3>1, <3>2
  <2>4. waited' \in [Member' -> Nat]
    BY <1>1, <2>1, WaitedType
  <2> QED BY <1>1, <1>2, <2>1, <2>2, <2>3, <2>4 DEF Shape, TypeOK, MembersOK, ForecastType
<1> QED BY <1>3, <1>4

LEMMA EditShape ==
  ASSUME Shape, Edit, NEW a \in Member,
         SetAccountEnabled(a) \/ SetAccountPriority(a) \/ RecordQuotaSnapshot(a) \/ SaveGroup
  PROVE  Shape'
<1>1. UNCHANGED <<setup, now, pc, tried, decision>> /\ edits' \in Nat /\ forecast' \in ForecastType
  BY DEF Edit, Shape, TypeOK, ForecastType, NoForecast
<1>2. Member' = Member
  BY <1>1 DEF Member
<1>3. CASE SetAccountEnabled(a)
  <2>1. accounts' \in [Member -> Row] /\ UNCHANGED <<group, quota>>
    <3>1. accounts' = [accounts EXCEPT ![a].enabled = ~ @] /\ accounts \in [Member -> Row]
          /\ UNCHANGED <<group, quota>>
      BY <1>3 DEF SetAccountEnabled, Shape, TypeOK
    <3>2. \A x \in Row : [x EXCEPT !.enabled = ~ @] \in Row
      BY DEF Row
    <3>3. accounts' = [accounts EXCEPT ![a] = [accounts[a] EXCEPT !.enabled = ~ @]]
      BY <3>1
    <3>4. PICK x \in Row : x = [accounts[a] EXCEPT !.enabled = ~ @]
      BY <3>1, <3>2
    <3> QED BY <3>1, <3>3, <3>4
  <2>2. waited' \in [Member' -> Nat]
    BY <1>1, <1>3, WaitedType DEF SetAccountEnabled
  <2> QED BY <1>1, <1>2, <2>1, <2>2 DEF Shape, TypeOK, MembersOK, ForecastType
<1>4. CASE SetAccountPriority(a)
  <2>1. accounts' \in [Member -> Row] /\ UNCHANGED <<group, quota, waited>>
    <3>1. PICK p \in {50, 100} : accounts' = [accounts EXCEPT ![a].priority = p]
      BY <1>4 DEF SetAccountPriority
    <3>2. accounts \in [Member -> Row] /\ UNCHANGED <<group, quota, waited>>
      BY <1>4 DEF SetAccountPriority, Shape, TypeOK
    <3>3. PICK x \in Row : x = [accounts[a] EXCEPT !.priority = p]
      BY <3>1, <3>2 DEF Row
    <3>4. accounts' = [accounts EXCEPT ![a] = x]
      BY <3>1, <3>3
    <3> QED BY <3>2, <3>4
  <2> QED BY <1>1, <1>2, <2>1 DEF Shape, TypeOK, MembersOK, ForecastType
<1>5. CASE RecordQuotaSnapshot(a)
  <2> DEFINE Entry == [snapshot : Nat, used : Nat]
  <2>1. UNCHANGED <<accounts, group, waited>>
    BY <1>5 DEF RecordQuotaSnapshot
  <2>2. PICK windows \in setup.snapshots :
          quota' = [quota EXCEPT ![a] =
            [i \in DOMAIN windows |-> [snapshot |-> edits, used |-> windows[i]]] \o @]
    BY <1>5 DEF RecordQuotaSnapshot
  <2>3. windows \in Seq(Nat) /\ edits \in Nat
    BY SetupType DEF Shape, TypeOK, IsSetup
  <2>4. [i \in DOMAIN windows |-> [snapshot |-> edits, used |-> windows[i]]] \in Seq(Entry)
    <3>1. DOMAIN windows = 1 .. Len(windows) /\ Len(windows) \in Nat
      BY <2>3, LenProperties
    <3>2. \A i \in 1 .. Len(windows) : windows[i] \in Nat
      BY <2>3, ElementOfSeq
    <3>3. [i \in DOMAIN windows |-> [snapshot |-> edits, used |-> windows[i]]]
            \in [1 .. Len(windows) -> Entry]
      BY <2>3, <3>1, <3>2
    <3> HIDE DEF Entry
    <3> QED BY <3>1, <3>3, SeqDef
  <2>5. \A b \in Member : quota'[b] \in Seq(Entry)
    <3>1. ASSUME NEW b \in Member PROVE quota'[b] \in Seq(Entry)
      <4> DEFINE new == [i \in DOMAIN windows |-> [snapshot |-> edits, used |-> windows[i]]]
      <4>1. quota[b] \in Seq(Entry)
        BY DEF Shape, TypeOK
      <4> HIDE DEF new
      <4>2. new \o quota[b] \in Seq(Entry)
        BY <2>4, <4>1, ConcatProperties DEF new
      <4> QED BY <2>2, <4>1, <4>2 DEF new
    <3> QED BY <3>1
  <2> QED BY <1>1, <1>2, <2>1, <2>5 DEF Shape, TypeOK, MembersOK, ForecastType
<1>6. CASE SaveGroup
  <2>1. PICK s \in setup.strategies, m \in Member :
          group' = [group EXCEPT !.strategy = s, !.lastIndex = -1,
                                 !.manual = IF s = "MANUAL" THEN m ELSE NoAccount]
    BY <1>6 DEF SaveGroup
  <2>2. s \in Strategy /\ m \in AccountId
    BY SetupType DEF Shape, IsSetup
  <2>3. group' \in Group /\ group'.members = setup.members /\ group'.enabled
    <3> DEFINE manual == IF s = "MANUAL" THEN m ELSE NoAccount
    <3>1. manual \in AccountId \cup {NoAccount}
      BY <2>2
    <3>2. group' = [group EXCEPT !.strategy = s, !.lastIndex = -1, !.manual = manual]
      BY <2>1
    <3> HIDE DEF manual
    <3>3. group \in Group /\ group.members = setup.members /\ group.enabled
      BY DEF Shape, TypeOK, MembersOK
    <3>4. group' = [strategy |-> s, enabled |-> group.enabled, manual |-> manual,
                    lastIndex |-> -1, members |-> group.members]
      BY <3>2, <3>3 DEF Group
    <3>5. -1 \in Int /\ group.enabled \in BOOLEAN /\ group.members \in MemberList
      BY <3>3 DEF Group
    <3>6. group' \in Group
      BY <2>2, <3>1, <3>4, <3>5 DEF Group
    <3> QED BY <3>3, <3>4, <3>6
  <2>4. waited' \in [Member' -> Nat] /\ UNCHANGED <<accounts, quota>>
    BY <1>1, <1>6, WaitedType DEF SaveGroup
  <2> QED BY <1>1, <1>2, <2>3, <2>4 DEF Shape, TypeOK, MembersOK, ForecastType
<1> QED BY <1>3, <1>4, <1>5, <1>6

LEMMA TickShape == ASSUME Shape, Tick PROVE Shape'
<1>1. /\ UNCHANGED <<setup, accounts, group, quota, pc, tried, decision, edits>>
      /\ now' \in Nat /\ forecast' \in ForecastType
  BY DEF Tick, Shape, TypeOK, ForecastType, NoForecast
<1>2. waited' \in [Member' -> Nat] /\ Member' = Member
  BY <1>1, WaitedType DEF Tick
<1> QED BY <1>1, <1>2 DEF Shape, TypeOK, MembersOK, ForecastType

LEMMA ShapeInvariance == Spec => []Shape
<1>1. Init => Shape
  <2> SUFFICES ASSUME Init PROVE Shape
    OBVIOUS
  <2>1. IsSetup(setup)
    BY RoutingSelectionAssumption DEF Init
  <2>2. setup.members \in MemberList /\ Member \subseteq AccountId
    BY <2>1 DEF IsSetup, MemberList, Member, Range
  <2>3. group \in Group /\ MembersOK
    BY <2>1, <2>2 DEF Init, Group, MembersOK, IsSetup
  <2>4. accounts \in [Member -> Row]
    BY <2>1 DEF Init, IsSetup, Member
  <2> QED BY <2>1, <2>3, <2>4 DEF Init, Shape, TypeOK, NoDecision, NoForecast
<1>2. Shape /\ [Next]_vars => Shape'
  <2> SUFFICES ASSUME Shape, [Next]_vars PROVE Shape'
    OBVIOUS
  <2>0. setup.callers \subseteq Caller
    BY SetupType DEF Shape, IsSetup
  <2>1. ASSUME NEW t \in setup.callers,
               Select(t) \/ StoreCursor(t) \/ RecordFailure(t) \/ RecordSuccess(t)
        PROVE  Shape'
    BY <2>0, <2>1, SelectShape, OutcomeShape
  <2>2. ASSUME NEW a \in Member,
               SetAccountEnabled(a) \/ SetAccountPriority(a) \/ RecordQuotaSnapshot(a)
        PROVE  Shape'
    BY <2>2, EditShape DEF SetAccountEnabled, SetAccountPriority, RecordQuotaSnapshot
  <2>3. CASE SaveGroup
    <3>1. \E a \in Member : TRUE
      BY <2>3 DEF SaveGroup
    <3> QED BY <2>3, <3>1, EditShape DEF SaveGroup
  <2>4. CASE UNCHANGED vars
    BY <2>4 DEF vars, Shape, TypeOK, MembersOK, Member
  <2> QED BY <2>1, <2>2, <2>3, <2>4, ScreenShape, TickShape DEF Next
<1> QED BY <1>1, <1>2, PTL DEF Spec

\* Type correctness: every state is one of TypeOK.
THEOREM TypeCorrect == Spec => []TypeOK
<1>1. Shape => TypeOK
  BY DEF Shape
<1> QED BY <1>1, ShapeInvariance, PTL

-----------------------------------------------------------------------------
(* One decision.                                                           *)

\* Who is selectable, in terms of the rows.
LEMMA SelectableIs ==
  ASSUME Shape, NEW g \in Group, g.members = setup.members, g.strategy # "MANUAL", NEW excludedIds
  PROVE  {c.id : c \in Selectable(g, candidatesFor(g), now, excludedIds)}
           = Open(g, accounts, now) \ excludedIds
<1> DEFINE C == candidatesFor(g)
           ids == {c.id : c \in Selectable(g, C, now, excludedIds)}
           open == Open(g, accounts, now) \ excludedIds
<1>1. /\ \A c \in C : c.id \in Member /\ c.row = accounts[c.id]
      /\ \A a \in Member : \E c \in C : c.id = a /\ c.row = accounts[a]
  BY Candidates
<1>2. open = {a \in Member : a \notin excludedIds /\ automaticRoutingCapable(accounts[a])
                               /\ eligible(accounts[a], now)}
  BY DEF Open, Member
<1> HIDE DEF C
<1>3. ASSUME NEW a \in ids PROVE a \in open
  BY <1>1, <1>2, <1>3 DEF Selectable
<1>4. ASSUME NEW a \in open PROVE a \in ids
  <2>1. PICK c \in C : c.id = a /\ c.row = accounts[a]
    BY <1>1, <1>2, <1>4
  <2>2. c \in Selectable(g, C, now, excludedIds)
    BY <1>2, <1>4, <2>1 DEF Selectable
  <2> QED BY <2>1, <2>2
<1> QED BY <1>3, <1>4 DEF C

\* There are no two decisions, under any strategy.
LEMMA DecisionUnique ==
  ASSUME Shape, NEW g \in Group, g.members = setup.members, NEW excludedIds,
         NEW d \in selectInternal(g, candidatesFor(g), now, excludedIds),
         NEW e \in selectInternal(g, candidatesFor(g), now, excludedIds)
  PROVE  d = e
BY Candidates, SelectionUnique

\* What is named is what is decided.
LEMMA NamedIs ==
  ASSUME Shape, NEW g \in Group, g.members = setup.members, NEW excludedIds
  PROVE  LET ds == selectInternal(g, candidatesFor(g), now, excludedIds)
         IN  \A d \in ds : Named(ds) = d.id
<1> DEFINE ds == selectInternal(g, candidatesFor(g), now, excludedIds)
<1>1. \A d \in ds, e \in ds : d = e
  BY DecisionUnique
<1> HIDE DEF ds
<1>2. ASSUME NEW d \in ds PROVE Named(ds) = d.id
  <2>1. (CHOOSE e \in ds : TRUE) = d
    BY <1>1
  <2> QED BY <2>1 DEF Named
<1> QED BY <1>2 DEF ds

\* There is one whenever an account is open, and it names an open one.
LEMMA DecisionExists ==
  ASSUME Shape, NEW g \in Group, g.members = setup.members, g.enabled, g.strategy # "MANUAL",
         NEW excludedIds
  PROVE  LET ds   == selectInternal(g, candidatesFor(g), now, excludedIds)
             open == Open(g, accounts, now) \ excludedIds
         IN  /\ ds = {} <=> open = {}
             /\ \A d \in ds : d.id \in open
<1> DEFINE C    == candidatesFor(g)
           ds   == selectInternal(g, C, now, excludedIds)
           open == Open(g, accounts, now) \ excludedIds
<1>1. /\ C \subseteq Candidate /\ IsFiniteSet(C)
      /\ \A c \in C : c.id \in Member /\ c.row = accounts[c.id]
      /\ \A c \in C, d \in C : c.id = d.id => c = d
  BY Candidates
<1>2. {c.id : c \in Selectable(g, C, now, excludedIds)} = open
  BY SelectableIs
<1>3. \A d \in ds : d.id \in open
  <2>1. ASSUME NEW d \in ds PROVE d.id \in open
    <3>1. PICK c \in C : /\ c.id = d.id /\ d.id \notin excludedIds /\ eligible(c.row, now)
                         /\ automaticRoutingCapable(c.row)
      BY DecisionIsSelectable
    <3> QED BY <1>1, <3>1 DEF Open, Member
  <2> QED BY <2>1
<1>4. ASSUME open # {} PROVE ds # {}
  <2>1. Selectable(g, C, now, excludedIds) # {}
    BY <1>2, <1>4
  <2>2. \A c \in C : c.id \in Range(g.members)
    BY <1>1 DEF Member
  <2> HIDE DEF C
  <2> QED BY <1>1, <2>1, <2>2, SelectionExists
<1> QED BY <1>3, <1>4

\* select has exactly one answer whenever there is an account it may give.
THEOREM OneAnswer == Spec => []OneDecision
<1>1. Shape => OneDecision
  <2> SUFFICES ASSUME Shape, NEW s \in Strategy \ {"MANUAL"}, NEW excludedIds \in SUBSET Member
               PROVE  LET g == [group EXCEPT !.strategy = s]
                          open == Open(group, accounts, now) \ excludedIds
                          ds == selectInternal(g, candidatesFor(g), now, excludedIds)
                      IN  /\ Cardinality(ds) = IF open = {} THEN 0 ELSE 1
                          /\ \A d \in ds : d.id \in open
    BY DEF OneDecision
  <2> DEFINE g == [group EXCEPT !.strategy = s]
             open == Open(group, accounts, now) \ excludedIds
             ds == selectInternal(g, candidatesFor(g), now, excludedIds)
  <2>1. /\ g \in Group /\ g.members = setup.members /\ g.enabled /\ g.strategy # "MANUAL"
        /\ Open(g, accounts, now) = Open(group, accounts, now)
    BY DEF Shape, TypeOK, MembersOK, Group, Open
  <2> HIDE DEF g
  <2>2. (ds = {} <=> open = {}) /\ \A d \in ds : d.id \in open
    BY <2>1, DecisionExists
  <2>3. \A d \in ds, e \in ds : d = e
    BY <2>1, DecisionUnique
  <2> HIDE DEF ds, open
  <2>4. CASE open = {}
    <3>1. ds = {} /\ Cardinality(ds) = 0
      BY <2>2, <2>4, FS_EmptySet
    <3> QED BY <2>2, <2>4, <3>1 DEF ds, open, g
  <2>5. CASE open # {}
    <3>1. PICK d \in ds : ds = {d}
      BY <2>2, <2>3, <2>5
    <3>2. Cardinality(ds) = 1
      BY <3>1, FS_Singleton
    <3> QED BY <2>2, <2>5, <3>2 DEF ds, open, g
  <2> QED BY <2>4, <2>5
<1> QED BY <1>1, ShapeInvariance, PTL

-----------------------------------------------------------------------------
(* Fairness of the rotation.  What an account has waited for and how far   *)
(* the scan still has to go to it are together less than the members.      *)

\* The cursor of the group when t has stored the one it was given.
Cursor(t) == IF pc[t] = "cursor" THEN decision[t].index ELSE group.lastIndex

Scanned(t) == [group EXCEPT !.lastIndex = Cursor(t)]

RotationOK ==
  \A t \in Caller : setup.callers = {t} =>
    /\ \A a \in tried[t] : waited[a] = 0
    /\ group.strategy = "ROUND_ROBIN" =>
         \A i \in 0 .. Len(setup.members) - 1 :
           waited[setup.members[i + 1]] + ScanOffset(Scanned(t), i) < Len(setup.members)

LEMMA MovedCursor ==
  ASSUME NEW g \in Group, NEW i \in Int
  PROVE  LET k == [g EXCEPT !.lastIndex = i]
         IN  k \in Group /\ k.members = g.members /\ k.strategy = g.strategy /\ k.lastIndex = i
BY DEF Group

\* Nobody waits longer, and the scan is where it was.
LEMMA RotationStay ==
  ASSUME Shape, RotationOK, UNCHANGED setup,
         \A t \in Caller : setup.callers = {t} =>
           /\ tried'[t] \subseteq tried[t] /\ Scanned(t)' = Scanned(t)
           /\ group'.strategy = group.strategy,
         \A a \in Member : waited'[a] \in {0, waited[a]}
  PROVE  RotationOK'
<1> SUFFICES ASSUME NEW t \in Caller, setup.callers = {t}
             PROVE  /\ \A a \in tried'[t] : waited'[a] = 0
                    /\ group'.strategy = "ROUND_ROBIN" =>
                         \A i \in 0 .. Len(setup.members) - 1 :
                           waited'[setup.members[i + 1]] + ScanOffset(Scanned(t)', i)
                             < Len(setup.members)
  BY DEF RotationOK
<1>1. \A a \in tried'[t] : waited'[a] = 0
  BY DEF RotationOK, Shape, TypeOK
<1>2. ASSUME group'.strategy = "ROUND_ROBIN", NEW i \in 0 .. Len(setup.members) - 1
      PROVE  waited'[setup.members[i + 1]] + ScanOffset(Scanned(t)', i) < Len(setup.members)
  <2> DEFINE a == setup.members[i + 1]
             n == Len(setup.members)
  <2>1. waited[a] + ScanOffset(Scanned(t), i) < n
    BY <1>2 DEF RotationOK
  <2>2. a \in Member
    BY SetupType DEF Shape, MemberList, Member, Range
  <2>3. waited[a] \in Nat /\ n \in Nat
    BY <2>2, SetupType DEF Shape, TypeOK, MemberList
  <2>4. ScanOffset(Scanned(t), i) \in Int
    <3>1. Cursor(t) \in Int /\ group \in Group /\ group.members = setup.members
      BY DEF Shape, TypeOK, MembersOK, Cursor, Group
    <3>2. Scanned(t) \in Group /\ Scanned(t).members = setup.members
      BY <3>1, MovedCursor DEF Scanned
    <3> QED BY <3>2, ScanOffsetIs
  <2>5. waited'[a] \in {0, waited[a]} /\ Scanned(t)' = Scanned(t)
    BY <2>2
  <2> HIDE DEF a, n
  <2>6. waited'[a] + ScanOffset(Scanned(t), i) < n
    BY <2>1, <2>3, <2>4, <2>5
  <2> QED BY <2>5, <2>6 DEF a, n
<1> QED BY <1>1, <1>2

\* Everybody waits anew.
LEMMA RotationReset ==
  ASSUME Shape, Shape', UNCHANGED setup, waited' = [a \in Member |-> 0]
  PROVE  RotationOK'
<1> SUFFICES ASSUME NEW t \in Caller
             PROVE  /\ \A a \in tried'[t] : waited'[a] = 0
                    /\ \A i \in 0 .. Len(setup.members) - 1 :
                         waited'[setup.members[i + 1]] + ScanOffset(Scanned(t)', i)
                           < Len(setup.members)
  BY DEF RotationOK
<1>1. Member' = Member
  BY DEF Member
<1>2. \A a \in tried'[t] : waited'[a] = 0
  BY <1>1 DEF Shape, TypeOK
<1>3. ASSUME NEW i \in 0 .. Len(setup.members) - 1
      PROVE  waited'[setup.members[i + 1]] + ScanOffset(Scanned(t)', i) < Len(setup.members)
  <2> DEFINE c == IF pc'[t] = "cursor" THEN decision'[t].index ELSE group'.lastIndex
  <2>1. c \in Int /\ group' \in Group /\ group'.members = setup.members
    BY DEF Shape, TypeOK, MembersOK, Group
  <2>2. Scanned(t)' = [group' EXCEPT !.lastIndex = c]
    BY DEF Scanned, Cursor
  <2> HIDE DEF c
  <2>3. Scanned(t)' \in Group /\ Scanned(t)'.members = setup.members
    BY <2>1, <2>2, MovedCursor
  <2>4. ScanOffset(Scanned(t)', i) < Len(setup.members) /\ ScanOffset(Scanned(t)', i) \in Nat
        /\ Len(setup.members) \in Nat
    BY <2>3, ScanOffsetIs
  <2>5. waited'[setup.members[i + 1]] = 0
    BY SetupType DEF Shape, MemberList, Member, Range
  <2> QED BY <2>4, <2>5
<1> QED BY <1>2, <1>3

\* A selection: who is passed over is nearer to its turn by one or more.
LEMMA RotationSelect ==
  ASSUME Shape, RotationOK, NEW t \in Caller, setup.callers = {t}, Select(t)
  PROVE  RotationOK'
<1>1. UNCHANGED <<setup, group, accounts, now>> /\ pc[t] = "idle" /\ group.members = setup.members
  BY DEF Select, Shape, MembersOK
<1>2. CASE Decisions(tried[t]) = {}
  <2>1. UNCHANGED <<pc, waited>> /\ tried'[t] = {} /\ group' = group
    BY <1>2 DEF Select, Shape, TypeOK
  <2>2. Scanned(t)' = Scanned(t)
    BY <1>1, <2>1 DEF Scanned, Cursor
  <2> QED BY <1>1, <2>1, <2>2, RotationStay
<1>3. ASSUME NEW d \in Decisions(tried[t]),
             decision' = [decision EXCEPT ![t] = d],
             tried' = [tried EXCEPT ![t] = @ \cup {d.id}],
             pc' = [pc EXCEPT ![t] = IF group.strategy = "ROUND_ROBIN" THEN "cursor" ELSE "chosen"],
             PassedOver(t, d.id)
      PROVE  RotationOK'
  <2> DEFINE n == Len(setup.members)
  <2>1. /\ tried'[t] = tried[t] \cup {d.id} /\ decision'[t] = d
        /\ group.strategy = "ROUND_ROBIN" => pc'[t] = "cursor"
        /\ tried[t] \subseteq Member /\ waited \in [Member -> Nat] /\ n \in Nat /\ d.id \in Member
    BY <1>3, DecisionType, SetupType DEF Shape, TypeOK, MemberList
  <2>2. \A a \in Member :
          waited'[a] = IF a = d.id \/ a \notin Open(group, accounts, now) THEN 0
                       ELSE IF a \in tried[t] THEN waited[a] ELSE AtMost(waited[a] + 1, n)
    BY <1>3 DEF PassedOver
  <2>3. \A a \in tried[t] : waited[a] = 0
    BY DEF RotationOK
  <2>4. \A a \in tried'[t] : waited'[a] = 0
    BY <2>1, <2>2, <2>3
  <2>5. ASSUME group.strategy = "ROUND_ROBIN", NEW i \in 0 .. n - 1
        PROVE  waited'[setup.members[i + 1]] + ScanOffset(Scanned(t)', i) < n
    <3> DEFINE a == setup.members[i + 1]
               k == [group EXCEPT !.lastIndex = d.index]
    <3>1. a \in Member
      BY SetupType DEF Shape, MemberList, Member, Range
    <3>2. Scanned(t)' = k
      BY <1>1, <2>1, <2>5 DEF Scanned, Cursor
    <3>3. group \in Group /\ d.index \in Int
      BY DecisionType DEF Shape, TypeOK
    <3>4. k \in Group /\ k.members = group.members
      BY <3>3, MovedCursor
    <3>5. /\ d.index \in 0 .. n - 1 /\ d.id = setup.members[d.index + 1]
          /\ \A j \in 0 .. n - 1 :
               setup.members[j + 1] \in Open(group, accounts, now) \ tried[t] =>
                 ScanOffset(group, d.index) <= ScanOffset(group, j)
      <4> DEFINE ids == {c.id : c \in Selectable(group, candidatesFor(group), now, tried[t])}
      <4>1. ids = Open(group, accounts, now) \ tried[t]
        BY <1>1, <2>5, <3>3, SelectableIs
      <4>2. /\ d.index \in 0 .. Len(group.members) - 1
            /\ d = [id |-> group.members[d.index + 1], index |-> d.index]
            /\ \A j \in 0 .. Len(group.members) - 1 :
                 group.members[j + 1] \in ids => ScanOffset(group, d.index) <= ScanOffset(group, j)
        BY <2>5, ScanDecision DEF Decisions
      <4>3. d.id = group.members[d.index + 1]
        BY <4>2
      <4> HIDE DEF ids
      <4> QED BY <1>1, <4>1, <4>2, <4>3
    <3>6. /\ n \in Nat \ {0} /\ ScanOffset(group, i) \in 0 .. n - 1 /\ ScanOffset(k, i) \in 0 .. n - 1
          /\ ScanOffset(group, d.index) \in 0 .. n - 1
      BY <1>1, <3>3, <3>4, <3>5, ScanOffsetIs
    <3>7. ScanOffset(k, i) = IF ScanOffset(group, d.index) < ScanOffset(group, i)
                             THEN ScanOffset(group, i) - ScanOffset(group, d.index) - 1
                             ELSE ScanOffset(group, i) - ScanOffset(group, d.index) - 1 + n
      BY <1>1, <3>3, <3>4, <3>5, ScanMoves
    <3>8. i # d.index => ScanOffset(group, i) # ScanOffset(group, d.index)
      <4> DEFINE s == RoundRobinStart(group)
      <4>1. /\ s \in 0 .. n - 1
            /\ ScanOffset(group, i) = IF s <= i THEN i - s ELSE i - s + n
        BY <1>1, <3>3, ScanOffsetIs
      <4>2. ScanOffset(group, d.index) = IF s <= d.index THEN d.index - s ELSE d.index - s + n
        BY <1>1, <3>3, <3>5, ScanOffsetIs
      <4> HIDE DEF s, n
      <4> QED BY <3>5, <3>6, <4>1, <4>2
    <3> HIDE DEF k
    <3>9. waited[a] + ScanOffset(group, i) < n
      <4>1. Scanned(t) = group
        BY <1>1, <3>3 DEF Scanned, Cursor, Group
      <4> QED BY <2>5, <4>1 DEF RotationOK
    <3>10. CASE waited'[a] = 0
      <4> HIDE DEF n, a
      <4> QED BY <3>2, <3>6, <3>10 DEF a
    <3>11. CASE waited'[a] # 0
      <4>1. a # d.id /\ a \in Open(group, accounts, now) \ tried[t]
        BY <2>2, <2>3, <3>1, <3>11
      <4>2. waited'[a] = AtMost(waited[a] + 1, n) /\ waited[a] \in Nat
        BY <2>1, <2>2, <3>1, <4>1
      <4>3. ScanOffset(group, d.index) < ScanOffset(group, i)
        <5>1. ScanOffset(group, d.index) <= ScanOffset(group, i) /\ i # d.index
          BY <3>5, <4>1
        <5> HIDE DEF n, a
        <5> QED BY <3>6, <3>8, <5>1
      <4> HIDE DEF n, a
      <4>4. waited'[a] <= waited[a] + 1 /\ waited'[a] \in Nat
        BY <3>6, <4>2 DEF AtMost
      <4>5. waited'[a] + ScanOffset(k, i) < n
        BY <3>6, <3>7, <3>9, <4>2, <4>3, <4>4
      <4> QED BY <3>2, <4>5 DEF a
    <3> QED BY <3>10, <3>11
  <2>6. \A u \in Caller : setup.callers = {u} => u = t
    OBVIOUS
  <2> QED BY <1>1, <2>4, <2>5, <2>6 DEF RotationOK
<1> QED BY <1>2, <1>3 DEF Select

LEMMA RotationInvariance == Spec => []RotationOK
<1>1. Init /\ Shape => RotationOK
  <2> SUFFICES ASSUME Init, Shape, NEW t \in Caller, NEW i \in 0 .. Len(setup.members) - 1
               PROVE  /\ tried[t] = {}
                      /\ waited[setup.members[i + 1]] + ScanOffset(Scanned(t), i)
                           < Len(setup.members)
    BY DEF RotationOK, Init
  <2>1. Scanned(t) \in Group /\ Scanned(t).members = setup.members
    <3>1. Cursor(t) \in Int /\ group \in Group /\ group.members = setup.members
      BY DEF Shape, TypeOK, MembersOK, Cursor, Group
    <3> QED BY <3>1, MovedCursor DEF Scanned
  <2>2. /\ ScanOffset(Scanned(t), i) < Len(setup.members) /\ ScanOffset(Scanned(t), i) \in Nat
        /\ Len(setup.members) \in Nat
    BY <2>1, ScanOffsetIs
  <2>3. waited[setup.members[i + 1]] = 0
    BY SetupType DEF Init, Shape, MemberList, Member, Range
  <2> QED BY <2>2, <2>3 DEF Init
<1>2. Shape /\ RotationOK /\ [Next]_vars /\ Shape' => RotationOK'
  <2> SUFFICES ASSUME Shape, RotationOK, [Next]_vars, Shape' PROVE RotationOK'
    OBVIOUS
  <2>0. waited \in [Member -> Nat] /\ group \in Group
    BY DEF Shape, TypeOK
  <2>1. ASSUME NEW t \in setup.callers, Select(t) PROVE RotationOK'
    <3>1. CASE setup.callers = {t}
      BY <2>1, <3>1, SetupType, RotationSelect DEF Shape, IsSetup
    <3>2. CASE setup.callers # {t}
      <4>1. \A u : setup'.callers # {u}
        BY <2>1, <3>2 DEF Select
      <4> QED BY <4>1 DEF RotationOK
    <3> QED BY <3>1, <3>2
  <2>2. ASSUME NEW t \in setup.callers, StoreCursor(t) PROVE RotationOK'
    <3>1. UNCHANGED <<setup, tried, decision, waited>> /\ t \in Caller
      BY <2>2, SetupType DEF StoreCursor, Shape, IsSetup
    <3>2. /\ group' = [group EXCEPT !.lastIndex = decision[t].index]
          /\ pc[t] = "cursor" /\ pc'[t] # "cursor"
      BY <2>2, <3>1 DEF StoreCursor, Shape, TypeOK
    <3>3. group'.strategy = group.strategy
      BY <2>0, <3>2 DEF Group
    <3>4. Cursor(t) = decision[t].index /\ Cursor(t)' = decision[t].index
      BY <2>0, <3>1, <3>2 DEF Cursor, Group
    <3>5. Scanned(t)' = Scanned(t)
      BY <2>0, <3>2, <3>4 DEF Scanned, Group
    <3>6. \A u \in Caller : setup.callers = {u} => u = t
      OBVIOUS
    <3> QED BY <2>0, <3>1, <3>3, <3>5, <3>6, RotationStay
  <2>3. ASSUME NEW t \in setup.callers, RecordFailure(t) \/ RecordSuccess(t) PROVE RotationOK'
    <3>1. UNCHANGED <<setup, group, decision>> /\ t \in Caller
      BY <2>3, SetupType DEF RecordFailure, RecordSuccess, Shape, IsSetup
    <3>2. /\ pc[t] # "cursor" /\ pc'[t] # "cursor" /\ tried'[t] \subseteq tried[t]
          /\ \A a \in Member : waited'[a] \in {0, waited[a]}
      BY <2>0, <2>3, <3>1 DEF RecordFailure, RecordSuccess, StillWaiting, Shape, TypeOK
    <3>3. Scanned(t)' = Scanned(t)
      BY <3>1, <3>2 DEF Scanned, Cursor
    <3>4. \A u \in Caller : setup.callers = {u} => u = t
      OBVIOUS
    <3> QED BY <3>1, <3>2, <3>3, <3>4, RotationStay
  <2>4. CASE PreviewSelection \/ SaveGroup
    BY <2>4, RotationReset DEF PreviewSelection, SaveGroup, Edit
  <2>5. CASE \/ \E a \in Member :
                  SetAccountEnabled(a) \/ SetAccountPriority(a) \/ RecordQuotaSnapshot(a)
             \/ RoutingHealth \/ Tick \/ UNCHANGED vars
    <3>1. UNCHANGED <<setup, group, decision, pc, tried>>
      BY <2>5 DEF SetAccountEnabled, SetAccountPriority, RecordQuotaSnapshot, RoutingHealth, Tick,
                  Edit, vars
    <3>2. \A a \in Member : waited'[a] \in {0, waited[a]}
      BY <2>0, <2>5 DEF SetAccountEnabled, SetAccountPriority, RecordQuotaSnapshot, RoutingHealth,
                        Tick, vars, StillWaiting
    <3>3. \A t \in Caller : Scanned(t)' = Scanned(t)
      BY <3>1 DEF Scanned, Cursor
    <3> QED BY <3>1, <3>2, <3>3, RotationStay
  <2> QED BY <2>1, <2>2, <2>3, <2>4, <2>5 DEF Next
<1> QED BY <1>1, <1>2, ShapeInvariance, PTL DEF Spec

\* A caller that is alone passes over an open account less often than the group
\* has members.
THEOREM Fair == Spec => []RotationFair
<1>1. Shape /\ RotationOK => RotationFair
  <2> SUFFICES ASSUME Shape, RotationOK, group.strategy = "ROUND_ROBIN",
                      Cardinality(setup.callers) = 1, NEW a \in Member
               PROVE  waited[a] < Len(setup.members)
    BY DEF RotationFair
  <2>1. PICK t \in Caller : setup.callers = {t}
    <3>1. setup.callers \subseteq Caller
      BY SetupType DEF Shape, IsSetup
    <3>2. IsFiniteSet(setup.callers)
      BY <3>1, RoutingSelectionAssumption, FS_Subset
    <3>3. \E u : setup.callers = {u}
      BY <3>2, FS_Singleton
    <3> QED BY <3>1, <3>3
  <2>2. setup.members \in MemberList
    BY SetupType DEF Shape
  <2>3. PICK i \in 0 .. Len(setup.members) - 1 : a = setup.members[i + 1]
    <3>1. PICK j \in 1 .. Len(setup.members) : a = setup.members[j]
      BY <2>2 DEF Member, Range, MemberList
    <3>2. j - 1 \in 0 .. Len(setup.members) - 1 /\ j - 1 + 1 = j
      BY <2>2 DEF MemberList
    <3> QED BY <3>1, <3>2
  <2>4. waited[a] + ScanOffset(Scanned(t), i) < Len(setup.members)
    BY <2>1, <2>3 DEF RotationOK
  <2>5. Scanned(t) \in Group /\ Scanned(t).members = setup.members
    <3>1. Cursor(t) \in Int /\ group \in Group /\ group.members = setup.members
      BY DEF Shape, TypeOK, MembersOK, Cursor, Group
    <3> QED BY <3>1, MovedCursor DEF Scanned
  <2>6. ScanOffset(Scanned(t), i) \in Nat /\ waited[a] \in Nat /\ Len(setup.members) \in Nat
    BY <2>5, ScanOffsetIs DEF Shape, TypeOK
  <2> QED BY <2>4, <2>6
<1> QED BY <1>1, ShapeInvariance, RotationInvariance, PTL

-----------------------------------------------------------------------------
(* Forecasts.  What Routing Health has said is what select would decide    *)
(* now, or after the outcome of the first of the selections it has named.  *)

Apart(t) == \A u \in Caller \ {t} : pc[u] = "idle" /\ tried[u] = {}

\* What the group gives t after p, when it has stored its cursor.
After(t, p) == selectInternal(Scanned(t), candidatesFor(group), now, {p})

FirstForecast ==
  /\ Quiet /\ forecast.follower = "none"
  /\ forecast.ids[1] = Named(Decisions({}))
  /\ \/ Len(forecast.ids) = 1 /\ (group.strategy = "MANUAL" \/ Decisions({}) = {})
     \/ /\ Len(forecast.ids) = 2 /\ group.strategy # "MANUAL" /\ Decisions({}) # {}
        /\ forecast.ids[2] = Named(Decisions({forecast.ids[1]}))

BackupForecast(t, p) ==
  /\ forecast.follower = t /\ Apart(t) /\ tried[t] = {p}
  /\ Len(forecast.ids) = 1 /\ group.strategy # "MANUAL"
  /\ pc[t] # "idle" => decision[t].id = p
  /\ forecast.ids[1] = Named(After(t, p))

ForecastOK ==
  forecast.by = "health" =>
    \/ forecast.ids = <<>>
    \/ FirstForecast
    \/ \E t \in Caller, p \in Member : BackupForecast(t, p)

LEMMA NamedNone ==
  ASSUME Shape, NEW excludedIds
  PROVE  Named(Decisions(excludedIds)) = NoAccount <=> Decisions(excludedIds) = {}
<1>1. ASSUME NEW d \in Decisions(excludedIds) PROVE d.id \in Nat
  <2>1. d.id \in Member
    BY DecisionType
  <2>2. Member \subseteq AccountId
    BY SetupType DEF Shape
  <2> QED BY <2>1, <2>2, RoutingPolicyAssumption
<1>2. NoAccount \notin Nat
  BY DEF NoAccount
<1> QED BY <1>1, <1>2 DEF Named

\* A scan gives the open account that it reaches first.
LEMMA ScanGives ==
  ASSUME Shape, NEW g \in Group, g.members = setup.members, g.strategy = "ROUND_ROBIN", g.enabled,
         NEW excludedIds, NEW d \in selectInternal(g, candidatesFor(g), now, excludedIds)
  PROVE  /\ d.index \in 0 .. Len(setup.members) - 1
         /\ d.id = setup.members[d.index + 1]
         /\ d.id \in Open(g, accounts, now) \ excludedIds
         /\ \A i \in 0 .. Len(setup.members) - 1 :
              setup.members[i + 1] \in Open(g, accounts, now) \ excludedIds =>
                ScanOffset(g, d.index) <= ScanOffset(g, i)
<1> DEFINE C == candidatesFor(g)
           ids == {c.id : c \in Selectable(g, C, now, excludedIds)}
<1>1. ids = Open(g, accounts, now) \ excludedIds
  BY SelectableIs
<1> HIDE DEF C
<1>2. /\ d.index \in 0 .. Len(g.members) - 1
      /\ d = [id |-> g.members[d.index + 1], index |-> d.index]
      /\ d.id \in ids
      /\ \A i \in 0 .. Len(g.members) - 1 :
           g.members[i + 1] \in ids => ScanOffset(g, d.index) <= ScanOffset(g, i)
  BY ScanDecision DEF C
<1>3. d.id = g.members[d.index + 1]
  BY <1>2
<1> HIDE DEF ids
<1> QED BY <1>1, <1>2, <1>3

\* In a scan, the second is the first once the cursor has moved to the first.
LEMMA NextInScan ==
  ASSUME Shape, group.strategy = "ROUND_ROBIN", NEW d \in Decisions({})
  PROVE  LET k == [group EXCEPT !.lastIndex = d.index]
         IN  Named(selectInternal(k, candidatesFor(group), now, {d.id}))
               = Named(Decisions({d.id}))
<1> DEFINE k == [group EXCEPT !.lastIndex = d.index]
           n == Len(setup.members)
           open == Open(group, accounts, now)
           X == selectInternal(k, candidatesFor(k), now, {d.id})
           Y == Decisions({d.id})
           D(i) == ScanOffset(group, i)
<1>1. group \in Group /\ group.members = setup.members /\ group.enabled /\ d.index \in Int
  BY DecisionType DEF Shape, TypeOK, MembersOK
<1>2. k \in Group /\ k.members = setup.members /\ k.strategy = "ROUND_ROBIN" /\ k.enabled
      /\ Open(k, accounts, now) = open
  BY <1>1, MovedCursor DEF Group, Open
<1>3. candidatesFor(k) = candidatesFor(group)
  BY <1>1, <1>2 DEF candidatesFor
<1>4. (X = {} <=> open \ {d.id} = {}) /\ (Y = {} <=> open \ {d.id} = {})
  BY <1>1, <1>2, DecisionExists DEF Decisions
<1>5. /\ d.index \in 0 .. n - 1 /\ d.id = setup.members[d.index + 1]
      /\ \A i \in 0 .. n - 1 : setup.members[i + 1] \in open => D(d.index) <= D(i)
  <2>1. d \in selectInternal(group, candidatesFor(group), now, {})
    BY DEF Decisions
  <2> QED BY <1>1, <2>1, ScanGives
<1>6. ASSUME NEW x \in X, NEW y \in Y PROVE x.id = y.id
  <2> DEFINE p == x.index
             q == y.index
             h == d.index
  <2>1. /\ p \in 0 .. n - 1 /\ x.id = setup.members[p + 1] /\ x.id \in open \ {d.id}
        /\ \A i \in 0 .. n - 1 :
             setup.members[i + 1] \in open \ {d.id} => ScanOffset(k, p) <= ScanOffset(k, i)
    <3>1. x \in selectInternal(k, candidatesFor(k), now, {d.id})
      OBVIOUS
    <3> HIDE DEF k, X, Y, D
    <3> QED BY <1>2, <3>1, ScanGives
  <2>2. /\ q \in 0 .. n - 1 /\ y.id = setup.members[q + 1] /\ y.id \in open \ {d.id}
        /\ \A i \in 0 .. n - 1 :
             setup.members[i + 1] \in open \ {d.id} => D(q) <= D(i)
    <3>1. y \in selectInternal(group, candidatesFor(group), now, {d.id})
      BY DEF Decisions
    <3> QED BY <1>1, <3>1, ScanGives
  <2>3. \A i \in 0 .. n - 1 :
          /\ n \in Nat \ {0} /\ D(i) \in 0 .. n - 1 /\ RoundRobinStart(group) \in 0 .. n - 1
          /\ D(i) = IF RoundRobinStart(group) <= i THEN i - RoundRobinStart(group)
                    ELSE i - RoundRobinStart(group) + n
          /\ ScanOffset(k, i) = IF D(h) < D(i) THEN D(i) - D(h) - 1 ELSE D(i) - D(h) - 1 + n
    <3> SUFFICES ASSUME NEW i \in 0 .. n - 1
                 PROVE  /\ n \in Nat \ {0} /\ D(i) \in 0 .. n - 1
                        /\ RoundRobinStart(group) \in 0 .. n - 1
                        /\ D(i) = IF RoundRobinStart(group) <= i THEN i - RoundRobinStart(group)
                                  ELSE i - RoundRobinStart(group) + n
                        /\ ScanOffset(k, i) = IF D(h) < D(i) THEN D(i) - D(h) - 1
                                              ELSE D(i) - D(h) - 1 + n
      OBVIOUS
    <3>1. /\ n \in Nat \ {0} /\ D(i) \in 0 .. n - 1
          /\ RoundRobinStart(group) \in 0 .. n - 1
          /\ D(i) = IF RoundRobinStart(group) <= i THEN i - RoundRobinStart(group)
                    ELSE i - RoundRobinStart(group) + n
      BY <1>1, ScanOffsetIs
    <3>2. ScanOffset(k, i) = IF D(h) < D(i) THEN D(i) - D(h) - 1 ELSE D(i) - D(h) - 1 + n
      BY <1>1, <1>2, <1>5, ScanMoves
    <3> QED BY <3>1, <3>2
  <2> HIDE DEF k, n, open, D, p, q, h
  <2>4. p # h /\ q # h /\ D(h) <= D(p) /\ D(h) <= D(q)
    BY <1>5, <2>1, <2>2 DEF h
  <2>5. ScanOffset(k, p) <= ScanOffset(k, q) /\ D(q) <= D(p)
    BY <2>1, <2>2
  <2>6. h \in 0 .. n - 1
    BY <1>5 DEF h
  <2>7. D(h) < D(p) /\ D(h) < D(q)
    BY <2>1, <2>2, <2>3, <2>4, <2>6
  <2>8. p = q
    BY <2>1, <2>2, <2>3, <2>5, <2>6, <2>7
  <2> QED BY <2>1, <2>2, <2>8
<1>7. (\A x \in X : Named(X) = x.id) /\ (\A y \in Y : Named(Y) = y.id)
  BY <1>1, <1>2, NamedIs DEF Decisions
<1> HIDE DEF X, Y
<1>8. Named(X) = Named(Y)
  <2>1. CASE X = {}
    BY <1>4, <2>1
  <2>2. CASE X # {}
    <3>1. PICK x \in X, y \in Y : TRUE
      BY <1>4, <2>2
    <3> QED BY <1>6, <1>7, <3>1
  <2> QED BY <2>1, <2>2
<1> QED BY <1>3, <1>8 DEF X, Y

\* A failure of p changes nothing for a request that has tried p.
LEMMA AfterFailure ==
  ASSUME Shape, Shape', NEW t \in Caller, RecordFailure(t), NEW p \in Member, decision[t].id = p
  PROVE  After(t, p)' = After(t, p)
<1> DEFINE C == candidatesFor(group)
           E == candidatesFor(group)'
           g == Scanned(t)
<1>1. UNCHANGED <<setup, group, quota, now, decision>>
  BY DEF RecordFailure
<1>2. pc[t] # "cursor" /\ pc'[t] # "cursor" /\ \A a \in Member \ {p} : accounts'[a] = accounts[a]
  BY DEF RecordFailure, Shape, TypeOK
<1>3. Scanned(t)' = g
  BY <1>1, <1>2 DEF Scanned, Cursor
<1>4. Range(group.members) = Member
  BY DEF Shape, MembersOK, Member
<1>5. Selectable(g, E, now, {p}) = Selectable(g, C, now, {p})
  <2> DEFINE cand(a) == [id |-> a, row |-> accounts[a], used |-> latestUsedPercent(quota[a])]
             next(a) == [id |-> a, row |-> accounts'[a], used |-> latestUsedPercent(quota[a])]
  <2>1. C = {cand(a) : a \in Member} /\ E = {next(a) : a \in Member}
    BY <1>1, <1>4 DEF candidatesFor
  <2>2. \A a \in Member \ {p} : next(a) = cand(a)
    BY <1>2
  <2>3. cand(p).id = p /\ next(p).id = p
    OBVIOUS
  <2> HIDE DEF cand, next, C, E
  <2>4. \A c : c.id # p => (c \in E <=> c \in C)
    BY <2>1, <2>2, <2>3
  <2> QED BY <2>4 DEF Selectable
<1>6. selectInternal(g, E, now, {p}) = selectInternal(g, C, now, {p})
  BY <1>5, SelectionOf
<1>7. After(t, p)' = selectInternal(Scanned(t)', E, now', {p})
  BY DEF After
<1> QED BY <1>1, <1>3, <1>6, <1>7 DEF After

\* select answers what a preview of the same selection would name.
LEMMA SelectNames ==
  ASSUME Shape, NEW t \in Caller, Select(t)
  PROVE  /\ decision'[t].id = Named(Decisions(tried[t]))
         /\ Decisions(tried[t]) # {} =>
              /\ decision'[t] \in Decisions(tried[t])
              /\ tried'[t] = tried[t] \cup {decision'[t].id}
              /\ pc'[t] = IF group.strategy = "ROUND_ROBIN" THEN "cursor" ELSE "chosen"
         /\ \A u \in Caller \ {t} : pc'[u] = pc[u] /\ tried'[u] = tried[u]
<1>0. /\ decision \in [Caller -> [id : AccountId \cup {NoAccount}, index : Int]]
      /\ tried \in [Caller -> SUBSET Member] /\ pc \in [Caller -> {"idle", "cursor", "chosen"}]
      /\ group \in Group /\ group.members = setup.members
  BY DEF Shape, TypeOK, MembersOK
<1>1. CASE Decisions(tried[t]) = {}
  <2>1. /\ decision' = [decision EXCEPT ![t] = NoDecision]
        /\ tried' = [tried EXCEPT ![t] = {}] /\ pc' = pc
    BY <1>1 DEF Select
  <2>2. decision'[t].id = NoAccount
    BY <1>0, <2>1 DEF NoDecision
  <2>3. Named(Decisions(tried[t])) = NoAccount
    BY <1>1 DEF Named
  <2> QED BY <1>0, <1>1, <2>1, <2>2, <2>3
<1>2. CASE Decisions(tried[t]) # {}
  <2>1. PICK d \in Decisions(tried[t]) :
          /\ decision' = [decision EXCEPT ![t] = d]
          /\ tried' = [tried EXCEPT ![t] = @ \cup {d.id}]
          /\ pc' = [pc EXCEPT ![t] = IF group.strategy = "ROUND_ROBIN" THEN "cursor" ELSE "chosen"]
    BY <1>2 DEF Select
  <2>2. /\ decision'[t] = d /\ tried'[t] = tried[t] \cup {d.id}
        /\ pc'[t] = IF group.strategy = "ROUND_ROBIN" THEN "cursor" ELSE "chosen"
        /\ \A u \in Caller \ {t} : pc'[u] = pc[u] /\ tried'[u] = tried[u]
    BY <1>0, <2>1
  <2>3. Named(Decisions(tried[t])) = d.id
    BY <1>0, NamedIs DEF Decisions
  <2> QED BY <2>2, <2>3
<1> QED BY <1>1, <1>2

\* A selection that does not follow the forecast ends it.
LEMMA ForecastEnds ==
  ASSUME NEW t \in Caller, Select(t), ~ Follows(t)
  PROVE  forecast'.by = "none"
BY DEF Select, ForecastUsed, NoForecast

\* A selection that follows the forecast leaves the rest of it.
LEMMA ForecastFollowed ==
  ASSUME Shape, NEW t \in Caller, Select(t), Follows(t)
  PROVE  /\ forecast'.ids = Tail(forecast.ids) /\ forecast'.follower = t
         /\ Len(forecast.ids) = 1 => forecast'.ids = <<>>
         /\ Len(forecast.ids) = 2 => Len(forecast'.ids) = 1 /\ forecast'.ids[1] = forecast.ids[2]
<1>1. forecast' = [forecast EXCEPT !.ids = Tail(@), !.follower = t]
  BY DEF Select, ForecastUsed
<1>2. forecast.ids \in Seq(AccountId \cup {NoAccount})
  BY DEF Shape, TypeOK
<1>3. forecast'.ids = Tail(forecast.ids) /\ forecast'.follower = t
  BY <1>1 DEF Shape, TypeOK
<1>4. CASE Len(forecast.ids) = 1
  <2>1. forecast.ids # <<>>
    BY <1>4, LenProperties
  <2>2. Tail(forecast.ids) \in Seq(AccountId \cup {NoAccount}) /\ Len(Tail(forecast.ids)) = 0
    BY <1>2, <1>4, <2>1, HeadTailProperties
  <2>3. Tail(forecast.ids) = <<>>
    <3> DEFINE rest == Tail(forecast.ids)
    <3>1. rest \in Seq(AccountId \cup {NoAccount}) /\ Len(rest) = 0
      BY <2>2
    <3> HIDE DEF rest
    <3>2. rest # <<>> => Len(rest) \in Nat \ {0}
      BY <3>1, EmptySeq
    <3>3. rest = <<>>
      BY <3>1, <3>2
    <3> QED BY <3>3 DEF rest
  <2> QED BY <1>3, <1>4, <2>3
<1>5. CASE Len(forecast.ids) = 2
  <2>1. forecast.ids # <<>>
    BY <1>5
  <2>2. Len(Tail(forecast.ids)) = 1 /\ Tail(forecast.ids)[1] = forecast.ids[2]
    BY <1>2, <1>5, <2>1, HeadTailProperties
  <2> QED BY <1>3, <1>5, <2>2
<1> QED BY <1>3, <1>4, <1>5

\* The group as it is scanned when no cursor is to be stored.
LEMMA ScannedIdle ==
  ASSUME Shape, NEW t \in Caller, pc[t] # "cursor"
  PROVE  Scanned(t) = group
BY DEF Shape, TypeOK, Group, Scanned, Cursor

\* Where a selection leaves the forecast.
LEMMA ForecastSelect ==
  ASSUME Shape, Shape', ForecastOK, NEW t \in Caller, Select(t)
  PROVE  ForecastOK'
<1>1. CASE ~ Follows(t)
  <2>1. forecast'.by = "none"
    BY <1>1, ForecastEnds
  <2> QED BY <2>1 DEF ForecastOK
<1>2. CASE Follows(t) /\ Len(forecast.ids) = 1
  <2>1. forecast'.ids = <<>>
    BY <1>2, ForecastFollowed
  <2> QED BY <2>1 DEF ForecastOK
<1>3. CASE Follows(t) /\ Len(forecast.ids) = 2
  <2> SUFFICES ASSUME forecast'.by = "health"
               PROVE  \E p \in Member' : BackupForecast(t, p)'
    BY DEF ForecastOK
  <2>0. UNCHANGED <<setup, accounts, group, quota, now>> /\ pc[t] = "idle"
    BY DEF Select
  <2>1. forecast.by = "health"
    BY <1>3 DEF Select, ForecastUsed, Shape, TypeOK
  <2>2. FirstForecast
    <3>1. forecast.ids # <<>>
      BY <1>3
    <3> QED BY <1>3, <2>1, <3>1 DEF ForecastOK, BackupForecast
  <2>3. /\ Quiet /\ forecast.ids[1] = Named(Decisions({})) /\ group.strategy # "MANUAL"
        /\ Decisions({}) # {} /\ forecast.ids[2] = Named(Decisions({forecast.ids[1]}))
    BY <1>3, <2>2 DEF FirstForecast
  <2>4. tried[t] = {}
    BY <2>3 DEF Quiet
  <2>5. PICK d \in Decisions({}) : d = decision'[t]
    BY <2>3, <2>4, SelectNames
  <2>6. /\ tried'[t] = {d.id} /\ d.id = forecast.ids[1]
        /\ pc'[t] = IF group.strategy = "ROUND_ROBIN" THEN "cursor" ELSE "chosen"
        /\ \A u \in Caller \ {t} : pc'[u] = "idle" /\ tried'[u] = {}
    BY <2>3, <2>4, <2>5, SelectNames DEF Quiet
  <2>7. d.id \in Member' /\ d.index \in Int
    BY <2>0, DecisionType DEF Member
  <2>8. forecast'.follower = t /\ Len(forecast'.ids) = 1
        /\ forecast'.ids[1] = Named(Decisions({d.id}))
    BY <1>3, <2>3, <2>6, ForecastFollowed
  <2>9. Named(After(t, d.id)') = Named(Decisions({d.id}))
    <3>1. After(t, d.id)' = selectInternal(Scanned(t)', candidatesFor(group), now, {d.id})
      BY <2>0 DEF After, candidatesFor
    <3>2. CASE group.strategy = "ROUND_ROBIN"
      <4>1. Scanned(t)' = [group EXCEPT !.lastIndex = d.index]
        BY <2>0, <2>5, <2>6, <3>2 DEF Scanned, Cursor
      <4> QED BY <3>1, <3>2, <4>1, NextInScan
    <3>3. CASE group.strategy # "ROUND_ROBIN"
      <4>1. Scanned(t)' = group
        BY <2>0, <2>6, <3>3 DEF Scanned, Cursor, Shape, TypeOK, Group
      <4> QED BY <3>1, <4>1 DEF Decisions
    <3> QED BY <3>2, <3>3
  <2>10. BackupForecast(t, d.id)'
    <3>1. Named(After(t, d.id))' = Named(Decisions({d.id}))
      BY <2>9 DEF Named
    <3> QED BY <2>0, <2>3, <2>5, <2>6, <2>8, <3>1 DEF BackupForecast, Apart
  <2> QED BY <2>7, <2>10
<1> QED BY <1>1, <1>2, <1>3 DEF Follows

\* A caller that has a selection under way is the follower, when there is a
\* forecast left.
LEMMA FollowerOnly ==
  ASSUME Shape, ForecastOK, forecast.by = "health", NEW t \in Caller, pc[t] # "idle",
         forecast.ids # <<>>
  PROVE  \E p \in Member : BackupForecast(t, p)
BY DEF ForecastOK, FirstForecast, BackupForecast, Quiet, Apart

LEMMA ForecastCursor ==
  ASSUME Shape, Shape', ForecastOK, NEW t \in Caller, StoreCursor(t)
  PROVE  ForecastOK'
<1> SUFFICES ASSUME forecast.by = "health", forecast.ids # <<>>
             PROVE  \E p \in Member' : BackupForecast(t, p)'
  BY DEF ForecastOK, StoreCursor
<1>1. UNCHANGED <<setup, accounts, quota, now, tried, decision, forecast>> /\ pc[t] = "cursor"
  BY DEF StoreCursor
<1>2. /\ group' = [group EXCEPT !.lastIndex = decision[t].index]
      /\ pc'[t] = "chosen" /\ \A u \in Caller \ {t} : pc'[u] = pc[u]
  BY DEF StoreCursor, Shape, TypeOK
<1>3. PICK p \in Member : BackupForecast(t, p)
  BY <1>1, FollowerOnly
<1>4. group' \in Group /\ group'.members = group.members /\ group'.strategy = group.strategy
  BY <1>2 DEF Shape, TypeOK, Group
<1>5. Scanned(t)' = Scanned(t)
  BY <1>1, <1>2 DEF Scanned, Cursor, Shape, TypeOK, Group
<1>6. candidatesFor(group)' = candidatesFor(group)
  BY <1>1, <1>4 DEF candidatesFor
<1>7. After(t, p)' = After(t, p)
  BY <1>1, <1>5, <1>6 DEF After
<1>8. Named(After(t, p))' = Named(After(t, p))
  BY <1>7 DEF Named
<1>9. BackupForecast(t, p)'
  BY <1>1, <1>2, <1>3, <1>4, <1>8 DEF BackupForecast, Apart
<1> QED BY <1>1, <1>9 DEF Member

LEMMA ForecastFailure ==
  ASSUME Shape, Shape', ForecastOK, NEW t \in Caller, RecordFailure(t)
  PROVE  ForecastOK'
<1> SUFFICES ASSUME forecast.by = "health", forecast.ids # <<>>
             PROVE  \E p \in Member' : BackupForecast(t, p)'
  BY DEF ForecastOK, RecordFailure
<1>1. UNCHANGED <<setup, group, quota, now, tried, decision, forecast>> /\ pc[t] = "chosen"
  BY DEF RecordFailure
<1>2. pc'[t] = "idle" /\ \A u \in Caller \ {t} : pc'[u] = pc[u]
  BY DEF RecordFailure, Shape, TypeOK
<1>3. PICK p \in Member : BackupForecast(t, p)
  BY <1>1, FollowerOnly
<1>4. decision[t].id = p
  BY <1>1, <1>3 DEF BackupForecast
<1>5. After(t, p)' = After(t, p)
  BY <1>4, AfterFailure
<1>6. Named(After(t, p))' = Named(After(t, p))
  BY <1>5 DEF Named
<1>7. BackupForecast(t, p)'
  BY <1>1, <1>2, <1>3, <1>6 DEF BackupForecast, Apart
<1> QED BY <1>1, <1>7 DEF Member

\* The screen forecasts from the state it finds.
LEMMA ForecastScreen ==
  ASSUME Shape, RoutingHealth
  PROVE  ForecastOK'
<1> DEFINE primary == Named(Decisions({}))
           backup  == Named(Decisions({primary}))
           two     == primary # NoAccount /\ group.strategy # "MANUAL"
<1>1. /\ Quiet /\ UNCHANGED <<setup, accounts, group, quota, now, pc, tried>>
      /\ forecast' = [ids |-> IF two THEN <<primary, backup>> ELSE <<primary>>,
                      by |-> "health", follower |-> "none"]
  BY DEF RoutingHealth
<1>2. primary = NoAccount <=> Decisions({}) = {}
  BY NamedNone
<1>3. \A x : Decisions(x)' = Decisions(x)
  BY <1>1 DEF Decisions, candidatesFor
<1>4. \A x : Named(Decisions(x))' = Named(Decisions(x))
  BY <1>1 DEF Named, Decisions, candidatesFor
<1>5. Quiet'
  BY <1>1 DEF Quiet
<1> HIDE DEF primary, backup
<1>6. /\ forecast'.follower = "none" /\ forecast'.ids[1] = primary
      /\ two => Len(forecast'.ids) = 2 /\ forecast'.ids[2] = backup
      /\ ~ two => Len(forecast'.ids) = 1
  BY <1>1
<1>7. FirstForecast'
  BY <1>1, <1>2, <1>3, <1>4, <1>5, <1>6 DEF FirstForecast, primary, backup
<1> QED BY <1>7 DEF ForecastOK

LEMMA ForecastInvariance == Spec => []ForecastOK
<1>1. Init => ForecastOK
  BY DEF Init, NoForecast, ForecastOK
<1>2. Shape /\ ForecastOK /\ [Next]_vars /\ Shape' => ForecastOK'
  <2> SUFFICES ASSUME Shape, ForecastOK, [Next]_vars, Shape' PROVE ForecastOK'
    OBVIOUS
  <2>0. setup.callers \subseteq Caller
    BY SetupType DEF Shape, IsSetup
  <2>1. ASSUME NEW t \in setup.callers, Select(t) \/ StoreCursor(t) \/ RecordFailure(t)
        PROVE  ForecastOK'
    BY <2>0, <2>1, ForecastSelect, ForecastCursor, ForecastFailure
  <2>2. CASE RoutingHealth
    BY <2>2, ForecastScreen
  <2>3. CASE \/ \E t \in setup.callers : RecordSuccess(t)
             \/ \E a \in Member :
                  SetAccountEnabled(a) \/ SetAccountPriority(a) \/ RecordQuotaSnapshot(a)
             \/ PreviewSelection \/ SaveGroup \/ Tick
    <3>1. \/ forecast' = NoForecast
          \/ \E ids : forecast' = [ids |-> ids, by |-> "groups", follower |-> "none"]
      BY <2>3 DEF RecordSuccess, SetAccountEnabled, SetAccountPriority, RecordQuotaSnapshot,
                  PreviewSelection, SaveGroup, Tick, Edit
    <3>2. forecast'.by # "health"
      BY <3>1 DEF NoForecast
    <3> QED BY <3>2 DEF ForecastOK
  <2>4. CASE UNCHANGED vars
    <3>1. UNCHANGED <<setup, accounts, group, quota, now, pc, tried, decision, forecast>>
      BY <2>4 DEF vars
    <3>2. candidatesFor(group)' = candidatesFor(group) /\ Member' = Member
      BY <3>1 DEF candidatesFor, Member
    <3>3. \A x : Named(Decisions(x))' = Named(Decisions(x)) /\ (Decisions(x)' = Decisions(x))
      BY <3>1, <3>2 DEF Decisions, Named
    <3>4. \A t, p : Named(After(t, p))' = Named(After(t, p))
      BY <3>1, <3>2 DEF After, Named, Scanned, Cursor
    <3>5. FirstForecast => FirstForecast'
      BY <3>1, <3>3 DEF FirstForecast, Quiet
    <3>6. \A t, p : BackupForecast(t, p) => BackupForecast(t, p)'
      BY <3>1, <3>4 DEF BackupForecast, Apart
    <3> QED BY <3>1, <3>2, <3>5, <3>6 DEF ForecastOK
  <2> QED BY <2>1, <2>2, <2>3, <2>4 DEF Next
<1> QED BY <1>1, <1>2, ShapeInvariance, PTL DEF Spec

\* The next request is given the primary that Routing Health shows, and when it
\* fails there, the backup.
THEOREM HealthTellsTruth == Spec => HealthForetells
<1>1. Shape /\ ForecastOK =>
        [forecast.by = "health" => \A t \in Caller : Select(t) => Foretold(t)]_vars
  <2> SUFFICES ASSUME Shape, ForecastOK, forecast.by = "health", NEW t \in Caller, Select(t),
                      Follows(t)
               PROVE  decision'[t].id = Head(forecast.ids)
    BY DEF Foretold
  <2>1. forecast.ids \in Seq(AccountId \cup {NoAccount}) /\ forecast.ids # <<>>
    <3>1. forecast.ids \in Seq(AccountId \cup {NoAccount})
      BY DEF Shape, TypeOK
    <3>2. Len(forecast.ids) \in {1, 2}
      BY DEF Follows
    <3>3. Len(<< >>) = 0
      BY EmptySeq
    <3>4. Len(forecast.ids) # 0
      BY <3>2
    <3> QED BY <3>1, <3>3, <3>4, Zenon
  <2>2. Head(forecast.ids) = forecast.ids[1]
    BY <2>1
  <2>3. decision'[t].id = Named(Decisions(tried[t]))
    BY SelectNames
  <2>4. CASE FirstForecast
    BY <2>2, <2>3, <2>4 DEF FirstForecast, Quiet
  <2>5. ASSUME NEW u \in Caller, NEW p \in Member, BackupForecast(u, p)
        PROVE  decision'[t].id = Head(forecast.ids)
    <3>1. u = t /\ tried[t] = {p} /\ forecast.ids[1] = Named(After(t, p))
      BY <2>5, RoutingSelectionAssumption DEF BackupForecast, Apart, Follows
    <3>2. pc[t] = "idle"
      BY DEF Select
    <3>3. After(t, p) = Decisions({p})
      BY <3>2, ScannedIdle DEF After, Decisions
    <3> QED BY <2>2, <2>3, <3>1, <3>3
  <2> QED BY <2>1, <2>4, <2>5 DEF ForecastOK
<1> QED BY <1>1, ShapeInvariance, ForecastInvariance, PTL DEF HealthForetells

=============================================================================
